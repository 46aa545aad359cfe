------------------------------ MODULE SemBuffer ------------------------------
(* The producer/consumer program of 06_mutex/semaphone.c: one producer and  *)
(* one consumer thread share a circular buffer guarded by two counting      *)
(* semaphores and a mutex.  Every statement of a thread that touches shared *)
(* state is an action of its own; pcP and pcC name the statement a thread   *)
(* executes next.  printf and sleep have no state and are left out.         *)
EXTENDS Naturals, Sequences

CONSTANTS
    Items,       \* the values rand() % 100 may return
    BUFFER_SIZE  \* #define BUFFER_SIZE

ASSUME BufferSizeAssumption == BUFFER_SIZE \in Nat \ {0}

ASSUME ItemsAssumption == Items # {}

VARIABLES
    buffer,  \* int buffer[BUFFER_SIZE]
    in,      \* producer write position
    out,     \* consumer read position
    empty,   \* value of the semaphore counting empty slots
    full,    \* value of the semaphore counting full slots
    mutex,   \* the thread that holds the mutex, or "none"
    pcP,     \* the next statement of producer()
    itemP,   \* the local variable item of producer()
    pcC,     \* the next statement of consumer()
    itemC    \* the local variable item of consumer()

vars == <<buffer, in, out, empty, full, mutex, pcP, itemP, pcC, itemC>>

Slots == 0 .. BUFFER_SIZE - 1

ProducerSteps == {"item", "wait", "lock", "write", "advance", "unlock", "post"}
ConsumerSteps == {"wait", "lock", "read", "advance", "unlock", "post"}

\* main() initialises the semaphores and the mutex before it creates the
\* threads; buffer, in and out are zero-initialised globals, the locals item
\* are not initialised.
Init ==
    /\ \E zero \in Items : buffer = [s \in Slots |-> zero]
    /\ in = 0
    /\ out = 0
    /\ empty = BUFFER_SIZE
    /\ full = 0
    /\ mutex = "none"
    /\ pcP = "item" /\ itemP \in Items
    /\ pcC = "wait" /\ itemC \in Items

-----------------------------------------------------------------------------
(* The producer thread. *)

\* item = rand() % 100
ProducerItem ==
    /\ pcP = "item"
    /\ itemP' \in Items
    /\ pcP' = "wait"
    /\ UNCHANGED <<buffer, in, out, empty, full, mutex, pcC, itemC>>

\* Fault: sem_wait interrupted by a signal and its result not checked, so the
\* producer goes on without a slot.
ProducerWaitFault ==
    /\ pcP = "wait"
    /\ empty' = IF empty > 0 THEN empty - 1 ELSE 0
    /\ pcP' = "lock"
    /\ UNCHANGED <<buffer, in, out, full, mutex, itemP, pcC, itemC>>

\* sem_wait(&empty) blocks while the semaphore is zero
ProducerWait ==
    /\ pcP = "wait"
    /\ empty > 0
    /\ empty' = empty - 1
    /\ pcP' = "lock"
    /\ UNCHANGED <<buffer, in, out, full, mutex, itemP, pcC, itemC>>

\* Fault: the mutex is not taken.
ProducerLockFault ==
    /\ pcP = "lock"
    /\ mutex' = "producer"
    /\ pcP' = "write"
    /\ UNCHANGED <<buffer, in, out, empty, full, itemP, pcC, itemC>>

\* pthread_mutex_lock(&mutex)
ProducerLock ==
    /\ pcP = "lock"
    /\ mutex = "none"
    /\ mutex' = "producer"
    /\ pcP' = "write"
    /\ UNCHANGED <<buffer, in, out, empty, full, itemP, pcC, itemC>>

\* buffer[in] = item
ProducerWrite ==
    /\ pcP = "write"
    /\ buffer' = [buffer EXCEPT ![in] = itemP]
    /\ pcP' = "advance"
    /\ UNCHANGED <<in, out, empty, full, mutex, itemP, pcC, itemC>>

\* in = (in + 1) % BUFFER_SIZE
ProducerAdvance ==
    /\ pcP = "advance"
    /\ in' = (in + 1) % BUFFER_SIZE
    /\ pcP' = "unlock"
    /\ UNCHANGED <<buffer, out, empty, full, mutex, itemP, pcC, itemC>>

\* pthread_mutex_unlock(&mutex)
ProducerUnlock ==
    /\ pcP = "unlock"
    /\ mutex' = "none"
    /\ pcP' = "post"
    /\ UNCHANGED <<buffer, in, out, empty, full, itemP, pcC, itemC>>

\* sem_post(&full), then round the loop
ProducerPost ==
    /\ pcP = "post"
    /\ full' = full + 1
    /\ pcP' = "item"
    /\ UNCHANGED <<buffer, in, out, empty, mutex, itemP, pcC, itemC>>

-----------------------------------------------------------------------------
(* The consumer thread. *)

\* sem_wait(&full)
ConsumerWait ==
    /\ pcC = "wait"
    /\ full > 0
    /\ full' = full - 1
    /\ pcC' = "lock"
    /\ UNCHANGED <<buffer, in, out, empty, mutex, pcP, itemP, itemC>>

\* pthread_mutex_lock(&mutex)
ConsumerLock ==
    /\ pcC = "lock"
    /\ mutex = "none"
    /\ mutex' = "consumer"
    /\ pcC' = "read"
    /\ UNCHANGED <<buffer, in, out, empty, full, pcP, itemP, itemC>>

\* item = buffer[out]
ConsumerRead ==
    /\ pcC = "read"
    /\ itemC' = buffer[out]
    /\ pcC' = "advance"
    /\ UNCHANGED <<buffer, in, out, empty, full, mutex, pcP, itemP>>

\* Fault: wraps one slot early.
ConsumerAdvanceFault ==
    /\ pcC = "advance"
    /\ out' = IF out + 1 >= BUFFER_SIZE - 1 THEN 0 ELSE out + 1
    /\ pcC' = "unlock"
    /\ UNCHANGED <<buffer, in, empty, full, mutex, pcP, itemP, itemC>>

\* out = (out + 1) % BUFFER_SIZE
ConsumerAdvance ==
    /\ pcC = "advance"
    /\ out' = (out + 1) % BUFFER_SIZE
    /\ pcC' = "unlock"
    /\ UNCHANGED <<buffer, in, empty, full, mutex, pcP, itemP, itemC>>

\* pthread_mutex_unlock(&mutex)
ConsumerUnlock ==
    /\ pcC = "unlock"
    /\ mutex' = "none"
    /\ pcC' = "post"
    /\ UNCHANGED <<buffer, in, out, empty, full, pcP, itemP, itemC>>

\* Fault: posts the semaphore it waited for.
ConsumerPostFault ==
    /\ pcC = "post"
    /\ full' = full + 1
    /\ pcC' = "wait"
    /\ UNCHANGED <<buffer, in, out, empty, mutex, pcP, itemP, itemC>>

\* sem_post(&empty), then round the loop
ConsumerPost ==
    /\ pcC = "post"
    /\ empty' = empty + 1
    /\ pcC' = "wait"
    /\ UNCHANGED <<buffer, in, out, full, mutex, pcP, itemP, itemC>>

-----------------------------------------------------------------------------
Producer ==
    \/ ProducerItem \/ ProducerWait \/ ProducerLock \/ ProducerWrite
    \/ ProducerAdvance \/ ProducerUnlock \/ ProducerPost

Consumer ==
    \/ ConsumerWait \/ ConsumerLock \/ ConsumerRead
    \/ ConsumerAdvance \/ ConsumerUnlock \/ ConsumerPost

Next == Producer \/ Consumer

Spec == Init /\ [][Next]_vars

\* The scheduler runs a thread that can take a step; nothing more is assumed
\* of the semaphores or of the mutex (no FIFO hand-over).
FairSpec == Spec /\ WF_vars(Producer) /\ WF_vars(Consumer)

-----------------------------------------------------------------------------
(* The abstract queue in a state: the slots written and not yet read. *)

\* slot s + k of the circle, for s and k at most BUFFER_SIZE
Wrap(i) == IF i < BUFFER_SIZE THEN i ELSE i - BUFFER_SIZE

\* out lags behind the read by one statement
ReadPos == IF pcC = "advance" THEN Wrap(out + 1) ELSE out

\* in lags behind the write by one statement
WritePos == IF pcP = "advance" THEN Wrap(in + 1) ELSE in

\* an item counts from the write to the read, so the producer's item before
\* its sem_post and the consumer's after its sem_wait count too
Unread ==
    full + (IF pcP \in {"advance", "unlock", "post"} THEN 1 ELSE 0)
         + (IF pcC \in {"lock", "read"} THEN 1 ELSE 0)

\* slots taken from the semaphore empty and not yet given back to it, or not
\* yet filled
Reserved ==
    empty + (IF pcP \in {"lock", "write"} THEN 1 ELSE 0)
          + (IF pcC \in {"advance", "unlock", "post"} THEN 1 ELSE 0)

UnreadItems == [k \in 1 .. Unread |-> buffer[Wrap(ReadPos + k - 1)]]

Queue == INSTANCE BoundedQueue WITH queue <- UnreadItems, got <- itemC

-----------------------------------------------------------------------------
(* Properties. *)

\* The state keeps its types: positions inside the buffer, semaphore values
\* that sem_post and sem_wait can reach, the statements of the two loops.
TypeOK ==
    /\ buffer \in [Slots -> Items]
    /\ in \in Slots
    /\ out \in Slots
    /\ empty \in 0 .. BUFFER_SIZE
    /\ full \in 0 .. BUFFER_SIZE
    /\ mutex \in {"none", "producer", "consumer"}
    /\ pcP \in ProducerSteps
    /\ itemP \in Items
    /\ pcC \in ConsumerSteps
    /\ itemC \in Items

\* The mutex serialises the two critical sections of producer() and
\* consumer(): a thread is between its lock and its unlock exactly while it
\* holds the mutex.
MutualExclusion ==
    /\ pcP \in {"write", "advance", "unlock"} <=> mutex = "producer"
    /\ pcC \in {"read", "advance", "unlock"} <=> mutex = "consumer"

\* No slot is lost or created by the two semaphores together, at any
\* interleaving of wait, lock, unlock and post: the free slots and the unread
\* slots always make up the whole buffer.
SlotsConserved == Reserved + Unread = BUFFER_SIZE

\* The write position is Unread slots ahead of the read position, although
\* the code never compares in with out: only the semaphores keep them apart.
PositionsAgree == WritePos = Wrap(ReadPos + Unread)

\* buffer[in] = item never overwrites an item that consumer() has yet to read,
\* and item = buffer[out] never reads a slot nobody filled since the last read.
NoLostItem ==
    /\ pcP = "write" => \A k \in 1 .. Unread : in # Wrap(ReadPos + k - 1)
    /\ pcC = "read" => Unread > 0

\* The two threads implement the bounded first-in first-out queue: an item
\* enters at the write and leaves, oldest first, at the read.
ImplementsQueue == Queue!Spec

\* Both threads work for ever: no thread is starved by the mutex or by a lost
\* semaphore count, so every slot is filled again and again and every item is
\* eventually consumed.
BothMakeProgress == []<>(pcP = "write") /\ []<>(pcC = "read")
=============================================================================
