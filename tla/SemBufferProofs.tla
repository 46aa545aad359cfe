--------------------------- MODULE SemBufferProofs ---------------------------
(* Proofs about SemBuffer, for every BUFFER_SIZE and every set of items.    *)
EXTENDS SemBuffer, TLAPS

(* The inductive invariant.  TypeOK is not inductive by itself: that        *)
(* sem_post keeps a semaphore at most BUFFER_SIZE follows from              *)
(* SlotsConserved.                                                          *)
IInv == TypeOK /\ MutualExclusion /\ SlotsConserved /\ PositionsAgree

\* The modulo of the code, for a position inside the buffer, is Wrap.
LEMMA ModIsWrap == ASSUME NEW i \in Slots
                   PROVE  (i + 1) % BUFFER_SIZE = Wrap(i + 1)
<1>1. CASE i + 1 < BUFFER_SIZE
  BY <1>1, BufferSizeAssumption DEF Slots, Wrap
<1>2. CASE i + 1 = BUFFER_SIZE
  BY <1>2, BufferSizeAssumption DEF Slots, Wrap
<1> QED
  BY <1>1, <1>2, BufferSizeAssumption DEF Slots

\* The initial state satisfies the inductive invariant.
LEMMA InitIInv == Init => IInv
  BY BufferSizeAssumption, ItemsAssumption
     DEF Init, IInv, TypeOK, MutualExclusion, SlotsConserved, PositionsAgree,
         Slots, ProducerSteps, ConsumerSteps, Reserved, Unread, ReadPos,
         WritePos, Wrap

\* Every statement of the producer preserves the inductive invariant.
LEMMA ProducerIInv == IInv /\ Producer => IInv'
<1> SUFFICES ASSUME IInv, Producer PROVE IInv'
  OBVIOUS
<1> USE BufferSizeAssumption
    DEF IInv, TypeOK, MutualExclusion, SlotsConserved, PositionsAgree, Slots,
        ProducerSteps, ConsumerSteps, Reserved, Unread, ReadPos, WritePos, Wrap
<1>1. CASE ProducerItem
  BY <1>1 DEF ProducerItem
<1>2. CASE ProducerWait
  BY <1>2 DEF ProducerWait
<1>3. CASE ProducerLock
  BY <1>3 DEF ProducerLock
<1>4. CASE ProducerWrite
  BY <1>4 DEF ProducerWrite
<1>5. CASE ProducerAdvance
  <2>1. in' = IF in + 1 < BUFFER_SIZE THEN in + 1 ELSE in + 1 - BUFFER_SIZE
    BY <1>5, ModIsWrap DEF ProducerAdvance
  <2> QED
    BY <1>5, <2>1 DEF ProducerAdvance
<1>6. CASE ProducerUnlock
  BY <1>6 DEF ProducerUnlock
<1>7. CASE ProducerPost
  BY <1>7 DEF ProducerPost
<1> QED
  BY <1>1, <1>2, <1>3, <1>4, <1>5, <1>6, <1>7 DEF Producer

\* Every statement of the consumer preserves the inductive invariant.
LEMMA ConsumerIInv == IInv /\ Consumer => IInv'
<1> SUFFICES ASSUME IInv, Consumer PROVE IInv'
  OBVIOUS
<1> USE BufferSizeAssumption
    DEF IInv, TypeOK, MutualExclusion, SlotsConserved, PositionsAgree, Slots,
        ProducerSteps, ConsumerSteps, Reserved, Unread, ReadPos, WritePos, Wrap
<1>1. CASE ConsumerWait
  BY <1>1 DEF ConsumerWait
<1>2. CASE ConsumerLock
  BY <1>2 DEF ConsumerLock
<1>3. CASE ConsumerRead
  BY <1>3 DEF ConsumerRead
<1>4. CASE ConsumerAdvance
  <2>1. out' = IF out + 1 < BUFFER_SIZE THEN out + 1 ELSE out + 1 - BUFFER_SIZE
    BY <1>4, ModIsWrap DEF ConsumerAdvance
  <2> QED
    BY <1>4, <2>1 DEF ConsumerAdvance
<1>5. CASE ConsumerUnlock
  BY <1>5 DEF ConsumerUnlock
<1>6. CASE ConsumerPost
  BY <1>6 DEF ConsumerPost
<1> QED
  BY <1>1, <1>2, <1>3, <1>4, <1>5, <1>6 DEF Consumer

\* The inductive invariant holds in every reachable state of the program.
THEOREM Invariance == Spec => []IInv
<1>1. IInv /\ [Next]_vars => IInv'
  <2> SUFFICES ASSUME IInv, [Next]_vars PROVE IInv'
    OBVIOUS
  <2>1. CASE UNCHANGED vars
    BY <2>1 DEF vars, IInv, TypeOK, MutualExclusion, SlotsConserved,
                PositionsAgree, Reserved, Unread, ReadPos, WritePos
  <2> QED
    BY <2>1, ProducerIInv, ConsumerIInv DEF Next
<1> QED
  BY <1>1, InitIInv, PTL DEF Spec

\* Positions stay inside the buffer and the semaphores never exceed
\* BUFFER_SIZE, for a buffer of any size.
THEOREM TypeCorrect == Spec => []TypeOK
  BY Invariance, PTL DEF IInv

\* The two critical sections exclude each other.
THEOREM CriticalSectionsExclude == Spec => []MutualExclusion
  BY Invariance, PTL DEF IInv

\* The two semaphores together account for every slot at every moment.
THEOREM SlotsAreConserved == Spec => []SlotsConserved
  BY Invariance, PTL DEF IInv

\* in and out, which the code never compares, stay Unread slots apart.
THEOREM PositionsStayApart == Spec => []PositionsAgree
  BY Invariance, PTL DEF IInv

\* In a state of the invariant the unread items are a sequence of items that
\* the buffer has room for, and while the producer is about to write there is
\* a slot free for it.
LEMMA UnreadBounds ==
    IInv => /\ Unread \in 0 .. BUFFER_SIZE
            /\ ReadPos \in Slots
            /\ pcP = "write" => Unread < BUFFER_SIZE
            /\ pcC = "read" => Unread > 0
  BY BufferSizeAssumption
     DEF IInv, TypeOK, MutualExclusion, SlotsConserved, Slots, ProducerSteps,
         ConsumerSteps, Reserved, Unread, ReadPos, Wrap

\* The producer never overwrites an unread item and the consumer never reads
\* a slot that was not filled.
THEOREM NoItemIsLost == Spec => []NoLostItem
<1>1. IInv => NoLostItem
  <2> SUFFICES ASSUME IInv PROVE NoLostItem
    OBVIOUS
  <2>1. ASSUME pcP = "write", NEW k \in 1 .. Unread
        PROVE  in # Wrap(ReadPos + k - 1)
    <3>1. in = Wrap(ReadPos + Unread)
      BY <2>1 DEF IInv, PositionsAgree, WritePos
    <3>2. Unread \in Nat /\ Unread < BUFFER_SIZE /\ ReadPos \in Slots
      BY <2>1, UnreadBounds, BufferSizeAssumption
    <3>3. k \in Nat /\ 1 <= k /\ k <= Unread
      BY <2>1, <3>2
    <3> QED
      BY <3>1, <3>2, <3>3, BufferSizeAssumption DEF Slots, Wrap
  <2> QED
    BY <2>1, UnreadBounds DEF NoLostItem
<1> QED
  BY <1>1, Invariance, PTL

-----------------------------------------------------------------------------
(* Refinement of BoundedQueue. *)

\* The abstract queue holds items and is never longer than the buffer.
LEMMA UnreadItemsType ==
    IInv => /\ UnreadItems \in Seq(Items)
            /\ Len(UnreadItems) = Unread
<1> SUFFICES ASSUME IInv
             PROVE  UnreadItems \in Seq(Items) /\ Len(UnreadItems) = Unread
  OBVIOUS
<1>1. Unread \in Nat /\ Unread <= BUFFER_SIZE /\ ReadPos \in Slots
  BY UnreadBounds, BufferSizeAssumption
<1>2. ASSUME NEW k \in 1 .. Unread
      PROVE  buffer[Wrap(ReadPos + k - 1)] \in Items
  <2>1. Wrap(ReadPos + k - 1) \in Slots
    BY <1>1, BufferSizeAssumption DEF Slots, Wrap
  <2> QED
    BY <2>1 DEF IInv, TypeOK
<1>3. UnreadItems \in [1 .. Unread -> Items]
  BY <1>2 DEF UnreadItems
<1> QED
  BY <1>1, <1>3

\* buffer[in] = item appends the item to the abstract queue.
LEMMA WriteAppends == IInv /\ ProducerWrite => Queue!Put(itemP)
<1> SUFFICES ASSUME IInv, ProducerWrite PROVE Queue!Put(itemP)
  OBVIOUS
<1>1. /\ Unread \in Nat /\ Unread < BUFFER_SIZE /\ ReadPos \in Slots
      /\ in = Wrap(ReadPos + Unread) /\ in \in Slots
      /\ buffer \in [Slots -> Items] /\ itemP \in Items
  BY UnreadBounds, BufferSizeAssumption
     DEF ProducerWrite, IInv, TypeOK, PositionsAgree, WritePos
<1>2. Unread' = Unread + 1 /\ ReadPos' = ReadPos
  BY DEF ProducerWrite, IInv, TypeOK, Unread, ReadPos, Wrap, Slots
<1>3. buffer' = [buffer EXCEPT ![in] = itemP] /\ itemC' = itemC
  BY DEF ProducerWrite
<1>4. ASSUME NEW k \in 1 .. Unread + 1
      PROVE  buffer'[Wrap(ReadPos + k - 1)]
               = IF k <= Unread THEN buffer[Wrap(ReadPos + k - 1)] ELSE itemP
  <2>1. Wrap(ReadPos + k - 1) \in Slots
    BY <1>1, BufferSizeAssumption DEF Slots, Wrap
  <2>2. CASE k <= Unread
    <3>1. Wrap(ReadPos + k - 1) # in
      BY <1>1, <2>2, BufferSizeAssumption DEF Slots, Wrap
    <3> QED
      BY <1>1, <1>3, <2>1, <2>2, <3>1
  <2>3. CASE k = Unread + 1
    <3>1. Wrap(ReadPos + k - 1) = in
      BY <1>1, <2>3, BufferSizeAssumption DEF Slots, Wrap
    <3> QED
      BY <1>1, <1>3, <2>3, <3>1
  <2> QED
    BY <1>1, <2>2, <2>3
<1>5. UnreadItems' = [k \in 1 .. Unread + 1 |->
                        IF k <= Unread THEN buffer[Wrap(ReadPos + k - 1)]
                                       ELSE itemP]
  <2>1. UnreadItems' = [k \in 1 .. Unread + 1 |->
                          buffer'[Wrap(ReadPos + k - 1)]]
    BY <1>2 DEF UnreadItems, Wrap
  <2> QED
    BY <2>1, <1>4, Zenon
<1>6. UnreadItems' = Append(UnreadItems, itemP)
  <2>1. /\ UnreadItems \in Seq(Items) /\ Len(UnreadItems) = Unread
        /\ UnreadItems = [k \in 1 .. Unread |-> buffer[Wrap(ReadPos + k - 1)]]
    BY UnreadItemsType DEF UnreadItems
  <2> QED
    BY <1>1, <1>5, <2>1
<1> QED
  BY <1>1, <1>3, <1>6, UnreadItemsType DEF Queue!Put

\* item = buffer[out] removes the oldest item from the abstract queue.
LEMMA ReadTakesHead == IInv /\ ConsumerRead => Queue!Get
<1> SUFFICES ASSUME IInv, ConsumerRead PROVE Queue!Get
  OBVIOUS
<1>1. /\ Unread \in Nat /\ 0 < Unread /\ Unread <= BUFFER_SIZE
      /\ out \in Slots /\ ReadPos = out
  BY UnreadBounds, BufferSizeAssumption
     DEF ConsumerRead, IInv, TypeOK, ReadPos
<1>2. Unread' = Unread - 1 /\ ReadPos' = Wrap(out + 1)
  BY <1>1 DEF ConsumerRead, IInv, TypeOK, Unread, ReadPos, Wrap, Slots
<1>3. buffer' = buffer /\ itemC' = buffer[out]
  BY DEF ConsumerRead
<1>4. /\ UnreadItems \in Seq(Items) /\ Len(UnreadItems) = Unread
      /\ UnreadItems = [k \in 1 .. Unread |-> buffer[Wrap(out + k - 1)]]
  BY <1>1, UnreadItemsType DEF UnreadItems
<1>5. itemC' = Head(UnreadItems)
  <2>1. Wrap(out + 1 - 1) = out
    BY <1>1, BufferSizeAssumption DEF Slots, Wrap
  <2> QED
    BY <1>1, <1>3, <1>4, <2>1
<1>6. UnreadItems' = Tail(UnreadItems)
  <2>1. ASSUME NEW k \in 1 .. Unread - 1
        PROVE  Wrap(Wrap(out + 1) + k - 1) = Wrap(out + (k + 1) - 1)
    BY <1>1, BufferSizeAssumption DEF Slots, Wrap
  <2>2. UnreadItems' = [k \in 1 .. Unread - 1 |->
                          buffer[Wrap(Wrap(out + 1) + k - 1)]]
    BY <1>2, <1>3 DEF UnreadItems, Wrap
  <2>3. Tail(UnreadItems) = [k \in 1 .. Unread - 1 |->
                               buffer[Wrap(out + (k + 1) - 1)]]
    BY <1>1, <1>4
  <2> QED
    BY <2>1, <2>2, <2>3
<1> QED
  BY <1>1, <1>4, <1>5, <1>6 DEF Queue!Get

\* Every other statement leaves the abstract queue alone.
LEMMA OthersStutter ==
    /\ IInv
    /\ \/ ProducerItem \/ ProducerWait \/ ProducerLock \/ ProducerAdvance
       \/ ProducerUnlock \/ ProducerPost \/ ConsumerWait \/ ConsumerLock
       \/ ConsumerAdvance \/ ConsumerUnlock \/ ConsumerPost \/ UNCHANGED vars
    => UNCHANGED <<UnreadItems, itemC>>
<1> SUFFICES ASSUME IInv,
                    \/ ProducerItem \/ ProducerWait \/ ProducerLock
                    \/ ProducerAdvance \/ ProducerUnlock \/ ProducerPost
                    \/ ConsumerWait \/ ConsumerLock \/ ConsumerAdvance
                    \/ ConsumerUnlock \/ ConsumerPost \/ UNCHANGED vars
             PROVE  UNCHANGED <<UnreadItems, itemC>>
  OBVIOUS
<1>1. UNCHANGED <<Unread, ReadPos, buffer, itemC>>
  <2> USE DEF IInv, TypeOK, Unread, ReadPos, Wrap, Slots
  <2>1. CASE ConsumerAdvance
    BY <2>1, ModIsWrap DEF ConsumerAdvance
  <2>2. CASE \/ ProducerItem \/ ProducerWait \/ ProducerLock
             \/ ProducerAdvance \/ ProducerUnlock \/ ProducerPost
    BY <2>2 DEF ProducerItem, ProducerWait, ProducerLock, ProducerAdvance,
                ProducerUnlock, ProducerPost
  <2>3. CASE ConsumerWait \/ ConsumerLock \/ ConsumerUnlock \/ ConsumerPost
    BY <2>3 DEF ConsumerWait, ConsumerLock, ConsumerUnlock, ConsumerPost
  <2>4. CASE UNCHANGED vars
    BY <2>4 DEF vars
  <2> QED
    BY <2>1, <2>2, <2>3, <2>4
<1> QED
  BY <1>1 DEF UnreadItems, Wrap

\* The program implements the bounded FIFO queue, for a buffer of any size:
\* items are consumed in the order produced, none twice and none lost.
THEOREM Refinement == Spec => ImplementsQueue
<1>1. Init => Queue!Init
  <2> SUFFICES ASSUME Init PROVE Queue!Init
    OBVIOUS
  <2>1. Unread = 0 /\ itemC \in Items
    BY DEF Init, Unread
  <2>2. UnreadItems = << >>
    BY <2>1, InitIInv, UnreadItemsType
  <2> QED
    BY <2>1, <2>2 DEF Queue!Init
<1>2. IInv /\ [Next]_vars => [Queue!Next]_(Queue!vars)
  <2> SUFFICES ASSUME IInv, [Next]_vars
               PROVE  Queue!Next \/ UNCHANGED <<UnreadItems, itemC>>
    BY DEF Queue!vars
  <2>1. CASE ProducerWrite
    <3>1. itemP \in Items
      BY DEF IInv, TypeOK
    <3> QED
      BY <2>1, <3>1, WriteAppends DEF Queue!Next
  <2>2. CASE ConsumerRead
    BY <2>2, ReadTakesHead DEF Queue!Next
  <2> QED
    BY <2>1, <2>2, OthersStutter DEF Next, Producer, Consumer
<1> QED
  BY <1>1, <1>2, Invariance, PTL DEF Spec, ImplementsQueue, Queue!Spec
=============================================================================
