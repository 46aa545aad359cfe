---------------------------- MODULE AioBatchProofs ----------------------------
(* Proofs about aio_batch_io of 12_aio/libaio_demo.c, for every number of   *)
(* requests, every place of a failed call and every order of completions.   *)
EXTENDS AioBatch, TLAPS

\* What is allocated and open at each point of the routine, and where a
\* request may be in flight.
Ownership ==
    /\ pc \in {"setup", "open"} => i = 0 /\ buffers = {}
    /\ pc = "setup" => opened = {}
    /\ pc \in {"open", "destroy"} => opened = {"ctx"}
    /\ pc \in {"alloc", "submit", "wait", "free", "close"} => opened = {"ctx", "fd"}
    /\ pc = "alloc" => i < AIO_EVENTS /\ buffers = 0 .. i - 1
    /\ pc \in {"submit", "wait"} => buffers = Requests
    /\ pc = "free" => i <= limit
    /\ pc \in {"close", "destroy", "returned"} => buffers = {}
    /\ pc \in {"setup", "open", "alloc", "submit"} => inflight = {} /\ finished = {}
    /\ pc = "returned" => opened = {}

IInv ==
    /\ TypeOK
    /\ Ownership
    /\ FreesWhatIsAllocated
    /\ NothingInFlightAfterReturn

\* The invariant holds when aio_batch_io is called.
LEMMA InitIInv == Init => IInv
  BY AioEventsAssumption
     DEF Init, IInv, TypeOK, Ownership, FreesWhatIsAllocated,
         NothingInFlightAfterReturn, Requests

\* Every step of the routine, of the device and a signal preserve it.
LEMMA NextIInv == IInv /\ [Next]_vars => IInv'
<1> SUFFICES ASSUME IInv, [Next]_vars PROVE IInv'
  OBVIOUS
<1> USE AioEventsAssumption
    DEF IInv, TypeOK, Ownership, FreesWhatIsAllocated,
        NothingInFlightAfterReturn, Requests, vars, device
<1>1. CASE IoSetup BY <1>1 DEF IoSetup
<1>2. CASE OpenFile BY <1>2 DEF OpenFile
<1>3. CASE Allocate
  <2>1. CASE FreeFirst(i, 1) /\ UNCHANGED buffers
    BY <1>3, <2>1 DEF Allocate, FreeFirst
  <2>2. CASE buffers' = buffers \cup {i} /\ i + 1 = AIO_EVENTS
    BY <1>3, <2>2 DEF Allocate, FreeFirst
  <2>3. CASE buffers' = buffers \cup {i} /\ i + 1 # AIO_EVENTS
    BY <1>3, <2>3 DEF Allocate, FreeFirst
  <2> QED BY <1>3, <2>1, <2>2, <2>3 DEF Allocate
<1>4. CASE IoSubmit
  <2>1. CASE FreeFirst(AIO_EVENTS, 1) /\ UNCHANGED inflight
    BY <1>4, <2>1 DEF IoSubmit, FreeFirst
  <2>2. ASSUME NEW n \in 1 .. AIO_EVENTS, inflight' = 0 .. n - 1, pc' = "wait",
               UNCHANGED <<ret, i, limit>>
        PROVE  IInv'
    BY <1>4, <2>2 DEF IoSubmit
  <2> QED BY <1>4, <2>1, <2>2 DEF IoSubmit
<1>5. CASE IoGetevents BY <1>5 DEF IoGetevents, FreeFirst
<1>6. CASE Interrupted BY <1>6 DEF Interrupted, FreeFirst
<1>7. CASE FreeBuffer BY <1>7 DEF FreeBuffer
<1>8. CASE FreeDone BY <1>8 DEF FreeDone
<1>9. CASE CloseFile BY <1>9 DEF CloseFile
<1>10. CASE IoDestroy BY <1>10 DEF IoDestroy
<1>11. ASSUME NEW r \in Requests, Complete(r) PROVE IInv'
  BY <1>11 DEF Complete
<1>12. CASE UNCHANGED vars BY <1>12
<1> QED
  BY <1>1, <1>2, <1>3, <1>4, <1>5, <1>6, <1>7, <1>8, <1>9, <1>10, <1>11, <1>12
     DEF Next, Routine, Device

\* The invariant holds throughout every execution of aio_batch_io.
THEOREM Invariance == Spec => []IInv
  BY InitIInv, NextIInv, PTL DEF Spec

\* aio_batch_io leaks neither a buffer nor the file nor the context, whichever
\* of its calls fails and however many requests there are.
THEOREM NothingLeaks == Spec => []NoLeak
<1>1. IInv => NoLeak BY DEF IInv, Ownership, NoLeak
<1> QED BY <1>1, Invariance, PTL

\* The clean-up loop frees exactly the allocated buffers, each once, also when
\* the allocation of some buffer failed.
THEOREM FreesExactly == Spec => []FreesWhatIsAllocated
<1>1. IInv => FreesWhatIsAllocated BY DEF IInv
<1> QED BY <1>1, Invariance, PTL

\* The device has no request of aio_batch_io left once it has returned.
THEOREM QuietAfterReturn == Spec => []NothingInFlightAfterReturn
<1>1. IInv => NothingInFlightAfterReturn BY DEF IInv
<1> QED BY <1>1, Invariance, PTL
=============================================================================
