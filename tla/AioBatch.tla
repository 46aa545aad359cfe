------------------------------- MODULE AioBatch -------------------------------
(* aio_batch_io of 12_aio/libaio_demo.c: AIO_EVENTS write requests, each     *)
(* with a buffer of its own, are submitted in one call and awaited in one    *)
(* call.  The device completes requests in any order, io_submit may accept   *)
(* only some of them, and a signal may end io_getevents early.               *)
EXTENDS Naturals, FiniteSets

CONSTANT AIO_EVENTS

ASSUME AioEventsAssumption == AIO_EVENTS \in Nat \ {0}

VARIABLES
    pc,        \* "setup", "open", "alloc", "submit", "wait", "free", "close",
               \* "destroy", "returned"
    ret,       \* what the routine is going to return: 0 or 1 (for -1)
    i,         \* loop index of the allocations and of the frees
    limit,     \* how many buffers the free loop at hand releases
    opened,    \* which of "ctx", "fd" are open
    buffers,   \* indices of the allocated buffers
    inflight,  \* requests the device works on
    finished   \* requests completed and not yet collected

vars == <<pc, ret, i, limit, opened, buffers, inflight, finished>>
device == <<inflight, finished>>

Requests == 0 .. AIO_EVENTS - 1

Init ==
    /\ pc = "setup"
    /\ ret = 0
    /\ i = 0
    /\ limit = 0
    /\ opened = {}
    /\ buffers = {}
    /\ inflight = {}
    /\ finished = {}

-----------------------------------------------------------------------------
\* io_setup fails and the routine returns, or the context is there.
IoSetup ==
    /\ pc = "setup"
    /\ \/ pc' = "returned" /\ ret' = 1 /\ UNCHANGED opened
       \/ pc' = "open" /\ opened' = {"ctx"} /\ UNCHANGED ret
    /\ UNCHANGED <<i, limit, buffers, device>>

\* open fails, which destroys the context, or the file is open.
OpenFile ==
    /\ pc = "open"
    /\ \/ pc' = "destroy" /\ ret' = 1 /\ UNCHANGED opened
       \/ pc' = "alloc" /\ opened' = opened \cup {"fd"} /\ UNCHANGED ret
    /\ UNCHANGED <<i, limit, buffers, device>>

\* The error branches and the end all start to release at the first buffer.
FreeFirst(n, code) ==
    /\ pc' = "free"
    /\ limit' = n
    /\ i' = 0
    /\ ret' = code

\* Fault: the clean-up loop also frees the buffer that was not allocated.
AllocateFault ==
    /\ pc = "alloc"
    /\ \/ /\ FreeFirst(i + 1, 1)
          /\ UNCHANGED buffers
       \/ /\ buffers' = buffers \cup {i}
          /\ i' = i + 1
          /\ pc' = IF i + 1 = AIO_EVENTS THEN "submit" ELSE "alloc"
          /\ UNCHANGED <<limit, ret>>
    /\ UNCHANGED <<opened, device>>

\* posix_memalign for request i; when it fails the buffers before i are freed.
Allocate ==
    /\ pc = "alloc"
    /\ \/ /\ FreeFirst(i, 1)
          /\ UNCHANGED buffers
       \/ /\ buffers' = buffers \cup {i}
          /\ i' = i + 1
          /\ pc' = IF i + 1 = AIO_EVENTS THEN "submit" ELSE "alloc"
          /\ UNCHANGED <<limit, ret>>
    /\ UNCHANGED <<opened, device>>

\* io_submit fails, or accepts the first n requests; only a negative result
\* is an error.
IoSubmit ==
    /\ pc = "submit"
    /\ \/ FreeFirst(AIO_EVENTS, 1) /\ UNCHANGED inflight
       \/ \E n \in 1 .. AIO_EVENTS :
            /\ inflight' = 0 .. n - 1
            /\ pc' = "wait"
            /\ UNCHANGED <<ret, i, limit>>
    /\ UNCHANGED <<opened, buffers, finished>>

\* The device completes a request.
Complete(r) ==
    /\ r \in inflight
    /\ inflight' = inflight \ {r}
    /\ finished' = finished \cup {r}
    /\ UNCHANGED <<pc, ret, i, limit, opened, buffers>>

\* Fault: the wait asks for one event more than was submitted.
IoGeteventsFault ==
    /\ pc = "wait"
    /\ Cardinality(finished) = AIO_EVENTS + 1
    /\ finished' = {}
    /\ FreeFirst(AIO_EVENTS, 0)
    /\ UNCHANGED <<opened, buffers, inflight>>

\* io_getevents(ctx, AIO_EVENTS, AIO_EVENTS, ..) blocks until it has them all.
IoGetevents ==
    /\ pc = "wait"
    /\ Cardinality(finished) = AIO_EVENTS
    /\ finished' = {}
    /\ FreeFirst(AIO_EVENTS, 0)
    /\ UNCHANGED <<opened, buffers, inflight>>

\* A signal ends the wait: with what there is, or with an error if there is
\* nothing.
Interrupted ==
    /\ pc = "wait"
    /\ Cardinality(finished) < AIO_EVENTS
    /\ finished' = {}
    /\ FreeFirst(AIO_EVENTS, IF finished = {} THEN 1 ELSE 0)
    /\ UNCHANGED <<opened, buffers, inflight>>

\* free(aligned_buffers[i]) for every i below the limit.
FreeBuffer ==
    /\ pc = "free"
    /\ i < limit
    /\ buffers' = buffers \ {i}
    /\ i' = i + 1
    /\ UNCHANGED <<pc, ret, limit, opened, device>>

FreeDone ==
    /\ pc = "free"
    /\ i = limit
    /\ pc' = "close"
    /\ UNCHANGED <<ret, i, limit, opened, buffers, device>>

\* Fault: the context is not destroyed.
CloseFileFault ==
    /\ pc = "close"
    /\ opened' = opened \ {"fd"}
    /\ pc' = "returned"
    /\ UNCHANGED <<ret, i, limit, buffers, device>>

CloseFile ==
    /\ pc = "close"
    /\ opened' = opened \ {"fd"}
    /\ pc' = "destroy"
    /\ UNCHANGED <<ret, i, limit, buffers, device>>

\* io_destroy waits for the requests in flight.
IoDestroy ==
    /\ pc = "destroy"
    /\ inflight = {}
    /\ opened' = opened \ {"ctx"}
    /\ finished' = {}
    /\ pc' = "returned"
    /\ UNCHANGED <<ret, i, limit, buffers, inflight>>

Routine ==
    \/ IoSetup \/ OpenFile \/ Allocate \/ IoSubmit \/ IoGetevents
    \/ FreeBuffer \/ FreeDone \/ CloseFile \/ IoDestroy

Device == \E r \in Requests : Complete(r)

Next == Routine \/ Device \/ Interrupted

Spec == Init /\ [][Next]_vars

\* The process runs whenever it is not blocked and the device completes every
\* request; signals need not come.
FairSpec == Spec /\ WF_vars(Routine) /\ WF_vars(Device)

-----------------------------------------------------------------------------
(* Properties. *)

\* The state keeps its types.
TypeOK ==
    /\ pc \in {"setup", "open", "alloc", "submit", "wait", "free", "close",
               "destroy", "returned"}
    /\ ret \in {0, 1}
    /\ i \in 0 .. AIO_EVENTS
    /\ limit \in 0 .. AIO_EVENTS
    /\ opened \subseteq {"ctx", "fd"}
    /\ buffers \subseteq Requests
    /\ inflight \subseteq Requests
    /\ finished \subseteq Requests \ inflight

\* Whichever allocation or call fails, aio_batch_io returns with no buffer
\* allocated, the file closed and the context destroyed.
NoLeak == pc = "returned" => buffers = {} /\ opened = {}

\* The clean-up loops free exactly the buffers that are allocated, each once:
\* the allocation that failed is not freed and none before it is forgotten.
FreesWhatIsAllocated == pc = "free" => buffers = i .. limit - 1

\* Once aio_batch_io has returned, no request of it is in flight: the device
\* cannot write its file or read its memory any more.
NothingInFlightAfterReturn == pc = "returned" => inflight = {}

\* What the comment on io_getevents says: it waits until all the requests are
\* complete, so that the buffers freed next are no longer in use.
WaitsForAllRequests == pc = "free" => inflight = {}

\* When io_submit accepted all the requests, aio_batch_io returns, in whatever
\* order the device completes them and whether or not signals come.  (When it
\* accepted fewer, io_getevents waits for events that never come.)
FullBatchReturns ==
    pc = "wait" /\ inflight \cup finished = Requests ~> pc = "returned"
=============================================================================
