----------------------------- MODULE TimerQueue -----------------------------
(* What the min-heap timer container of 09_epoll/time_heap.c promises,      *)
(* without the heap: timers fire one at a time, earliest expiry first, never*)
(* early, never after a cancellation, and each at most once.  A callback may*)
(* add and cancel timers while it runs.                                     *)
EXTENDS HeapParameters

VARIABLES
    now,      \* what time(NULL) returns
    due,      \* the expiry of every timer in the container
    armed,    \* the timers in it that are not cancelled
    running,  \* the timer whose callback is running, or NULL
    cutoff,   \* the time the current or the last tick() read
    ticking,  \* whether tick() is executing
    lastDue   \* the expiry of the timer that fired last (history)

vars == <<now, due, armed, running, cutoff, ticking, lastDue>>

Pending == DOMAIN due

Earliest(t) == t \in Pending /\ \A u \in Pending : due[t] <= due[u]

Without(t) == [u \in Pending \ {t} |-> due[u]]

\* The container starts with timers created at time 0.
Init ==
    /\ now = 0
    /\ \E S \in SUBSET Timers : due \in [S -> Delays]
    /\ armed = Pending
    /\ running = NULL
    /\ cutoff = 0
    /\ ticking = FALSE
    /\ lastDue = 0

Clock ==
    /\ now < MaxTime
    /\ now' = now + 1
    /\ UNCHANGED <<due, armed, running, cutoff, ticking, lastDue>>

\* Clients act between ticks or from a callback.
ClientRuns == ~ticking \/ running # NULL

Add(t, delay) ==
    /\ ClientRuns
    /\ t \notin Pending
    /\ due' = [u \in Pending \cup {t} |-> IF u = t THEN now + delay ELSE due[u]]
    /\ armed' = armed \cup {t}
    /\ UNCHANGED <<now, running, cutoff, ticking, lastDue>>

Cancel(t) ==
    /\ ClientRuns
    /\ t \in Pending
    /\ armed' = armed \ {t}
    /\ UNCHANGED <<now, due, running, cutoff, ticking, lastDue>>

\* The owner drops the earliest timer without running it.
Drop(t) ==
    /\ ~ticking
    /\ Earliest(t)
    /\ due' = Without(t)
    /\ armed' = armed \ {t}
    /\ UNCHANGED <<now, running, cutoff, ticking, lastDue>>

BeginTick ==
    /\ ~ticking
    /\ ticking' = TRUE
    /\ cutoff' = now
    /\ UNCHANGED <<now, due, armed, running, lastDue>>

Fire(t) ==
    /\ ticking
    /\ running = NULL
    /\ Earliest(t)
    /\ due[t] <= cutoff
    /\ t \in armed
    /\ running' = t
    /\ lastDue' = due[t]
    /\ UNCHANGED <<now, due, armed, cutoff, ticking>>

\* The callback returns and its timer is gone.
Finish ==
    /\ running # NULL
    /\ due' = Without(running)
    /\ armed' = armed \ {running}
    /\ running' = NULL
    /\ UNCHANGED <<now, cutoff, ticking, lastDue>>

\* An expired timer that was cancelled is removed silently.
Discard(t) ==
    /\ ticking
    /\ running = NULL
    /\ Earliest(t)
    /\ due[t] <= cutoff
    /\ t \notin armed
    /\ due' = Without(t)
    /\ UNCHANGED <<now, armed, running, cutoff, ticking, lastDue>>

\* A tick ends only when nothing that it should run is left.
EndTick ==
    /\ ticking
    /\ running = NULL
    /\ \A t \in Pending : due[t] > cutoff
    /\ ticking' = FALSE
    /\ UNCHANGED <<now, due, armed, running, cutoff, lastDue>>

\* The container is destroyed with all its timers.
Clear ==
    /\ ~ticking
    /\ due' = [u \in {} |-> 0]
    /\ armed' = {}
    /\ UNCHANGED <<now, running, cutoff, ticking, lastDue>>

Next ==
    \/ Clock \/ BeginTick \/ Finish \/ EndTick \/ Clear
    \/ \E t \in Timers :
         \/ \E delay \in Delays : Add(t, delay)
         \/ Cancel(t) \/ Drop(t) \/ Fire(t) \/ Discard(t)

Spec == Init /\ [][Next]_vars

-----------------------------------------------------------------------------
(* Properties. *)

\* The state keeps its types.
TypeOK ==
    /\ now \in Nat
    /\ Pending \subseteq Timers
    /\ due \in [Pending -> Nat]
    /\ armed \subseteq Pending
    /\ running \in Timers \cup {NULL}
    /\ cutoff \in Nat
    /\ ticking \in BOOLEAN
    /\ lastDue \in Nat

\* While a callback runs, its timer is still in the container and is the
\* earliest in it, whatever the callback added: the removal that follows the
\* callback removes the timer that fired and no other.
RunningIsEarliest == running # NULL => ticking /\ Earliest(running)

\* No timer that fired was due in the future, and no pending timer is due
\* before one that already fired.
FiredInOrder == lastDue <= now /\ \A t \in Pending : lastDue <= due[t]

\* Across all ticks, timers fire in the order of their expiry times.
FireOrder == [][lastDue' >= lastDue]_vars
=============================================================================
