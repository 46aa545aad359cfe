----------------------------- MODULE TickTimers -----------------------------
(* What the time wheel of 09_epoll/time_wheel.c promises, without the wheel: *)
(* every timer has a tick at which it fires, and each tick fires exactly the *)
(* timers of that tick, one after the other.  A callback may add timers and  *)
(* remove other timers.                                                      *)
EXTENDS WheelParameters

CONSTANT
    Ticks      \* the distances, in ticks, that timers are added with

VARIABLES
    count,    \* how many ticks have completed
    due,      \* for every timer in the wheel, the tick that fires it
    ticking,  \* whether tick() is executing
    running   \* the timer whose callback is running, or NULL

vars == <<count, due, ticking, running>>

Pending == DOMAIN due

Init ==
    /\ count = 0
    /\ due = [t \in {} |-> 0]
    /\ ticking = FALSE
    /\ running = NULL

\* A timer added between ticks fires after k more ticks, at the tick that
\* looks at its slot.  A callback runs while its own slot is being walked, so
\* a timer that a callback adds to that very slot waits a revolution longer.
DueTick(k) == count + k + (IF ticking /\ k % N = 0 THEN N ELSE 0)

Add(t, k) ==
    /\ ~ticking \/ running # NULL
    /\ t \notin Pending
    /\ due' = [u \in Pending \cup {t} |-> IF u = t THEN DueTick(k) ELSE due[u]]
    /\ UNCHANGED <<count, ticking, running>>

Remove(t) ==
    /\ ~ticking \/ running # NULL
    /\ t \in Pending
    /\ t # running
    /\ due' = [u \in Pending \ {t} |-> due[u]]
    /\ UNCHANGED <<count, ticking, running>>

BeginTick ==
    /\ ~ticking
    /\ count < MaxTicks
    /\ ticking' = TRUE
    /\ UNCHANGED <<count, due, running>>

Fire(t) ==
    /\ ticking
    /\ running = NULL
    /\ t \in Pending
    /\ due[t] = count
    /\ running' = t
    /\ UNCHANGED <<count, due, ticking>>

Finish ==
    /\ running # NULL
    /\ due' = [u \in Pending \ {running} |-> due[u]]
    /\ running' = NULL
    /\ UNCHANGED <<count, ticking>>

\* A tick ends when it has fired all timers that are due at it.
EndTick ==
    /\ ticking
    /\ running = NULL
    /\ \A t \in Pending : due[t] # count
    /\ count' = count + 1
    /\ ticking' = FALSE
    /\ UNCHANGED <<due, running>>

Clear ==
    /\ ~ticking
    /\ due' = [t \in {} |-> 0]
    /\ UNCHANGED <<count, ticking, running>>

Next ==
    \/ BeginTick \/ Finish \/ EndTick \/ Clear
    \/ \E t \in Timers :
         \/ \E k \in Ticks \cap Nat : Add(t, k)
         \/ Remove(t) \/ Fire(t)

Spec == Init /\ [][Next]_vars

-----------------------------------------------------------------------------
(* Properties. *)

\* The state keeps its types.
TypeOK ==
    /\ count \in Nat
    /\ Pending \subseteq Timers
    /\ due \in [Pending -> Nat]
    /\ ticking \in BOOLEAN
    /\ running \in Timers \cup {NULL}

\* No timer is ever overdue: whatever is added or removed, also by callbacks,
\* nothing in the wheel should have fired at an earlier tick.
NoneOverdue ==
    /\ \A t \in Pending : due[t] >= count
    /\ running # NULL => running \in Pending /\ due[running] = count
=============================================================================
