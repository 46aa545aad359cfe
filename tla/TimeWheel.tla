------------------------------ MODULE TimeWheel ------------------------------
(* The timing wheel of 09_epoll/time_wheel.c: N slots, each a doubly linked *)
(* list of timers.  add_timer, del_timer and the destructor are single      *)
(* actions; tick() is split at every list node and at the call of cb_func,  *)
(* which may call add_timer and del_timer on the same wheel.                *)
EXTENDS WheelParameters, FiniteSets

CONSTANTS
    Timeouts,  \* arguments of add_timer
    TI         \* time between two ticks

ASSUME TimeWheelAssumption ==
    /\ Timeouts \subseteq Int
    /\ TI \in Nat \ {0}

VARIABLES
    slots,      \* head of the list of every slot
    cur_slot,
    alive,      \* the allocated tw_timer objects
    rotation, time_slot, next, prev,  \* fields of every tw_timer
    pc,         \* "idle", "walk" (loop of tick()), "callback", "destroyed"
    tmp,        \* local variable tmp of tick()
    count,      \* how many ticks have completed (history)
    asked,      \* the tick that the caller of add_timer asked for (history)
    due         \* the tick at which the timer is to fire (history)

fields == <<rotation, time_slot, next, prev>>
vars == <<slots, cur_slot, alive, fields, pc, tmp, count, asked, due>>

Slots == 0 .. N - 1

Init ==
    /\ slots = [s \in Slots |-> NULL]
    /\ cur_slot = 0
    /\ alive = {}
    /\ rotation = [t \in Timers |-> 0]
    /\ time_slot = [t \in Timers |-> 0]
    /\ next = [t \in Timers |-> NULL]
    /\ prev = [t \in Timers |-> NULL]
    /\ pc = "idle"
    /\ tmp = NULL
    /\ count = 0
    /\ asked = [t \in Timers |-> 0]
    /\ due = [t \in Timers |-> 0]

ClientRuns == pc \in {"idle", "callback"}

\* Number of slots relative to the current position; a timeout shorter than
\* the interval counts as one.
TicksOf(timeout) == IF timeout < TI THEN 1 ELSE timeout \div TI

SlotOf(ticks) == (cur_slot + (ticks % N)) % N

\* Fault: rounds the number of revolutions up.
RotationOfFault(ticks) == (ticks + N - 1) \div N

RotationOf(ticks) == ticks \div N

\* add_timer(timeout) with cb_func set; a negative timeout changes nothing.
\* The timer becomes the head of its slot.
add_timer(t, timeout) ==
    LET ticks == TicksOf(timeout)
        ts    == SlotOf(ticks)
        head  == slots[ts]
    IN  /\ ClientRuns
        /\ timeout >= 0
        /\ t \notin alive
        /\ alive' = alive \cup {t}
        /\ rotation' = [rotation EXCEPT ![t] = RotationOf(ticks)]
        /\ time_slot' = [time_slot EXCEPT ![t] = ts]
        /\ next' = [next EXCEPT ![t] = head]
        /\ prev' = [u \in Timers |->
                      IF u = t THEN NULL ELSE IF u = head THEN t ELSE prev[u]]
        /\ slots' = [slots EXCEPT ![ts] = t]
        /\ asked' = [asked EXCEPT ![t] = count + ticks]
        /\ due' = [due EXCEPT ![t] = count + ticks
                     + (IF pc = "callback" /\ ticks % N = 0 THEN N ELSE 0)]
        /\ UNCHANGED <<cur_slot, pc, tmp, count>>

\* Fault: the prev pointer of the successor is not updated.
UnlinkFault(t) ==
    LET s == time_slot[t]
    IN  IF t = slots[s]
        THEN /\ slots' = [slots EXCEPT ![s] = next[t]]
             /\ prev' = [prev EXCEPT ![t] = NULL]
             /\ next' = [next EXCEPT ![t] = NULL]
        ELSE /\ next' = [next EXCEPT ![prev[t]] = next[t], ![t] = NULL]
             /\ prev' = [prev EXCEPT ![t] = NULL]
             /\ UNCHANGED slots

\* Take t out of the list of its slot, as both del_timer and tick() do: the
\* head of a slot is replaced by its successor, any other timer is bypassed.
Unlink(t) ==
    LET s == time_slot[t]
        n == next[t]
    IN  IF t = slots[s]
        THEN /\ slots' = [slots EXCEPT ![s] = n]
             /\ prev' = [u \in Timers |-> IF u \in {t, n} THEN NULL ELSE prev[u]]
             /\ next' = [next EXCEPT ![t] = NULL]
        ELSE /\ next' = [next EXCEPT ![prev[t]] = n, ![t] = NULL]
             /\ prev' = [u \in Timers |-> IF u = t THEN NULL
                                          ELSE IF u = n THEN prev[t] ELSE prev[u]]
             /\ UNCHANGED slots

\* delete t: the object may be allocated again.
Free(t) ==
    /\ alive' = alive \ {t}
    /\ rotation' = [rotation EXCEPT ![t] = 0]
    /\ time_slot' = [time_slot EXCEPT ![t] = 0]
    /\ asked' = [asked EXCEPT ![t] = 0]
    /\ due' = [due EXCEPT ![t] = 0]

\* del_timer(t), t being a timer that the wheel still holds.  A callback does
\* not delete its own timer: tick() does that when the callback returns.
del_timer(t) ==
    /\ ClientRuns
    /\ t \in alive
    /\ pc = "callback" => t # tmp
    /\ Unlink(t)
    /\ Free(t)
    /\ UNCHANGED <<cur_slot, pc, tmp, count>>

\* tick() starts at the head of the current slot.
TickBegin ==
    /\ pc = "idle"
    /\ count < MaxTicks
    /\ tmp' = slots[cur_slot]
    /\ pc' = "walk"
    /\ UNCHANGED <<slots, cur_slot, alive, fields, count, asked, due>>

\* A timer with revolutions left loses one and stays.
TickDecrement ==
    /\ pc = "walk"
    /\ tmp # NULL
    /\ rotation[tmp] > 0
    /\ rotation' = [rotation EXCEPT ![tmp] = @ - 1]
    /\ tmp' = next[tmp]
    /\ UNCHANGED <<slots, cur_slot, alive, time_slot, next, prev, pc, count, asked, due>>

\* Any other timer is called: client code runs next.
TickCall ==
    /\ pc = "walk"
    /\ tmp # NULL
    /\ rotation[tmp] = 0
    /\ pc' = "callback"
    /\ UNCHANGED <<slots, cur_slot, alive, fields, tmp, count, asked, due>>

\* Fault: the walk starts again at the head after a removal.
CallbackReturnFault ==
    /\ pc = "callback"
    /\ Unlink(tmp)
    /\ Free(tmp)
    /\ tmp' = slots'[cur_slot]
    /\ pc' = "walk"
    /\ UNCHANGED <<cur_slot, count>>

\* Fault: the walk goes on from the timer that was just deleted.
CallbackReturnStale ==
    /\ pc = "callback"
    /\ Unlink(tmp)
    /\ Free(tmp)
    /\ pc' = "walk"
    /\ UNCHANGED <<cur_slot, tmp, count>>

\* The callback returns; its timer is unlinked and deleted, and the walk goes
\* on with the timer that is its successor by now.
CallbackReturn ==
    /\ pc = "callback"
    /\ Unlink(tmp)
    /\ Free(tmp)
    /\ tmp' = next[tmp]
    /\ pc' = "walk"
    /\ UNCHANGED <<cur_slot, count>>

TickEnd ==
    /\ pc = "walk"
    /\ tmp = NULL
    /\ cur_slot' = (cur_slot + 1) % N
    /\ count' = count + 1
    /\ pc' = "idle"
    /\ UNCHANGED <<slots, alive, fields, tmp, asked, due>>

\* The timers that the destructor meets in slot s.
ListOf(s) ==
    LET nth[k \in 0 .. Cardinality(Timers)] ==
            IF k = 0 THEN slots[s]
            ELSE IF nth[k - 1] = NULL THEN NULL ELSE next[nth[k - 1]]
    IN  {nth[k] : k \in DOMAIN nth} \ {NULL}

\* ~time_wheel() deletes the list of every slot.
Destroy ==
    /\ pc = "idle"
    /\ pc' = "destroyed"
    /\ alive' = alive \ UNION {ListOf(s) : s \in Slots}
    /\ slots' = [s \in Slots |-> NULL]
    /\ UNCHANGED <<cur_slot, fields, tmp, count, asked, due>>

Next ==
    \/ TickBegin \/ TickDecrement \/ TickCall \/ CallbackReturn \/ TickEnd
    \/ Destroy
    \/ \E t \in Timers :
         \/ \E timeout \in Timeouts : add_timer(t, timeout)
         \/ del_timer(t)

Spec == Init /\ [][Next]_vars

\* tick() runs to its end once called, and callbacks return.
FairSpec ==
    /\ Spec
    /\ WF_vars(TickDecrement \/ TickCall \/ TickEnd)
    /\ WF_vars(CallbackReturn)

-----------------------------------------------------------------------------
(* Properties. *)

\* The lists of the slots hold exactly the allocated timers, each in the list
\* of its own slot, and prev is the inverse of next: no operation, also none
\* from inside a callback, leaves a dangling, lost or shared node.  So the
\* destructor, which walks the lists, frees every timer.
ListsWellFormed ==
    IF pc = "destroyed" THEN alive = {} ELSE
    /\ \A s \in Slots : ListOf(s) = {t \in alive : time_slot[t] = s}
    /\ \A t \in alive :
         /\ prev[t] = NULL <=> slots[time_slot[t]] = t
         /\ next[t] # NULL => prev[next[t]] = t
         /\ prev[t] # NULL => next[prev[t]] = t

\* The pointer that tick() keeps across a callback is never stale: it is NULL
\* or an allocated timer in the list of the current slot.
WalkNotStale ==
    pc \in {"walk", "callback"} /\ tmp # NULL =>
        tmp \in alive /\ time_slot[tmp] = cur_slot

\* Every timer fires exactly at its tick, or is deleted before: the slot and
\* the revolution counter always encode the tick at which it is due.
Timers_ == INSTANCE TickTimers WITH
    Ticks <- {TicksOf(timeout) : timeout \in {x \in Timeouts : x >= 0}},
    due <- [t \in alive |-> due[t]],
    ticking <- pc \in {"walk", "callback"},
    running <- IF pc = "callback" THEN tmp ELSE NULL

ImplementsTickTimers == Timers_!Spec

\* No timer in the wheel is overdue, whatever callbacks add to and delete from
\* the slot that is being walked.
NoneOverdue == Timers_!NoneOverdue

\* A tick returns although its callbacks may keep adding timers: what they
\* add to the current slot is put in front of the walk.
TickReturns == pc = "walk" ~> pc = "idle"

\* What the comments on rotation and ts say: a timer added with a distance of
\* some ticks takes effect after exactly its rotations and slots, also when
\* the callback of another timer adds it.
TakesEffectOnTime == pc = "callback" => count = asked[tmp]
=============================================================================
