------------------------------ MODULE TimeHeap ------------------------------
(* The min-heap timer container of 09_epoll/time_heap.c.  add_timer,        *)
(* del_timer, pop_timer and the destructor are single actions; tick() is    *)
(* split where control leaves the class: at the call of a timer's cb_func,  *)
(* which may call add_timer and del_timer on the same container.            *)
EXTENDS HeapParameters

CONSTANT
    Capacities   \* the initial capacities

ASSUME CapacitiesAssumption == Capacities \subseteq Nat \ {0}

VARIABLES
    now,       \* what time(NULL) returns
    alive,     \* the heap_timer objects that are allocated
    expire,    \* field expire of every timer (garbage outside alive)
    cb_func,   \* whether field cb_func is not NULL
    array,     \* heap_timer** array, indexed from 0
    capacity,
    cur_size,
    pc,        \* "idle", "tick" (loop of tick()), "callback", "destroyed"
    tmp,       \* local variable tmp of tick()
    cur,       \* local variable cur of tick()
    fired,     \* the timer whose cb_func was called last (history)
    lastDue    \* its expire (history)

heap == <<array, capacity, cur_size>>
objects == <<alive, expire, cb_func>>
history == <<fired, lastDue>>
vars == <<now, heap, objects, pc, tmp, cur, history>>

-----------------------------------------------------------------------------
(* The heap algorithms, as functions of the array. *)

\* n rounds of a loop, its body given as a function of what it changes.
Repeat(body, x, n) ==
    LET round[k \in 0 .. n] == IF k = 0 THEN x ELSE body[round[k - 1]]
    IN  round[n]

\* What the loops change: the array and the hole, the place to be filled.
Loops(a) == [arr : [DOMAIN a -> Timers \cup {NULL}], hole : Int]
Loop(a, hole) == [arr |-> a, hole |-> hole]

parent(i) == (i - 1) \div 2

\* Entry i moves into the hole, and leaves a hole behind.
MoveFrom(s, i) == Loop([s.arr EXCEPT ![s.hole] = s.arr[i]], i)

\* Fault: a new timer overtakes timers with the same expire.
SiftUpBodyFault(a, timer, exp) ==
    [s \in Loops(a) |->
        IF s.hole = 0 \/ exp[s.arr[parent(s.hole)]] < exp[timer] THEN s
        ELSE MoveFrom(s, parent(s.hole))]

\* The loop of add_timer: parents later than the new timer move down.  A round
\* that finds nothing to move stands for the break, and for all rounds after it.
SiftUpBody(a, timer, exp) ==
    [s \in Loops(a) |->
        IF s.hole = 0 \/ exp[s.arr[parent(s.hole)]] <= exp[timer] THEN s
        ELSE MoveFrom(s, parent(s.hole))]

SiftUp(a, hole, timer, exp) ==
    LET end == Repeat(SiftUpBody(a, timer, exp), Loop(a, hole), hole)
    IN  [end.arr EXCEPT ![end.hole] = timer]

\* The child of a place that expires first, among the first n entries.
EarlierChild(a, n, hole, exp) ==
    LET left == 2 * hole + 1
    IN  IF left + 1 < n /\ exp[a[left + 1]] < exp[a[left]] THEN left + 1 ELSE left

\* The loop of percolate_down: the earlier child moves up while it is earlier
\* than temp.
PercolateBody(a, n, temp, exp) ==
    [s \in Loops(a) |->
        LET child == EarlierChild(s.arr, n, s.hole, exp)
        IN  IF 2 * s.hole + 1 < n /\ exp[s.arr[child]] < exp[temp]
            THEN MoveFrom(s, child) ELSE s]

percolate_down(a, n, hole, exp) ==
    LET end == Repeat(PercolateBody(a, n, a[hole], exp), Loop(a, hole), n)
    IN  [end.arr EXCEPT ![end.hole] = a[hole]]

\* The loop of the second constructor: percolate_down from the last inner
\* node to the root.
Heapify(a, n, exp) ==
    LET body == [s \in Loops(a) |->
                    Loop(percolate_down(s.arr, n, s.hole, exp), s.hole - 1)]
        last == (n - 1) \div 2
    IN  Repeat(body, Loop(a, last), last + 1).arr

\* resize() doubles the array; the new half is NULL.
Resized(a, cap) == [i \in 0 .. 2 * cap - 1 |-> IF i < cap THEN a[i] ELSE NULL]

-----------------------------------------------------------------------------
(* The two constructors: an empty container, or a heap built from timers    *)
(* that the caller created in any order.                                    *)
ConstructEmpty ==
    /\ alive = {}
    /\ expire = [t \in Timers |-> 0]
    /\ array = [i \in 0 .. capacity - 1 |-> NULL]

ConstructFrom(size) ==
    /\ size <= capacity
    /\ \E init \in [0 .. size - 1 -> Timers] :
         /\ \A i, j \in 0 .. size - 1 : init[i] = init[j] => i = j
         /\ alive = {init[i] : i \in 0 .. size - 1}
         /\ expire \in [Timers -> Delays \cup {0}]
         /\ \A t \in Timers :
              IF t \in alive THEN expire[t] \in Delays ELSE expire[t] = 0
         /\ array = Heapify([i \in 0 .. capacity - 1 |->
                               IF i < size THEN init[i] ELSE NULL],
                            size, expire)

Init ==
    /\ now = 0
    /\ capacity \in Capacities
    /\ cur_size \in 0 .. Cardinality(Timers)
    /\ IF cur_size = 0 THEN ConstructEmpty ELSE ConstructFrom(cur_size)
    /\ cb_func = [t \in Timers |-> t \in alive]
    /\ pc = "idle"
    /\ tmp = NULL
    /\ cur = 0
    /\ fired = NULL
    /\ lastDue = 0

-----------------------------------------------------------------------------
\* time(NULL) advances; nothing in the class waits for it.
Clock ==
    /\ now < MaxTime
    /\ now' = now + 1
    /\ UNCHANGED <<heap, objects, pc, tmp, cur, history>>

\* Client code runs between ticks and inside callbacks.
ClientRuns == pc \in {"idle", "callback"}

NeedsResize == cur_size >= capacity

\* add_timer(new heap_timer(delay)) with cb_func set.
add_timer(t, delay) ==
    /\ ClientRuns
    /\ t \notin alive
    /\ alive' = alive \cup {t}
    /\ expire' = [expire EXCEPT ![t] = now + delay]
    /\ cb_func' = [cb_func EXCEPT ![t] = TRUE]
    /\ capacity' = IF NeedsResize THEN 2 * capacity ELSE capacity
    /\ LET room == IF NeedsResize THEN Resized(array, capacity) ELSE array
       IN  array' = SiftUp(room, cur_size, t, expire')
    /\ cur_size' = cur_size + 1
    /\ UNCHANGED <<now, pc, tmp, cur, history>>

\* del_timer only clears the callback; the object stays in the heap.
del_timer(t) ==
    /\ ClientRuns
    /\ t \in alive
    /\ cb_func' = [cb_func EXCEPT ![t] = FALSE]
    /\ UNCHANGED <<now, heap, alive, expire, pc, tmp, cur, history>>

\* Fault: the moved timer is not sifted down.
PopFault ==
    /\ alive' = alive \ {array[0]}
    /\ cur_size' = cur_size - 1
    /\ array' = [array EXCEPT ![0] = array[cur_size - 1]]
    /\ expire' = [expire EXCEPT ![array[0]] = 0]
    /\ cb_func' = [cb_func EXCEPT ![array[0]] = FALSE]
    /\ UNCHANGED capacity

\* The effect of pop_timer on a container that is not empty: delete array[0],
\* move the last timer to the root, sift it down.  The slot behind the last
\* timer keeps its old pointer.
Pop ==
    /\ alive' = alive \ {array[0]}
    /\ cur_size' = cur_size - 1
    /\ array' = percolate_down([array EXCEPT ![0] = array[cur_size - 1]],
                               cur_size - 1, 0, expire)
    /\ expire' = [expire EXCEPT ![array[0]] = 0]
    /\ cb_func' = [cb_func EXCEPT ![array[0]] = FALSE]
    /\ UNCHANGED capacity

\* pop_timer called by the owner of the container between ticks.
pop_timer ==
    /\ pc = "idle"
    /\ cur_size > 0
    /\ Pop
    /\ UNCHANGED <<now, pc, tmp, cur, history>>

\* tick(): tmp = array[0], cur = time(NULL).
TickBegin ==
    /\ pc = "idle"
    /\ tmp' = array[0]
    /\ cur' = now
    /\ pc' = "tick"
    /\ UNCHANGED <<now, heap, objects, history>>

\* Fault: a timer runs one second early.
ExpiredFault == cur_size > 0 /\ tmp # NULL /\ expire[tmp] <= cur + 1

\* The conditions under which the loop of tick() goes on.
Expired == cur_size > 0 /\ tmp # NULL /\ expire[tmp] <= cur

\* array[0]->cb_func(...) is called: client code runs next.
TickCall ==
    /\ pc = "tick"
    /\ Expired
    /\ cb_func[array[0]]
    /\ pc' = "callback"
    /\ fired' = array[0]
    /\ lastDue' = expire[array[0]]
    /\ UNCHANGED <<now, heap, objects, tmp, cur>>

\* Fault: a cancelled timer is skipped but not removed.
TickSkipFault ==
    /\ pc = "tick"
    /\ Expired
    /\ ~cb_func[array[0]]
    /\ tmp' = array[0]
    /\ UNCHANGED <<now, heap, objects, pc, cur, history>>

\* A timer without a callback is popped without a call.
TickSkip ==
    /\ pc = "tick"
    /\ Expired
    /\ ~cb_func[array[0]]
    /\ Pop
    /\ tmp' = array'[0]
    /\ UNCHANGED <<now, pc, cur, history>>

\* Fault: tmp is not reloaded after pop_timer.
CallbackReturnFault ==
    /\ pc = "callback"
    /\ Pop
    /\ pc' = "tick"
    /\ UNCHANGED <<now, tmp, cur, history>>

\* The callback returns; tick() goes on with pop_timer and reloads tmp.
CallbackReturn ==
    /\ pc = "callback"
    /\ Pop
    /\ tmp' = array'[0]
    /\ pc' = "tick"
    /\ UNCHANGED <<now, cur, history>>

TickEnd ==
    /\ pc = "tick"
    /\ ~Expired
    /\ pc' = "idle"
    /\ UNCHANGED <<now, heap, objects, tmp, cur, history>>

\* ~time_heap() deletes array[0 .. cur_size - 1] and the array.
Destroy ==
    /\ pc = "idle"
    /\ pc' = "destroyed"
    /\ alive' = alive \ {array[i] : i \in 0 .. cur_size - 1}
    /\ cur_size' = 0
    /\ UNCHANGED <<now, array, capacity, expire, cb_func, tmp, cur, history>>

Tick == TickBegin \/ TickCall \/ TickSkip \/ TickEnd

Next ==
    \/ Clock \/ pop_timer \/ Tick \/ CallbackReturn \/ Destroy
    \/ \E t \in Timers : del_timer(t) \/ \E delay \in Delays : add_timer(t, delay)

Spec == Init /\ [][Next]_vars

\* tick() runs to its end once called, and callbacks return.
FairSpec ==
    Spec /\ WF_vars(TickCall \/ TickSkip \/ TickEnd) /\ WF_vars(CallbackReturn)

-----------------------------------------------------------------------------
(* Properties. *)

InHeap == {array[i] : i \in 0 .. cur_size - 1}

\* The array is a min-heap on expire after every operation, resize, lazy
\* deletion and heapify included.
HeapOrder ==
    \A i \in 1 .. cur_size - 1 :
        expire[array[(i - 1) \div 2]] <= expire[array[i]]

\* The array never overflows, and no operation loses a timer, keeps it twice or
\* keeps it after delete: the first cur_size entries are exactly the allocated
\* timers.  So tick() never dereferences a freed timer and the destructor frees
\* each timer once.
HoldsAliveTimers ==
    /\ cur_size <= capacity /\ DOMAIN array = 0 .. capacity - 1
    /\ InHeap = alive
    /\ Cardinality(InHeap) = cur_size
    /\ pc = "tick" /\ cur_size > 0 => tmp = array[0]

\* The container implements the timer queue: earliest expiry first, never
\* early, at most once, never after del_timer, nothing expired left behind.
Queue == INSTANCE TimerQueue WITH
    due <- [t \in InHeap |-> expire[t]],
    armed <- {t \in InHeap : cb_func[t]},
    running <- IF pc = "callback" THEN fired ELSE NULL,
    cutoff <- cur,
    ticking <- pc \in {"tick", "callback"}

ImplementsTimerQueue == Queue!Spec

\* What a callback adds never displaces the timer that is firing: the
\* pop_timer after the callback deletes the timer whose callback just ran and
\* not one that is still waiting.
RunningIsEarliest ==
    Queue!RunningIsEarliest /\ (pc = "callback" => array[0] = fired)

\* No timer fires early, and none that is in the heap is due before one that
\* already fired, although lazily deleted timers stay in the array.
FiredInOrder == Queue!FiredInOrder

\* Across all ticks, pops and reused timers, expiries never decrease.
FireOrder == Queue!FireOrder

\* A call of tick() returns, provided its callbacks return and do not go on
\* for ever adding timers with delay 0, which are already expired.
TickReturns ==
    \/ []<><<pc = "callback" /\ \E t \in Timers : add_timer(t, 0)>>_vars
    \/ pc = "tick" ~> pc = "idle"
=============================================================================
