-------------------------- MODULE TimeWheelProofs ---------------------------
(* The time wheel implements the tick timers, for every number of slots and   *)
(* timers and every timeout.  The proof orders each list by a rank; tick()    *)
(* has passed the timers of a smaller rank than tmp, and whether a timer is   *)
(* passed decides how slot and rotation are read.                             *)
EXTENDS TimeWheel, FiniteSetTheorems, WellFoundedInduction, TLAPS

-----------------------------------------------------------------------------
(* The inductive invariant. *)

\* The state keeps its types.
TypeOK ==
    /\ slots \in [Slots -> Timers \cup {NULL}]
    /\ cur_slot \in Slots
    /\ alive \subseteq Timers
    /\ rotation \in [Timers -> Nat]
    /\ time_slot \in [Timers -> Slots]
    /\ next \in [Timers -> Timers \cup {NULL}]
    /\ prev \in [Timers -> Timers \cup {NULL}]
    /\ pc \in {"idle", "walk", "callback", "destroyed"}
    /\ tmp \in Timers \cup {NULL}
    /\ count \in Nat
    /\ due \in [Timers -> Nat]

\* Timers t and u are in the same list.
Same(t, u) == t \in alive /\ u \in alive /\ time_slot[t] = time_slot[u]

\* rank orders every list: the head of a slot is a timer of the slot, and comes
\* first; next and prev lead to the neighbours in this order.
Heads(rank) ==
    /\ \A s \in Slots : slots[s] # NULL => slots[s] \in alive /\ time_slot[slots[s]] = s
    /\ \A t \in alive : /\ slots[time_slot[t]] # NULL
                        /\ rank[slots[time_slot[t]]] <= rank[t]

Links(rank) ==
    \A t \in alive :
        /\ prev[t] = NULL <=> slots[time_slot[t]] = t
        /\ next[t] # NULL =>
             Same(t, next[t]) /\ prev[next[t]] = t /\ rank[t] < rank[next[t]]
        /\ prev[t] # NULL => Same(t, prev[t]) /\ next[prev[t]] = t

Order(rank) ==
    \A t, u \in Timers : Same(t, u) =>
        /\ rank[t] = rank[u] => t = u
        /\ rank[t] < rank[u] => next[t] # NULL /\ rank[next[t]] <= rank[u]

Ranked(rank) == rank \in [Timers -> Int] /\ Heads(rank) /\ Links(rank) /\ Order(rank)

\* Slots ahead of the current one.
Ahead(s) == IF s >= cur_slot THEN s - cur_slot ELSE s - cur_slot + N

InTick == pc \in {"walk", "callback"}

\* tick() has passed timer t of the current slot.
Passed(rank, t) ==
    InTick /\ time_slot[t] = cur_slot /\ (tmp = NULL \/ rank[t] < rank[tmp])

\* Slot and rotation encode the tick at which a timer is due.
Encodes(rank) ==
    \A t \in alive :
        due[t] = count + rotation[t] * N
                   + (IF Passed(rank, t) THEN N ELSE Ahead(time_slot[t]))

CallbackOf == pc = "callback" => tmp # NULL /\ rotation[tmp] = 0

WheelInv ==
    /\ TypeOK
    /\ WalkNotStale
    /\ CallbackOf
    /\ pc = "destroyed" => alive = {}
    /\ \E rank : Ranked(rank) /\ Encodes(rank)

-----------------------------------------------------------------------------
(* Arithmetic of slots. *)

\* add_timer puts a timer some ticks ahead.
LEMMA TicksOfNat ==
    ASSUME NEW timeout \in Timeouts, timeout >= 0 PROVE TicksOf(timeout) \in Nat
BY TimeWheelAssumption DEF TicksOf

\* Slot and rotation that add_timer computes say how many ticks ahead the timer is.
LEMMA SlotArithmetic ==
    ASSUME NEW k \in Nat, cur_slot \in Slots
    PROVE  /\ SlotOf(k) \in Slots
           /\ RotationOf(k) \in Nat
           /\ k = RotationOf(k) * N + Ahead(SlotOf(k))
           /\ SlotOf(k) = cur_slot <=> k % N = 0
<1> USE WheelAssumption
<1> DEFINE q == k \div N
           m == k % N
<1>1. q \in Nat /\ m \in 0 .. N - 1 /\ k = N * q + m
  OBVIOUS
<1> HIDE DEF q, m
<1>2. cur_slot \in 0 .. N - 1 BY DEF Slots
<1>3. (cur_slot + m) % N = IF cur_slot + m < N THEN cur_slot + m ELSE cur_slot + m - N
  BY <1>1, <1>2
<1>4. SlotOf(k) = (cur_slot + m) % N BY DEF SlotOf, m
<1>5. SlotOf(k) \in Slots /\ Ahead(SlotOf(k)) = m
  BY <1>1, <1>2, <1>3, <1>4 DEF Ahead, Slots
<1>6. RotationOf(k) = q BY DEF RotationOf, q
<1>7. k = q * N + m BY <1>1
<1>8. SlotOf(k) = cur_slot <=> m = 0
  BY <1>1, <1>2, <1>3, <1>4
<1> QED BY <1>1, <1>5, <1>6, <1>7, <1>8 DEF m

\* Slot arithmetic of the end of a tick.
LEMMA NextSlot ==
    ASSUME TypeOK, cur_slot' = (cur_slot + 1) % N
    PROVE  /\ cur_slot' \in Slots
           /\ \A s \in Slots : /\ s = cur_slot => Ahead(s)' = N - 1
                               /\ s # cur_slot => Ahead(s)' = Ahead(s) - 1
<1> USE WheelAssumption
<1>1. cur_slot \in 0 .. N - 1 BY DEF Slots, TypeOK
<1>2. cur_slot' = IF cur_slot + 1 < N THEN cur_slot + 1 ELSE 0
  BY <1>1
<1> QED BY <1>1, <1>2 DEF Slots, Ahead

\* The constructor: all slots are empty.
LEMMA WheelInit == Init => WheelInv
<1> SUFFICES ASSUME Init PROVE WheelInv OBVIOUS
<1> USE WheelAssumption DEF Init
<1>1. TypeOK BY DEF TypeOK, Slots
<1>2. WalkNotStale /\ CallbackOf /\ (pc = "destroyed" => alive = {})
  BY DEF WalkNotStale, CallbackOf
<1> DEFINE r == [t \in Timers |-> 0]
<1>3. Ranked(r) /\ Encodes(r)
  BY DEF Ranked, Heads, Links, Order, Same, Encodes
<1> QED BY <1>1, <1>2, <1>3 DEF WheelInv

-----------------------------------------------------------------------------
(* The lists. *)

\* What Unlink does, whether or not the timer is the head of its slot.
LEMMA UnlinkFacts ==
    ASSUME TypeOK, NEW rank, Ranked(rank), NEW t \in alive, Unlink(t)
    PROVE  /\ slots' \in [Slots -> Timers \cup {NULL}]
           /\ next' \in [Timers -> Timers \cup {NULL}]
           /\ prev' \in [Timers -> Timers \cup {NULL}]
           /\ \A s \in Slots : slots'[s] = IF slots[s] = t THEN next[t] ELSE slots[s]
           /\ \A u \in Timers \ {t} :
                /\ next'[u] = IF u = prev[t] THEN next[t] ELSE next[u]
                /\ prev'[u] = IF u = next[t] THEN prev[t] ELSE prev[u]
<1> DEFINE s == time_slot[t]
<1>1. t \in Timers /\ s \in Slots /\ next[t] \in Timers \cup {NULL}
  BY DEF TypeOK
<1>2. prev[t] = NULL <=> slots[s] = t BY DEF Ranked, Links
<1>3. \A x \in Slots : slots[x] = t => x = s
  BY WheelAssumption, <1>1 DEF Ranked, Heads
<1>4. CASE slots[s] = t
  <2>1. /\ slots' = [slots EXCEPT ![s] = next[t]]
        /\ prev' = [u \in Timers |-> IF u \in {t, next[t]} THEN NULL ELSE prev[u]]
        /\ next' = [next EXCEPT ![t] = NULL]
    BY <1>4 DEF Unlink
  <2> HIDE DEF s
  <2> QED BY <1>1, <1>2, <1>3, <1>4, <2>1, WheelAssumption DEF TypeOK
<1>5. CASE slots[s] # t
  <2>1. /\ next' = [next EXCEPT ![prev[t]] = next[t], ![t] = NULL]
        /\ prev' = [u \in Timers |-> IF u = t THEN NULL
                                     ELSE IF u = next[t] THEN prev[t] ELSE prev[u]]
        /\ slots' = slots
    BY <1>5 DEF Unlink
  <2>2. prev[t] \in Timers BY <1>2, <1>5 DEF TypeOK
  <2> HIDE DEF s
  <2>3. \A x \in Slots : slots[x] # t BY <1>3, <1>5
  <2> QED BY <1>1, <1>2, <2>1, <2>2, <2>3, WheelAssumption DEF TypeOK
<1> QED BY <1>4, <1>5

\* Taking a timer out keeps the other timers in order.
LEMMA UnlinkRanked ==
    ASSUME TypeOK, NEW rank, Ranked(rank), NEW t \in alive, Unlink(t), Free(t)
    PROVE  Ranked(rank)'
<1> DEFINE n == next[t]
           p == prev[t]
<1>1. /\ alive' = alive \ {t}
      /\ \A u \in Timers \ {t} : time_slot'[u] = time_slot[u]
  BY DEF Free, TypeOK
<1>2. /\ \A s \in Slots : slots'[s] = IF slots[s] = t THEN n ELSE slots[s]
      /\ \A u \in Timers \ {t} :
                /\ next'[u] = IF u = p THEN n ELSE next[u]
                /\ prev'[u] = IF u = n THEN p ELSE prev[u]
  BY UnlinkFacts
<1>3. /\ t \in Timers /\ NULL \notin Timers /\ alive \subseteq Timers
      /\ \A u \in alive : u \in Timers /\ time_slot[u] \in Slots
      /\ \A u \in Timers : rank[u] \in Int
  BY WheelAssumption DEF TypeOK, Ranked
<1>4. /\ n # NULL => Same(t, n) /\ prev[n] = t /\ rank[t] < rank[n] /\ n # t
      /\ p # NULL => Same(t, p) /\ next[p] = t /\ rank[p] < rank[t] /\ p # t
      /\ p = NULL <=> slots[time_slot[t]] = t
  BY <1>3 DEF Ranked, Links, Same
<1> HIDE DEF n, p
<1>5. Heads(rank)'
  <2>1. ASSUME NEW s \in Slots, slots'[s] # NULL
        PROVE  slots'[s] \in alive' /\ time_slot'[slots'[s]] = s
    <3>1. CASE slots[s] = t
      <4>1. /\ slots'[s] = n /\ time_slot[t] = s
            /\ n \in alive \ {t} /\ time_slot[n] = time_slot[t]
        BY <1>2, <1>4, <2>1, <3>1, <1>3 DEF Ranked, Heads, Same
      <4> QED BY <4>1, <1>1, <1>3
    <3>2. CASE slots[s] # t
      BY <3>2, <1>1, <1>2, <1>3, <2>1 DEF Ranked, Heads
    <3> QED BY <3>1, <3>2
  <2>2. ASSUME NEW u \in alive'
        PROVE  /\ slots'[time_slot'[u]] # NULL
               /\ rank[slots'[time_slot'[u]]] <= rank[u]
    <3>1. u \in alive /\ u # t /\ time_slot'[u] = time_slot[u] /\ time_slot[u] \in Slots
      BY <1>1, <1>3, <2>2
    <3>2. CASE slots[time_slot[u]] = t
      <4>1. Same(t, u) /\ rank[t] <= rank[u]
        BY <3>1, <3>2, <1>3 DEF Ranked, Heads, Same
      <4>2. rank[t] < rank[u]
        BY <4>1, <3>1, <1>3 DEF Ranked, Order
      <4>3. n # NULL /\ rank[n] <= rank[u]
        BY <4>1, <4>2, <3>1, <1>3 DEF Ranked, Order, n
      <4> QED BY <3>1, <3>2, <4>3, <1>2
    <3>3. CASE slots[time_slot[u]] # t
      BY <3>1, <3>3, <1>2 DEF Ranked, Heads
    <3> QED BY <3>2, <3>3
  <2> QED BY <2>1, <2>2 DEF Heads
<1>6. ASSUME NEW u \in alive'
      PROVE  /\ prev'[u] = NULL <=> slots'[time_slot'[u]] = u
             /\ next'[u] # NULL =>
                  /\ next'[u] \in alive' /\ time_slot'[next'[u]] = time_slot'[u]
                  /\ prev'[next'[u]] = u /\ rank[u] < rank[next'[u]]
             /\ prev'[u] # NULL =>
                  /\ prev'[u] \in alive' /\ time_slot'[prev'[u]] = time_slot'[u]
                  /\ next'[prev'[u]] = u
  <2>1. /\ u \in alive /\ u # t /\ u \in Timers /\ time_slot'[u] = time_slot[u]
        /\ time_slot[u] \in Slots
    BY <1>1, <1>3, <1>6
  <2>2. /\ prev[u] = NULL <=> slots[time_slot[u]] = u
        /\ next[u] # NULL => Same(u, next[u]) /\ prev[next[u]] = u /\ rank[u] < rank[next[u]]
        /\ prev[u] # NULL => Same(u, prev[u]) /\ next[prev[u]] = u
    BY <2>1 DEF Ranked, Links
  <2>3. prev'[u] = NULL <=> slots'[time_slot'[u]] = u
    <3>1. CASE u = n
      <4>1. time_slot[t] = time_slot[u] BY <3>1, <2>1, <1>3, <1>4 DEF Same
      <4>2. prev[u] = t /\ slots[time_slot[u]] # u BY <3>1, <2>1, <2>2, <1>3, <1>4
      <4> QED BY <3>1, <4>1, <4>2, <2>1, <2>2, <1>2, <1>3, <1>4
    <3>2. CASE u # n
      <4>1. prev'[u] = prev[u] BY <3>2, <2>1, <1>2
      <4>2. slots'[time_slot[u]] = u <=> slots[time_slot[u]] = u
        BY <3>2, <2>1, <1>2
      <4> QED BY <4>1, <4>2, <2>1, <2>2
    <3> QED BY <3>1, <3>2
  <2>4. ASSUME next'[u] # NULL
        PROVE  /\ next'[u] \in alive' /\ time_slot'[next'[u]] = time_slot'[u]
               /\ prev'[next'[u]] = u /\ rank[u] < rank[next'[u]]
    <3>1. CASE u = p
      <4>1. next'[u] = n /\ n # NULL BY <3>1, <2>1, <2>4, <1>2
      <4>2. n \in alive /\ n # t /\ time_slot[n] = time_slot[t] /\ time_slot[u] = time_slot[t]
        BY <4>1, <3>1, <2>1, <1>3, <1>4 DEF Same
      <4>3. prev'[n] = p BY <4>2, <1>2, <1>3
      <4>4. rank[u] < rank[n]
        BY <3>1, <4>1, <4>2, <2>1, <1>3, <1>4
      <4> QED BY <3>1, <4>1, <4>2, <4>3, <4>4, <2>1, <1>1, <1>3
    <3>2. CASE u # p
      <4>1. next'[u] = next[u] BY <3>2, <2>1, <1>2
      <4>2. Same(u, next[u]) /\ prev[next[u]] = u /\ rank[u] < rank[next[u]]
        BY <4>1, <2>2, <2>4
      <4>3. next[u] # t /\ next[u] \in alive
        BY <3>2, <4>2 DEF Same, p
      <4>4. next[u] # n BY <4>2, <4>3, <2>1, <1>4, <1>3
      <4>5. prev'[next[u]] = u BY <4>2, <4>3, <4>4, <1>2, <1>3
      <4> QED BY <4>1, <4>2, <4>3, <4>5, <2>1, <1>1, <1>3 DEF Same
    <3> QED BY <3>1, <3>2
  <2>5. ASSUME prev'[u] # NULL
        PROVE  /\ prev'[u] \in alive' /\ time_slot'[prev'[u]] = time_slot'[u]
               /\ next'[prev'[u]] = u
    <3>1. CASE u = n
      <4>1. prev'[u] = p /\ p # NULL BY <3>1, <2>1, <2>5, <1>2
      <4>2. p \in alive /\ p # t /\ time_slot[p] = time_slot[t] /\ time_slot[u] = time_slot[t]
        BY <4>1, <3>1, <2>1, <1>3, <1>4 DEF Same
      <4>3. next'[p] = n BY <4>2, <1>2, <1>3
      <4> QED BY <3>1, <4>1, <4>2, <4>3, <2>1, <1>1, <1>3
    <3>2. CASE u # n
      <4>1. prev'[u] = prev[u] BY <3>2, <2>1, <1>2
      <4>2. Same(u, prev[u]) /\ next[prev[u]] = u
        BY <4>1, <2>2, <2>5
      <4>3. prev[u] # t /\ prev[u] \in alive
        BY <3>2, <4>2 DEF Same, n
      <4>4. prev[u] # p BY <4>2, <4>3, <2>1, <1>4, <1>3
      <4>5. next'[prev[u]] = u BY <4>2, <4>3, <4>4, <1>2, <1>3
      <4> QED BY <4>1, <4>2, <4>3, <4>5, <2>1, <1>1, <1>3 DEF Same
    <3> QED BY <3>1, <3>2
  <2> QED BY <2>3, <2>4, <2>5
<1>7. Links(rank)' BY <1>6 DEF Links, Same
<1>8. Order(rank)'
  <2> SUFFICES ASSUME NEW u \in Timers, NEW v \in Timers,
                      u \in alive', v \in alive', time_slot'[u] = time_slot'[v]
               PROVE  /\ rank[u] = rank[v] => u = v
                      /\ rank[u] < rank[v] => next'[u] # NULL /\ rank[next'[u]] <= rank[v]
    BY DEF Order, Same
  <2>1. u # t /\ v # t /\ Same(u, v) BY <1>1 DEF Same
  <2>2. rank[u] = rank[v] => u = v BY <2>1 DEF Ranked, Order
  <2>3. ASSUME rank[u] < rank[v] PROVE next'[u] # NULL /\ rank[next'[u]] <= rank[v]
    <3>1. next[u] # NULL /\ rank[next[u]] <= rank[v]
      BY <2>1, <2>3 DEF Ranked, Order
    <3>2. CASE u = p
      <4>1. next[u] = t /\ Same(t, v) BY <3>2, <2>1, <1>3, <1>4 DEF Same
      <4>2. rank[t] < rank[v]
        BY <3>1, <4>1, <2>1, <1>3 DEF Ranked, Order
      <4>3. n # NULL /\ rank[n] <= rank[v]
        BY <4>1, <4>2, <1>3 DEF Ranked, Order, n
      <4> QED BY <3>2, <4>3, <2>1, <1>2
    <3>3. CASE u # p
      BY <3>1, <3>3, <2>1, <1>2
    <3> QED BY <3>2, <3>3
  <2> QED BY <2>2, <2>3
<1> QED BY <1>5, <1>7, <1>8 DEF Ranked

\* A new timer at the head of slot ts comes before the others of the slot.
LEMMA AddRanked ==
    ASSUME TypeOK, NEW rank, Ranked(rank), NEW t \in Timers, t \notin alive,
           NEW ts \in Slots, NEW m \in Int,
           \A u \in alive : time_slot[u] = ts => m < rank[u],
           alive' = alive \cup {t},
           time_slot' = [time_slot EXCEPT ![t] = ts],
           next' = [next EXCEPT ![t] = slots[ts]],
           prev' = [u \in Timers |-> IF u = t THEN NULL
                                     ELSE IF u = slots[ts] THEN t ELSE prev[u]],
           slots' = [slots EXCEPT ![ts] = t],
           NEW new, new = [rank EXCEPT ![t] = m]
    PROVE  Ranked(new)'
<1> DEFINE h == slots[ts]
<1>1. /\ new \in [Timers -> Int] /\ new[t] = m
      /\ \A u \in alive : u \in Timers /\ u # t /\ new[u] = rank[u] /\ rank[u] \in Int
  BY DEF Ranked, TypeOK
<1>2. /\ time_slot'[t] = ts
      /\ \A u \in alive : time_slot'[u] = time_slot[u] /\ time_slot[u] \in Slots
  BY <1>1 DEF TypeOK
<1>3. /\ next'[t] = h
      /\ \A u \in alive : next'[u] = next[u]
  BY <1>1 DEF TypeOK
<1>4. /\ prev'[t] = NULL
      /\ \A u \in alive : prev'[u] = IF u = h THEN t ELSE prev[u]
  BY <1>1
<1>5. /\ slots'[ts] = t
      /\ \A s \in Slots : s # ts => slots'[s] = slots[s]
  BY DEF TypeOK
<1>6. /\ NULL \notin Timers
      /\ h # NULL => h \in alive /\ time_slot[h] = ts
      /\ \A u \in alive : time_slot[u] = ts => h # NULL /\ rank[h] <= rank[u]
  BY WheelAssumption DEF Ranked, Heads
<1> HIDE DEF h
<1>7. Heads(new)'
  <2>1. ASSUME NEW s \in Slots, slots'[s] # NULL
        PROVE  slots'[s] \in alive' /\ time_slot'[slots'[s]] = s
    <3>1. CASE s = ts BY <3>1, <1>2, <1>5
    <3>2. CASE s # ts BY <2>1, <3>2, <1>2, <1>5 DEF Ranked, Heads
    <3> QED BY <3>1, <3>2
  <2>2. ASSUME NEW u \in alive'
        PROVE  /\ slots'[time_slot'[u]] # NULL
               /\ new[slots'[time_slot'[u]]] <= new[u]
    <3>1. CASE u = t BY <3>1, <1>1, <1>2, <1>5, <1>6
    <3>2. CASE u \in alive /\ time_slot[u] = ts
      BY <3>2, <1>1, <1>2, <1>5, <1>6
    <3>3. CASE u \in alive /\ time_slot[u] # ts
      <4>1. slots[time_slot[u]] \in alive /\ rank[slots[time_slot[u]]] <= rank[u]
        BY <3>3, <1>2 DEF Ranked, Heads
      <4> QED BY <3>3, <4>1, <1>1, <1>2, <1>5, <1>6
    <3> QED BY <2>2, <3>1, <3>2, <3>3
  <2> QED BY <2>1, <2>2 DEF Heads
<1>8. ASSUME NEW u \in alive'
      PROVE  /\ prev'[u] = NULL <=> slots'[time_slot'[u]] = u
             /\ next'[u] # NULL =>
                  /\ next'[u] \in alive' /\ time_slot'[next'[u]] = time_slot'[u]
                  /\ prev'[next'[u]] = u /\ new[u] < new[next'[u]]
             /\ prev'[u] # NULL =>
                  /\ prev'[u] \in alive' /\ time_slot'[prev'[u]] = time_slot'[u]
                  /\ next'[prev'[u]] = u
  <2>1. CASE u = t
    BY <2>1, <1>1, <1>2, <1>3, <1>4, <1>5, <1>6
  <2>2. CASE u \in alive
    <3>1. /\ prev[u] = NULL <=> slots[time_slot[u]] = u
          /\ next[u] # NULL => Same(u, next[u]) /\ prev[next[u]] = u /\ rank[u] < rank[next[u]]
          /\ prev[u] # NULL => Same(u, prev[u]) /\ next[prev[u]] = u
      BY <2>2 DEF Ranked, Links
    <3>2. prev'[u] = NULL <=> slots'[time_slot'[u]] = u
      BY <2>2, <3>1, <1>1, <1>2, <1>4, <1>5, <1>6 DEF h
    <3>3. ASSUME next'[u] # NULL
          PROVE  /\ next'[u] \in alive' /\ time_slot'[next'[u]] = time_slot'[u]
                 /\ prev'[next'[u]] = u /\ new[u] < new[next'[u]]
      <4>1. next'[u] = next[u] /\ next[u] \in alive /\ time_slot[next[u]] = time_slot[u]
            /\ prev[next[u]] = u /\ rank[u] < rank[next[u]]
        BY <2>2, <3>1, <3>3, <1>3 DEF Same
      <4>2. next[u] # h
        BY <4>1, <2>2, <1>1, <1>6
      <4> QED BY <4>1, <4>2, <2>2, <1>1, <1>2, <1>4
    <3>4. ASSUME prev'[u] # NULL
          PROVE  /\ prev'[u] \in alive' /\ time_slot'[prev'[u]] = time_slot'[u]
                 /\ next'[prev'[u]] = u
      <4>1. CASE u = h BY <2>2, <4>1, <1>1, <1>2, <1>3, <1>4, <1>6
      <4>2. CASE u # h
        <5>1. prev'[u] = prev[u] /\ prev[u] \in alive /\ time_slot[prev[u]] = time_slot[u]
              /\ next[prev[u]] = u
          BY <2>2, <3>1, <3>4, <4>2, <1>4 DEF Same
        <5> QED BY <5>1, <2>2, <1>2, <1>3
      <4> QED BY <4>1, <4>2
    <3> QED BY <3>2, <3>3, <3>4
  <2> QED BY <1>8, <2>1, <2>2
<1>9. Links(new)' BY <1>8 DEF Links, Same
<1>10. Order(new)'
  <2> SUFFICES ASSUME NEW u \in Timers, NEW v \in Timers,
                      u \in alive', v \in alive', time_slot'[u] = time_slot'[v]
               PROVE  /\ new[u] = new[v] => u = v
                      /\ new[u] < new[v] => next'[u] # NULL /\ new[next'[u]] <= new[v]
    BY DEF Order, Same
  <2>1. CASE u \in alive /\ v \in alive
    <3>1. /\ rank[u] = rank[v] => u = v
          /\ rank[u] < rank[v] => next[u] # NULL /\ rank[next[u]] <= rank[v]
      BY <2>1, <1>2 DEF Ranked, Order, Same
    <3>2. next[u] # NULL => next[u] \in alive BY <2>1 DEF Ranked, Links, Same
    <3> QED BY <2>1, <3>1, <3>2, <1>1, <1>3
  <2>2. CASE u = t /\ v \in alive
    BY <2>2, <1>1, <1>2, <1>3, <1>6
  <2>3. CASE u \in alive /\ v = t
    BY <2>3, <1>1, <1>2
  <2>4. CASE u = t /\ v = t
    BY <2>4, <1>1
  <2> QED BY <2>1, <2>2, <2>3, <2>4
<1> QED BY <1>1, <1>7, <1>9, <1>10 DEF Ranked

-----------------------------------------------------------------------------
(* The operations. *)

\* add_timer, between ticks and from a callback.
LEMMA AddKeepsInv ==
    ASSUME WheelInv, NEW t \in Timers, NEW timeout \in Timeouts, add_timer(t, timeout)
    PROVE  WheelInv'
<1> DEFINE k == TicksOf(timeout)
           ts == SlotOf(k)
           rot == RotationOf(k)
           late == IF pc = "callback" /\ k % N = 0 THEN N ELSE 0
<1>1. /\ pc \in {"idle", "callback"} /\ timeout >= 0 /\ t \notin alive
      /\ alive' = alive \cup {t}
      /\ rotation' = [rotation EXCEPT ![t] = rot]
      /\ time_slot' = [time_slot EXCEPT ![t] = ts]
      /\ next' = [next EXCEPT ![t] = slots[ts]]
      /\ prev' = [u \in Timers |-> IF u = t THEN NULL
                                   ELSE IF u = slots[ts] THEN t ELSE prev[u]]
      /\ slots' = [slots EXCEPT ![ts] = t]
      /\ due' = [due EXCEPT ![t] = count + k + late]
      /\ cur_slot' = cur_slot /\ pc' = pc /\ tmp' = tmp /\ count' = count
  BY DEF add_timer, ClientRuns
<1>2. /\ k \in Nat /\ ts \in Slots /\ rot \in Nat /\ k = rot * N + Ahead(ts)
      /\ ts = cur_slot <=> k % N = 0
  <2>1. k \in Nat BY <1>1, TicksOfNat
  <2> QED BY <2>1, SlotArithmetic DEF WheelInv, TypeOK
<1>3. N \in Nat /\ N > 0 /\ NULL \notin Timers /\ late \in Nat
  BY WheelAssumption
<1>4. TypeOK
  BY DEF WheelInv
<1>5. PICK a : a = ts /\ a \in Slots
  BY <1>2
<1>6. PICK rank : Ranked(rank) /\ Encodes(rank)
  BY DEF WheelInv
<1>7. \E m \in Int : \A u \in alive : time_slot[u] = ts => m < rank[u]
  <2>1. CASE slots[ts] = NULL
    <3>1. \A u \in alive : time_slot[u] # ts BY <1>6, <2>1 DEF Ranked, Heads
    <3> QED BY <3>1
  <2>2. CASE slots[ts] # NULL
    <3>1. slots[ts] \in Timers /\ rank[slots[ts]] \in Int
      BY <1>2, <1>4, <1>6, <2>2 DEF TypeOK, Ranked
    <3>2. \A u \in alive : /\ u \in Timers /\ rank[u] \in Int
                           /\ time_slot[u] = ts => rank[slots[ts]] <= rank[u]
      BY <1>4, <1>6 DEF Ranked, Heads, TypeOK
    <3>3. \A u \in alive : time_slot[u] = ts => rank[slots[ts]] - 1 < rank[u]
      BY <3>1, <3>2
    <3> QED BY <3>1, <3>3
  <2> QED BY <2>1, <2>2
<1> HIDE DEF k, ts, rot, late
<1>8. PICK m \in Int : \A u \in alive : time_slot[u] = a => m < rank[u]
  BY <1>5, <1>7
<1>9. PICK new : new = [rank EXCEPT ![t] = m]
  OBVIOUS
<1>10. Ranked(new)'
  BY <1>1, <1>4, <1>5, <1>6, <1>8, <1>9, AddRanked
<1>11. TypeOK'
  BY <1>1, <1>2, <1>3, <1>4 DEF TypeOK
<1>12. WalkNotStale' /\ CallbackOf' /\ pc' # "destroyed"
  BY <1>1, <1>3, <1>4 DEF WheelInv, WalkNotStale, CallbackOf, TypeOK
<1>13. Encodes(new)'
  <2> SUFFICES ASSUME NEW u \in alive'
               PROVE  due'[u] = count' + rotation'[u] * N
                        + (IF Passed(new, u)' THEN N ELSE Ahead(time_slot[u])')
    BY DEF Encodes
  <2>1. CASE u = t
    <3>1. due'[u] = count + k + late /\ rotation'[u] = rot /\ time_slot'[u] = ts /\ new[u] = m
      BY <1>1, <1>4, <1>6, <1>9, <2>1 DEF TypeOK, Ranked
    <3>2. Ahead(time_slot[u])' = Ahead(ts)
      BY <1>1, <3>1 DEF Ahead
    <3>3. Passed(new, u)' <=> pc = "callback" /\ ts = cur_slot
      <4>1. pc = "callback" /\ ts = cur_slot => tmp \in alive /\ time_slot[tmp] = a
        BY <1>5 DEF WheelInv, WalkNotStale, CallbackOf
      <4>2. pc = "callback" /\ ts = cur_slot => m < rank[tmp] /\ tmp # t /\ tmp \in Timers
        BY <4>1, <1>1, <1>4, <1>8 DEF TypeOK
      <4>3. pc = "callback" /\ ts = cur_slot => new[u] < new[tmp]
        BY <4>2, <1>6, <1>9, <3>1 DEF Ranked
      <4> QED BY <1>1, <3>1, <4>3 DEF Passed, InTick
    <3>4. ts = cur_slot => Ahead(ts) = 0
      BY <1>4 DEF Ahead, TypeOK, Slots
    <3>5. Ahead(ts) \in Nat
      BY <1>2, <1>4, WheelAssumption DEF Ahead, TypeOK, Slots
    <3>6. rot * N \in Nat BY <1>2, <1>3
    <3>7. CASE pc = "callback" /\ ts = cur_slot
      <4>1. late = N BY <1>2, <3>7 DEF late
      <4> QED BY <3>1, <3>2, <3>3, <3>4, <3>6, <3>7, <4>1, <1>1, <1>2, <1>3, <1>4 DEF TypeOK
    <3>8. CASE ~(pc = "callback" /\ ts = cur_slot)
      <4>1. late = 0 BY <1>2, <3>8 DEF late
      <4> QED BY <3>1, <3>2, <3>3, <3>5, <3>6, <3>8, <4>1, <1>1, <1>2, <1>3, <1>4 DEF TypeOK
    <3> QED BY <3>7, <3>8
  <2>2. CASE u # t
    <3>1. u \in alive /\ u \in Timers BY <1>1, <1>4, <2>2 DEF TypeOK
    <3>2. /\ due'[u] = due[u] /\ rotation'[u] = rotation[u]
          /\ time_slot'[u] = time_slot[u] /\ new[u] = rank[u]
      BY <1>1, <1>4, <1>6, <1>9, <2>2, <3>1 DEF TypeOK, Ranked
    <3>3. Ahead(time_slot[u])' = Ahead(time_slot[u])
      BY <1>1, <3>2 DEF Ahead
    <3>4. InTick /\ tmp # NULL => tmp \in Timers /\ tmp # t
      BY <1>1, <1>4 DEF WheelInv, WalkNotStale, InTick, TypeOK
    <3>5. InTick /\ tmp # NULL => new[tmp] = rank[tmp]
      BY <3>4, <1>6, <1>9 DEF Ranked
    <3>6. Passed(new, u)' <=> Passed(rank, u)
      BY <1>1, <3>2, <3>5 DEF Passed, InTick
    <3> QED BY <1>1, <1>6, <3>1, <3>2, <3>3, <3>6 DEF Encodes
  <2> QED BY <2>1, <2>2
<1> QED BY <1>10, <1>11, <1>12, <1>13 DEF WheelInv

\* What Free leaves of the other timers.
LEMMA FreeFacts ==
    ASSUME TypeOK, NEW t \in Timers, Free(t)
    PROVE  /\ alive' = alive \ {t}
           /\ rotation' \in [Timers -> Nat] /\ time_slot' \in [Timers -> Slots]
           /\ due' \in [Timers -> Nat]
           /\ \A u \in Timers \ {t} : /\ rotation'[u] = rotation[u]
                                      /\ time_slot'[u] = time_slot[u]
                                      /\ due'[u] = due[u]
BY WheelAssumption DEF Free, TypeOK, Slots

\* del_timer, between ticks and from the callback of another timer.
LEMMA DelKeepsInv ==
    ASSUME WheelInv, NEW t \in Timers, del_timer(t) PROVE WheelInv'
<1>1. /\ t \in alive /\ (pc = "callback" => t # tmp) /\ pc \in {"idle", "callback"}
      /\ Unlink(t) /\ Free(t)
      /\ cur_slot' = cur_slot /\ pc' = pc /\ tmp' = tmp /\ count' = count
  BY DEF del_timer, ClientRuns
<1>2. TypeOK /\ WalkNotStale /\ CallbackOf BY DEF WheelInv
<1>3. PICK rank : Ranked(rank) /\ Encodes(rank) BY DEF WheelInv
<1>4. Ranked(rank)' BY <1>1, <1>2, <1>3, UnlinkRanked
<1>5. /\ slots' \in [Slots -> Timers \cup {NULL}]
      /\ next' \in [Timers -> Timers \cup {NULL}]
      /\ prev' \in [Timers -> Timers \cup {NULL}]
  BY <1>1, <1>2, <1>3, UnlinkFacts
<1>6. /\ alive' = alive \ {t}
      /\ rotation' \in [Timers -> Nat] /\ time_slot' \in [Timers -> Slots]
      /\ due' \in [Timers -> Nat]
      /\ \A u \in Timers \ {t} : /\ rotation'[u] = rotation[u]
                                 /\ time_slot'[u] = time_slot[u]
                                 /\ due'[u] = due[u]
  BY <1>1, <1>2, FreeFacts
<1>7. TypeOK' BY <1>1, <1>2, <1>5, <1>6 DEF TypeOK
<1>8. WalkNotStale' /\ CallbackOf' /\ pc' # "destroyed"
  BY <1>1, <1>2, <1>6 DEF WalkNotStale, CallbackOf, TypeOK
<1>9. Encodes(rank)'
  <2> SUFFICES ASSUME NEW u \in alive'
               PROVE  due'[u] = count' + rotation'[u] * N
                        + (IF Passed(rank, u)' THEN N ELSE Ahead(time_slot[u])')
    BY DEF Encodes
  <2>1. u \in alive /\ u \in Timers \ {t} BY <1>2, <1>6 DEF TypeOK
  <2>2. /\ Ahead(time_slot[u])' = Ahead(time_slot[u])
        /\ Passed(rank, u)' <=> Passed(rank, u)
    BY <1>1, <1>6, <2>1 DEF Ahead, Passed, InTick
  <2> QED BY <1>1, <1>3, <1>6, <2>1, <2>2 DEF Encodes
<1> QED BY <1>4, <1>7, <1>8, <1>9 DEF WheelInv

\* When tick() moves on to the next timer, it has passed one timer more.
LEMMA WalkOn ==
    ASSUME TypeOK, NEW rank, Ranked(rank), tmp \in alive, time_slot[tmp] = cur_slot,
           NEW u \in alive, time_slot[u] = cur_slot, u # tmp
    PROVE  (next[tmp] = NULL \/ rank[u] < rank[next[tmp]]) <=> rank[u] < rank[tmp]
<1>1. Same(u, tmp) /\ Same(tmp, u) /\ u \in Timers /\ tmp \in Timers
  BY DEF Same, TypeOK
<1>2. rank[u] \in Int /\ rank[tmp] \in Int /\ rank[u] # rank[tmp]
  BY <1>1 DEF Ranked, Order
<1>3. next[tmp] # NULL => rank[next[tmp]] \in Int /\ rank[tmp] < rank[next[tmp]]
  BY <1>1 DEF Ranked, Links, TypeOK
<1>4. rank[tmp] < rank[u] => next[tmp] # NULL /\ rank[next[tmp]] <= rank[u]
  BY <1>1 DEF Ranked, Order
<1> QED BY <1>2, <1>3, <1>4

\* The return of a callback.
LEMMA ReturnKeepsInv == ASSUME WheelInv, CallbackReturn PROVE WheelInv'
<1>1. /\ pc = "callback" /\ Unlink(tmp) /\ Free(tmp) /\ tmp' = next[tmp]
      /\ pc' = "walk" /\ cur_slot' = cur_slot /\ count' = count
  BY DEF CallbackReturn
<1>2. TypeOK /\ tmp \in alive /\ tmp \in Timers /\ time_slot[tmp] = cur_slot
  BY <1>1 DEF WheelInv, WalkNotStale, CallbackOf, TypeOK
<1>3. PICK rank : Ranked(rank) /\ Encodes(rank) BY DEF WheelInv
<1>t. PICK t : t = tmp OBVIOUS
<1>4. Ranked(rank)'
  <2>1. Unlink(t) /\ Free(t) /\ t \in alive BY <1>1, <1>2, <1>t
  <2> QED BY <1>2, <1>3, <2>1, UnlinkRanked
<1>5. /\ slots' \in [Slots -> Timers \cup {NULL}]
      /\ next' \in [Timers -> Timers \cup {NULL}]
      /\ prev' \in [Timers -> Timers \cup {NULL}]
  BY <1>1, <1>2, <1>3, UnlinkFacts
<1>6. /\ alive' = alive \ {tmp}
      /\ rotation' \in [Timers -> Nat] /\ time_slot' \in [Timers -> Slots]
      /\ due' \in [Timers -> Nat]
      /\ \A u \in Timers \ {tmp} : /\ rotation'[u] = rotation[u]
                                   /\ time_slot'[u] = time_slot[u]
                                   /\ due'[u] = due[u]
  BY <1>1, <1>2, FreeFacts
<1>7. TypeOK' BY <1>1, <1>2, <1>5, <1>6 DEF TypeOK
<1>8. next[tmp] # NULL => /\ next[tmp] \in alive \ {tmp} /\ next[tmp] \in Timers \ {tmp}
                          /\ time_slot[next[tmp]] = cur_slot
  <2>1. next[tmp] # NULL => /\ next[tmp] \in alive /\ time_slot[next[tmp]] = cur_slot
                            /\ rank[tmp] < rank[next[tmp]]
    BY <1>2, <1>3 DEF Ranked, Links, Same
  <2> QED BY <1>2, <1>3, <2>1 DEF Ranked, TypeOK
<1>9. WalkNotStale' /\ CallbackOf' /\ pc' # "destroyed"
  BY <1>1, <1>6, <1>8 DEF WalkNotStale, CallbackOf
<1>10. Encodes(rank)'
  <2> SUFFICES ASSUME NEW u \in alive'
               PROVE  due'[u] = count' + rotation'[u] * N
                        + (IF Passed(rank, u)' THEN N ELSE Ahead(time_slot[u])')
    BY DEF Encodes
  <2>1. u \in alive /\ u # tmp /\ u \in Timers \ {tmp} BY <1>2, <1>6 DEF TypeOK
  <2>2. Ahead(time_slot[u])' = Ahead(time_slot[u])
    BY <1>1, <1>6, <2>1 DEF Ahead
  <2>3. Passed(rank, u)' <=> Passed(rank, u)
    <3>1. CASE time_slot[u] = cur_slot
      <4>1. (next[tmp] = NULL \/ rank[u] < rank[next[tmp]]) <=> rank[u] < rank[tmp]
        BY <1>2, <1>3, <2>1, <3>1, WalkOn
      <4>2. tmp # NULL BY <1>2, WheelAssumption
      <4> QED BY <1>1, <1>6, <2>1, <4>1, <4>2 DEF Passed, InTick
    <3>2. CASE time_slot[u] # cur_slot
      BY <1>1, <1>6, <2>1, <3>2 DEF Passed
    <3> QED BY <3>1, <3>2
  <2> QED BY <1>1, <1>3, <1>6, <2>1, <2>2, <2>3 DEF Encodes
<1> QED BY <1>4, <1>7, <1>9, <1>10 DEF WheelInv

\* Ranked speaks of the lists only.
LEMMA SameLists ==
    ASSUME NEW rank, Ranked(rank), UNCHANGED <<slots, alive, time_slot, next, prev>>
    PROVE  Ranked(rank)'
BY DEF Ranked, Heads, Links, Order, Same

\* The start of a tick: no timer is passed yet.
LEMMA BeginKeepsInv == ASSUME WheelInv, TickBegin PROVE WheelInv'
<1>1. /\ pc = "idle" /\ tmp' = slots[cur_slot] /\ pc' = "walk"
      /\ UNCHANGED <<slots, cur_slot, alive, rotation, time_slot, next, prev, count, due>>
  BY DEF TickBegin, fields
<1>2. TypeOK BY DEF WheelInv
<1>3. PICK rank : Ranked(rank) /\ Encodes(rank) BY DEF WheelInv
<1>4. Ranked(rank)' BY <1>1, <1>3, SameLists
<1>5. TypeOK' BY <1>1, <1>2 DEF TypeOK
<1>6. WalkNotStale' /\ CallbackOf' /\ pc' # "destroyed"
  BY <1>1, <1>2, <1>3 DEF WalkNotStale, CallbackOf, Ranked, Heads, TypeOK
<1>7. Encodes(rank)'
  <2> SUFFICES ASSUME NEW u \in alive
               PROVE  due[u] = count + rotation[u] * N
                        + (IF Passed(rank, u)' THEN N ELSE Ahead(time_slot[u])')
    BY <1>1 DEF Encodes
  <2>1. Ahead(time_slot[u])' = Ahead(time_slot[u]) BY <1>1 DEF Ahead
  <2>2. ~Passed(rank, u) BY <1>1 DEF Passed, InTick
  <2>3. ~Passed(rank, u)'
    <3>1. time_slot[u] = cur_slot =>
            slots[cur_slot] # NULL /\ rank[slots[cur_slot]] <= rank[u]
      BY <1>3 DEF Ranked, Heads
    <3>2. u \in Timers /\ rank[u] \in Int BY <1>2, <1>3 DEF TypeOK, Ranked
    <3>3. slots[cur_slot] # NULL => rank[slots[cur_slot]] \in Int
      BY <1>2, <1>3 DEF TypeOK, Ranked
    <3> QED BY <1>1, <3>1, <3>2, <3>3 DEF Passed
  <2> QED BY <1>3, <2>1, <2>2, <2>3 DEF Encodes
<1> QED BY <1>4, <1>5, <1>6, <1>7 DEF WheelInv

\* A timer that stays loses a revolution when it is passed.
LEMMA DecrementKeepsInv == ASSUME WheelInv, TickDecrement PROVE WheelInv'
<1>1. /\ pc = "walk" /\ tmp # NULL /\ rotation[tmp] > 0 /\ tmp' = next[tmp]
      /\ rotation' = [rotation EXCEPT ![tmp] = @ - 1]
      /\ UNCHANGED <<slots, cur_slot, alive, time_slot, next, prev, pc, count, due>>
  BY DEF TickDecrement
<1>2. TypeOK /\ tmp \in alive /\ tmp \in Timers /\ time_slot[tmp] = cur_slot
  BY <1>1 DEF WheelInv, WalkNotStale, TypeOK
<1>3. PICK rank : Ranked(rank) /\ Encodes(rank) BY DEF WheelInv
<1>4. Ranked(rank)' BY <1>1, <1>3, SameLists
<1>5. TypeOK' BY <1>1, <1>2 DEF TypeOK
<1>6. next[tmp] # NULL => next[tmp] \in alive /\ time_slot[next[tmp]] = cur_slot
                          /\ rank[tmp] < rank[next[tmp]]
  BY <1>2, <1>3 DEF Ranked, Links, Same
<1>7. WalkNotStale' /\ CallbackOf' /\ pc' # "destroyed"
  BY <1>1, <1>6 DEF WalkNotStale, CallbackOf
<1>8. Encodes(rank)'
  <2> SUFFICES ASSUME NEW u \in alive
               PROVE  due[u] = count + rotation'[u] * N
                        + (IF Passed(rank, u)' THEN N ELSE Ahead(time_slot[u])')
    BY <1>1 DEF Encodes
  <2>1. Ahead(time_slot[u])' = Ahead(time_slot[u]) /\ u \in Timers
    BY <1>1, <1>2 DEF Ahead, TypeOK
  <2>2. due[u] = count + rotation[u] * N
                   + (IF Passed(rank, u) THEN N ELSE Ahead(time_slot[u]))
    BY <1>3 DEF Encodes
  <2>3. CASE u = tmp
    <3>1. ~Passed(rank, u) /\ Passed(rank, u)'
      BY <1>1, <1>2, <1>3, <1>6, <2>3 DEF Passed, InTick, Ranked
    <3>2. Ahead(time_slot[u]) = 0 BY <1>2, <2>3 DEF Ahead, TypeOK, Slots
    <3>3. rotation[u] \in Nat /\ rotation'[u] = rotation[u] - 1 /\ N \in Nat
      BY <1>1, <1>2, <2>3, WheelAssumption DEF TypeOK
    <3>4. rotation'[u] * N + N = rotation[u] * N
      BY <3>3
    <3>5. rotation'[u] * N \in Int /\ count \in Nat
      BY <3>3, <1>2 DEF TypeOK
    <3> QED BY <2>2, <3>1, <3>2, <3>3, <3>4, <3>5
  <2>4. CASE u # tmp
    <3>1. rotation'[u] = rotation[u] BY <1>1, <1>2, <2>1, <2>4 DEF TypeOK
    <3>2. Passed(rank, u)' <=> Passed(rank, u)
      <4>1. CASE time_slot[u] = cur_slot
        <5>1. (next[tmp] = NULL \/ rank[u] < rank[next[tmp]]) <=> rank[u] < rank[tmp]
          BY <1>2, <1>3, <2>4, <4>1, WalkOn
        <5> QED BY <1>1, <5>1 DEF Passed, InTick
      <4>2. CASE time_slot[u] # cur_slot
        BY <1>1, <4>2 DEF Passed
      <4> QED BY <4>1, <4>2
    <3> QED BY <2>1, <2>2, <3>1, <3>2
  <2> QED BY <2>3, <2>4
<1> QED BY <1>4, <1>5, <1>7, <1>8 DEF WheelInv

\* The call of a timer.
LEMMA CallKeepsInv == ASSUME WheelInv, TickCall PROVE WheelInv'
<1>1. /\ pc = "walk" /\ tmp # NULL /\ rotation[tmp] = 0 /\ pc' = "callback"
      /\ UNCHANGED <<slots, cur_slot, alive, rotation, time_slot, next, prev, tmp, count, due>>
  BY DEF TickCall, fields
<1>2. PICK rank : Ranked(rank) /\ Encodes(rank) BY DEF WheelInv
<1>3. Ranked(rank)' BY <1>1, <1>2, SameLists
<1>4. TypeOK' BY <1>1 DEF WheelInv, TypeOK
<1>5. WalkNotStale' /\ CallbackOf' /\ pc' # "destroyed"
  BY <1>1 DEF WheelInv, WalkNotStale, CallbackOf
<1>6. \A u : /\ Passed(rank, u)' <=> Passed(rank, u)
             /\ Ahead(time_slot[u])' = Ahead(time_slot[u])
  BY <1>1 DEF Passed, InTick, Ahead
<1>7. Encodes(rank)' BY <1>1, <1>2, <1>6 DEF Encodes
<1> QED BY <1>3, <1>4, <1>5, <1>7 DEF WheelInv

\* The end of a tick: all timers of the slot were passed, and their slot is now
\* the last one ahead.
LEMMA EndKeepsInv == ASSUME WheelInv, TickEnd PROVE WheelInv'
<1>1. /\ pc = "walk" /\ tmp = NULL /\ cur_slot' = (cur_slot + 1) % N
      /\ count' = count + 1 /\ pc' = "idle"
      /\ UNCHANGED <<slots, alive, rotation, time_slot, next, prev, tmp, due>>
  BY DEF TickEnd, fields
<1>2. TypeOK BY DEF WheelInv
<1>3. PICK rank : Ranked(rank) /\ Encodes(rank) BY DEF WheelInv
<1>4. Ranked(rank)' BY <1>1, <1>3, SameLists
<1>5. /\ cur_slot' \in Slots
      /\ \A s \in Slots : /\ s = cur_slot => Ahead(s)' = N - 1
                          /\ s # cur_slot => Ahead(s)' = Ahead(s) - 1
  BY <1>1, <1>2, NextSlot
<1>6. TypeOK' BY <1>1, <1>2, <1>5 DEF TypeOK
<1>7. WalkNotStale' /\ CallbackOf' /\ pc' # "destroyed"
  BY <1>1 DEF WalkNotStale, CallbackOf
<1>8. Encodes(rank)'
  <2> SUFFICES ASSUME NEW u \in alive
               PROVE  due[u] = count + 1 + rotation[u] * N
                        + (IF Passed(rank, u)' THEN N ELSE Ahead(time_slot[u])')
    BY <1>1 DEF Encodes
  <2>1. PICK s \in Slots : s = time_slot[u]
    BY <1>2 DEF TypeOK
  <2>2. Ahead(time_slot[u])' = Ahead(s)' BY <1>1, <2>1 DEF Ahead
  <2>3. ~Passed(rank, u)' BY <1>1 DEF Passed, InTick
  <2>4. Passed(rank, u) <=> s = cur_slot BY <1>1, <2>1 DEF Passed, InTick
  <2>5. due[u] = count + rotation[u] * N
                   + (IF Passed(rank, u) THEN N ELSE Ahead(s))
    BY <1>3, <2>1 DEF Encodes
  <2>6. /\ N \in Nat /\ count \in Nat /\ rotation[u] * N \in Nat
        /\ Ahead(s) \in Int
    <3>1. rotation[u] \in Nat /\ N \in Nat BY <1>2, WheelAssumption DEF TypeOK
    <3> QED BY <3>1, <1>2, <2>1 DEF TypeOK, Slots, Ahead
  <2> QED BY <1>5, <2>1, <2>2, <2>3, <2>4, <2>5, <2>6
<1> QED BY <1>4, <1>6, <1>7, <1>8 DEF WheelInv

-----------------------------------------------------------------------------
(* Walking a list from its head. *)

\* A nonempty set of naturals has a least element.
LEMMA Least ==
    ASSUME NEW S, S \subseteq Nat, S # {}
    PROVE  \E x \in S : \A y \in S : x <= y
<1> DEFINE R == OpToRel(<, Nat)
<1>1. \A a \in Nat, b \in Nat : a < b => <<a, b>> \in R BY DEF OpToRel
<1>2. IsWellFoundedOn(R, Nat) BY NatLessThanWellFounded
<1> HIDE DEF R
<1>3. PICK x \in S : \A y \in S : ~(<<y, x>> \in R) BY <1>2, WFMin
<1>4. \A y \in S : x <= y
  <2> SUFFICES ASSUME NEW y \in S PROVE x <= y OBVIOUS
  <2>1. ~(y < x) BY <1>1, <1>3
  <2> QED BY <2>1
<1> QED BY <1>4

\* Induction up to n, for a set instead of a predicate.
LEMMA Induction ==
    ASSUME NEW n \in Nat, NEW S, 0 \in S, \A k \in 0 .. n - 1 : k \in S => k + 1 \in S
    PROVE  \A k \in 0 .. n : k \in S
<1> SUFFICES ASSUME ~ (\A k \in 0 .. n : k \in S) PROVE FALSE OBVIOUS
<1> DEFINE C == {k \in 0 .. n : k \notin S}
<1>1. C \subseteq Nat /\ C # {} OBVIOUS
<1>2. PICK x \in C : \A y \in C : x <= y BY <1>1, Least
<1>3. x # 0 /\ x - 1 \in 0 .. n - 1 /\ x - 1 \in 0 .. n BY <1>2
<1>4. x - 1 \notin C BY <1>2, <1>3
<1>5. x - 1 \in S BY <1>3, <1>4
<1>6. (x - 1) + 1 \in S BY <1>3, <1>5
<1>7. x \in S BY <1>2, <1>6
<1> QED BY <1>2, <1>7

\* f lists the timers of slot s in the order of next, for k steps.
Walks(f, s, k) ==
    f = [i \in 0 .. k |-> IF i = 0 THEN slots[s]
                          ELSE IF f[i - 1] = NULL THEN NULL ELSE next[f[i - 1]]]

\* There is a walk of any length.
LEMMA WalkExists ==
    ASSUME NEW s, NEW n \in Nat PROVE \E f : Walks(f, s, n)
<1> DEFINE S == {k \in Nat : \E f : Walks(f, s, k)}
<1>1. 0 \in S
  <2> DEFINE g == [i \in 0 .. 0 |-> slots[s]]
  <2>1. g = [i \in 0 .. 0 |-> IF i = 0 THEN slots[s]
                              ELSE IF g[i - 1] = NULL THEN NULL ELSE next[g[i - 1]]]
    OBVIOUS
  <2> QED BY <2>1 DEF Walks
<1>2. ASSUME NEW k \in 0 .. n - 1, k \in S PROVE k + 1 \in S
  <2>1. PICK f : Walks(f, s, k) BY <1>2
  <2> DEFINE G(h) == [i \in 0 .. k + 1 |-> IF i = 0 THEN slots[s]
                          ELSE IF h[i - 1] = NULL THEN NULL ELSE next[h[i - 1]]]
  <2>2. /\ DOMAIN f = 0 .. k
        /\ \A i \in 0 .. k : f[i] = IF i = 0 THEN slots[s]
                          ELSE IF f[i - 1] = NULL THEN NULL ELSE next[f[i - 1]]
    BY <2>1 DEF Walks
  <2>3. \A i \in 0 .. k : f[i] = G(f)[i]
    BY <2>2
  <2>4. \A i \in 1 .. k + 1 : i - 1 \in 0 .. k BY <1>2
  <2>5. \A i \in 1 .. k + 1 : G(f)[i - 1] = f[i - 1] BY <2>3, <2>4
  <2>6. G(f) = G(G(f))
    <3>1. \A i \in 0 .. k + 1 : G(f)[i] = G(G(f))[i]
      <4> SUFFICES ASSUME NEW i \in 0 .. k + 1 PROVE G(f)[i] = G(G(f))[i] OBVIOUS
      <4>1. CASE i = 0 BY <4>1
      <4>2. CASE i # 0
        <5>1. i \in 1 .. k + 1 BY <4>2, <1>2
        <5>2. PICK g : g = G(f) OBVIOUS
        <5>3. g[i - 1] = f[i - 1] BY <5>1, <5>2, <2>5
        <5>4. G(g)[i] = G(f)[i] BY <5>3
        <5> QED BY <5>2, <5>4
      <4> QED BY <4>1, <4>2
    <3> QED BY <3>1
  <2> HIDE DEF G
  <2>7. PICK g : g = G(f) OBVIOUS
  <2>8. g = G(g) BY <2>6, <2>7
  <2>9. Walks(g, s, k + 1) BY <2>8 DEF Walks, G
  <2> QED BY <2>9, <1>2
<1>3. n \in S
  <2> HIDE DEF S
  <2>1. \A k \in 0 .. n : k \in S BY <1>1, <1>2, Induction
  <2> QED BY <2>1
<1> QED BY <1>3

\* The recursive function of ListOf is such a walk.
LEMMA ListOfIsWalk ==
    ASSUME NEW s
    PROVE  \E f : /\ Walks(f, s, Cardinality(Timers))
                  /\ ListOf(s) = {f[k] : k \in DOMAIN f} \ {NULL}
<1> DEFINE n == Cardinality(Timers)
           F(f) == [i \in 0 .. n |-> IF i = 0 THEN slots[s]
                          ELSE IF f[i - 1] = NULL THEN NULL ELSE next[f[i - 1]]]
           nth == CHOOSE f : f = F(f)
<1>1. ListOf(s) = {nth[k] : k \in DOMAIN nth} \ {NULL} BY DEF ListOf
<1>2. n \in Nat BY WheelAssumption, FS_CardinalityType
<1>3. PICK g : Walks(g, s, n) BY <1>2, WalkExists
<1>4. g = F(g) BY <1>3 DEF Walks
<1>5. nth = F(nth) BY <1>4
<1>6. Walks(nth, s, n) BY <1>5 DEF Walks
<1> HIDE DEF nth
<1> QED BY <1>1, <1>6

\* The destructor meets exactly the timers of the slot: a walk only goes through
\* timers of the slot, and one that misses a timer would have to go on in front of
\* it for more steps than there are timers.
LEMMA ListOfSlot ==
    ASSUME TypeOK, NEW rank, Ranked(rank), NEW s \in Slots
    PROVE  ListOf(s) = {t \in alive : time_slot[t] = s}
<1> DEFINE n == Cardinality(Timers)
           A == {t \in alive : time_slot[t] = s}
<1>1. n \in Nat /\ IsFiniteSet(Timers) /\ NULL \notin Timers
  BY WheelAssumption, FS_CardinalityType
<1>2. PICK f : /\ Walks(f, s, n)
               /\ ListOf(s) = {f[k] : k \in DOMAIN f} \ {NULL}
  BY ListOfIsWalk
<1> HIDE DEF n
<1>3. /\ DOMAIN f = 0 .. n
      /\ \A i \in 0 .. n : f[i] = IF i = 0 THEN slots[s]
                          ELSE IF f[i - 1] = NULL THEN NULL ELSE next[f[i - 1]]
  BY <1>2 DEF Walks
<1>4. f[0] = slots[s] BY <1>1, <1>3
<1>5. \A k \in 0 .. n - 1 : f[k + 1] = IF f[k] = NULL THEN NULL ELSE next[f[k]]
  <2> SUFFICES ASSUME NEW k \in 0 .. n - 1
               PROVE  f[k + 1] = IF f[k] = NULL THEN NULL ELSE next[f[k]]
    OBVIOUS
  <2>1. k + 1 \in 0 .. n /\ k + 1 # 0 /\ (k + 1) - 1 = k BY <1>1
  <2> QED BY <1>3, <2>1
<1>6. A \subseteq Timers BY DEF TypeOK
<1>7. ListOf(s) \subseteq A
  <2> DEFINE S == {k \in 0 .. n : f[k] \in A \cup {NULL}}
  <2>1. 0 \in S BY <1>1, <1>4 DEF Ranked, Heads
  <2>2. ASSUME NEW k \in 0 .. n - 1, k \in S PROVE k + 1 \in S
    <3>1. k + 1 \in 0 .. n BY <1>1
    <3>2. CASE f[k] = NULL BY <3>1, <3>2, <1>5
    <3>3. CASE f[k] \in A
      <4>1. f[k + 1] = next[f[k]] BY <3>3, <1>1, <1>5, <1>6
      <4>2. next[f[k]] \in A \cup {NULL} BY <3>3 DEF Ranked, Links, Same
      <4> QED BY <3>1, <4>1, <4>2
    <3> QED BY <2>2, <3>2, <3>3
  <2> HIDE DEF S
  <2>3. \A k \in 0 .. n : k \in S BY <1>1, <2>1, <2>2, Induction
  <2> QED BY <1>2, <1>3, <2>3 DEF S
<1>8. A \subseteq ListOf(s)
  <2> SUFFICES ASSUME NEW t \in A, t \notin ListOf(s) PROVE FALSE OBVIOUS
  <2> HIDE DEF A
  <2>1. \A k \in 0 .. n : f[k] # t BY <1>1, <1>2, <1>3, <1>6
  <2>2. t \in alive /\ t \in Timers /\ time_slot[t] = s BY <1>6 DEF A
  <2> DEFINE S == {k \in 0 .. n : /\ f[k] \in A /\ rank[f[k]] < rank[t]
                                  /\ \A j \in 0 .. n : j < k =>
                                       f[j] \in A /\ rank[f[j]] < rank[f[k]]}
  <2>3. \A u \in A : u \in Timers /\ rank[u] \in Int /\ u # NULL
    BY <1>1, <1>6 DEF Ranked
  <2>4. \A u \in A : rank[u] # rank[t] \/ u = t
    BY <2>2, <1>6 DEF Ranked, Order, Same, A
  <2>5. 0 \in S
    <3>1. slots[s] \in A /\ rank[slots[s]] <= rank[t]
      BY <2>2 DEF Ranked, Heads, A
    <3>2. rank[f[0]] < rank[t] BY <1>1, <1>4, <2>1, <2>3, <2>4, <3>1
    <3> QED BY <1>1, <1>4, <3>1, <3>2
  <2>6. ASSUME NEW k \in 0 .. n - 1, k \in S PROVE k + 1 \in S
    <3>1. PICK u : u = f[k] OBVIOUS
    <3>2. /\ u \in A /\ rank[u] < rank[t]
          /\ \A j \in 0 .. n : j < k => f[j] \in A /\ rank[f[j]] < rank[u]
      BY <2>6, <3>1
    <3>3. k + 1 \in 0 .. n /\ f[k + 1] = next[u]
      BY <1>1, <1>5, <2>3, <3>1, <3>2
    <3>4. next[u] # NULL /\ rank[next[u]] <= rank[t]
      BY <2>2, <2>3, <3>2 DEF Ranked, Order, Same, A
    <3>5. next[u] \in A /\ rank[u] < rank[next[u]]
      BY <3>2, <3>4 DEF Ranked, Links, Same, A
    <3>6. rank[next[u]] < rank[t]
      BY <2>1, <2>2, <2>3, <2>4, <3>3, <3>4, <3>5
    <3>7. ASSUME NEW j \in 0 .. n, j < k + 1
          PROVE  f[j] \in A /\ rank[f[j]] < rank[next[u]]
      <4>1. CASE j = k BY <3>1, <3>2, <3>5, <4>1
      <4>2. CASE j < k
        <5>1. f[j] \in A /\ rank[f[j]] < rank[u] BY <3>2, <4>2
        <5> QED BY <5>1, <2>3, <3>2, <3>5
      <4> QED BY <3>7, <4>1, <4>2
    <3> QED BY <3>3, <3>5, <3>6, <3>7
  <2> HIDE DEF S
  <2>7. \A k \in 0 .. n : k \in S BY <1>1, <2>5, <2>6, Induction
  <2>8. f \in [0 .. n -> Timers]
    BY <1>2, <1>3, <1>6, <2>7 DEF S, Walks
  <2>9. \A i, j \in 0 .. n : i < j => rank[f[i]] # rank[f[j]]
    BY <2>3, <2>7 DEF S
  <2>10. \A i, j \in 0 .. n : i # j => f[i] # f[j]
    BY <1>1, <2>9
  <2>11. IsFiniteSet(0 .. n) /\ Cardinality(0 .. n) = n + 1
    BY <1>1, FS_Interval
  <2>12. \E x, y \in 0 .. n : x # y /\ f[x] = f[y]
    <3>1. Cardinality(Timers) < Cardinality(0 .. n) BY <1>1, <2>11 DEF n
    <3> QED BY <1>1, <2>8, <2>11, <3>1, FS_PigeonHole
  <2> QED BY <2>10, <2>12
<1> QED BY <1>7, <1>8

\* The destructor frees every timer.
LEMMA DestroyFreesAll == ASSUME WheelInv, Destroy PROVE alive' = {}
<1>1. TypeOK BY DEF WheelInv
<1>2. PICK rank : Ranked(rank) BY DEF WheelInv
<1>3. \A s \in Slots : ListOf(s) = {t \in alive : time_slot[t] = s}
  BY <1>1, <1>2, ListOfSlot
<1>4. ASSUME NEW t \in alive PROVE t \in UNION {ListOf(s) : s \in Slots}
  <2>1. time_slot[t] \in Slots BY <1>1 DEF TypeOK
  <2>2. t \in ListOf(time_slot[t]) BY <1>3, <2>1
  <2> QED BY <2>1, <2>2
<1> QED BY <1>4 DEF Destroy

\* The destructor leaves no timer and no list.
LEMMA DestroyKeepsInv == ASSUME WheelInv, Destroy PROVE WheelInv'
<1>1. /\ alive' = {} /\ pc' = "destroyed" /\ slots' = [s \in Slots |-> NULL]
      /\ UNCHANGED <<cur_slot, rotation, time_slot, next, prev, tmp, count, due>>
  BY DestroyFreesAll DEF Destroy, fields
<1>2. TypeOK' BY <1>1 DEF WheelInv, TypeOK
<1>3. WalkNotStale' /\ CallbackOf' BY <1>1 DEF WalkNotStale, CallbackOf
<1> DEFINE r == [t \in Timers |-> 0]
<1>4. Ranked(r)' /\ Encodes(r)'
  BY <1>1 DEF Ranked, Heads, Links, Order, Same, Encodes
<1> QED BY <1>1, <1>2, <1>3, <1>4 DEF WheelInv

\* A step that changes nothing.
LEMMA StutterKeepsInv == ASSUME WheelInv, UNCHANGED vars PROVE WheelInv'
<1>1. UNCHANGED <<slots, cur_slot, alive, rotation, time_slot, next, prev, pc, tmp,
                  count, due>>
  BY DEF vars, fields
<1>2. PICK rank : Ranked(rank) /\ Encodes(rank) BY DEF WheelInv
<1>3. Ranked(rank)' BY <1>1, <1>2, SameLists
<1>4. \A u : /\ Passed(rank, u)' <=> Passed(rank, u)
             /\ Ahead(time_slot[u])' = Ahead(time_slot[u])
  BY <1>1 DEF Passed, InTick, Ahead
<1>5. Encodes(rank)' BY <1>1, <1>2, <1>4 DEF Encodes
<1>6. TypeOK' BY <1>1 DEF WheelInv, TypeOK
<1>7. WalkNotStale' /\ CallbackOf' /\ (pc' = "destroyed" => alive' = {})
  BY <1>1 DEF WheelInv, WalkNotStale, CallbackOf
<1> QED BY <1>3, <1>5, <1>6, <1>7 DEF WheelInv

\* Every step of the wheel keeps the invariant.
LEMMA NextKeepsInv == ASSUME WheelInv, [Next]_vars PROVE WheelInv'
<1>1. CASE TickBegin BY <1>1, BeginKeepsInv
<1>2. CASE TickDecrement BY <1>2, DecrementKeepsInv
<1>3. CASE TickCall BY <1>3, CallKeepsInv
<1>4. CASE CallbackReturn BY <1>4, ReturnKeepsInv
<1>5. CASE TickEnd BY <1>5, EndKeepsInv
<1>6. CASE Destroy BY <1>6, DestroyKeepsInv
<1>7. ASSUME NEW t \in Timers, NEW timeout \in Timeouts, add_timer(t, timeout)
      PROVE  WheelInv'
  BY <1>7, AddKeepsInv
<1>8. ASSUME NEW t \in Timers, del_timer(t) PROVE WheelInv'
  BY <1>8, DelKeepsInv
<1>9. CASE UNCHANGED vars BY <1>9, StutterKeepsInv
<1> QED BY <1>1, <1>2, <1>3, <1>4, <1>5, <1>6, <1>7, <1>8, <1>9 DEF Next

-----------------------------------------------------------------------------
(* The theorems. *)

\* The inductive invariant: each list is ordered, and slot and rotation encode
\* the tick at which a timer is due, seen from where tick() stands.
THEOREM WheelInvariant == Spec => []WheelInv
  BY WheelInit, NextKeepsInv, PTL DEF Spec

\* The pointer that tick() keeps across a callback is never stale, whatever the
\* callback adds and deletes (WalkNotStale).
THEOREM WalkNeverStale == Spec => []WalkNotStale
<1>1. WheelInv => WalkNotStale BY DEF WheelInv
<1> QED BY <1>1, WheelInvariant, PTL

\* The lists of the slots always hold exactly the allocated timers, with prev the
\* inverse of next, and the destructor frees all of them (ListsWellFormed).
THEOREM ListsAlwaysWellFormed == Spec => []ListsWellFormed
<1>1. ASSUME WheelInv PROVE ListsWellFormed
  <2>1. TypeOK BY <1>1 DEF WheelInv
  <2>2. PICK rank : Ranked(rank) BY <1>1 DEF WheelInv
  <2>3. \A s \in Slots : ListOf(s) = {t \in alive : time_slot[t] = s}
    BY <2>1, <2>2, ListOfSlot
  <2>4. \A t \in alive : /\ prev[t] = NULL <=> slots[time_slot[t]] = t
                         /\ next[t] # NULL => prev[next[t]] = t
                         /\ prev[t] # NULL => next[prev[t]] = t
    BY <2>2 DEF Ranked, Links
  <2>5. pc = "destroyed" => alive = {} BY <1>1 DEF WheelInv
  <2> QED BY <2>3, <2>4, <2>5 DEF ListsWellFormed
<1> QED BY <1>1, WheelInvariant, PTL

\* When a timer is due, as slot and rotation tell it.
LEMMA WhenDue ==
    ASSUME WheelInv, NEW t \in alive
    PROVE  /\ t \in Timers /\ due[t] \in Nat /\ count \in Nat
           /\ due[t] >= count
           /\ InTick /\ t = tmp /\ rotation[t] = 0 => due[t] = count
           /\ pc = "walk" /\ tmp = NULL => due[t] # count
<1>1. TypeOK BY DEF WheelInv
<1>2. PICK rank : Ranked(rank) /\ Encodes(rank) BY DEF WheelInv
<1>3. /\ t \in Timers /\ due[t] \in Nat /\ count \in Nat /\ rotation[t] \in Nat
      /\ N \in Nat \ {0} /\ rank[t] \in Int /\ NULL \notin Timers
      /\ time_slot[t] \in 0 .. N - 1 /\ cur_slot \in 0 .. N - 1
  BY <1>1, <1>2, WheelAssumption DEF TypeOK, Ranked, Slots
<1>4. /\ Ahead(time_slot[t]) \in Nat
      /\ Ahead(time_slot[t]) = 0 <=> time_slot[t] = cur_slot
  BY <1>3 DEF Ahead
<1>5. rotation[t] * N \in Nat /\ (rotation[t] = 0 => rotation[t] * N = 0)
  BY <1>3
<1>6. due[t] = count + rotation[t] * N
                 + (IF Passed(rank, t) THEN N ELSE Ahead(time_slot[t]))
  BY <1>2 DEF Encodes
<1>7. due[t] >= count BY <1>3, <1>4, <1>5, <1>6
<1>8. ASSUME InTick, t = tmp, rotation[t] = 0 PROVE due[t] = count
  <2>1. ~Passed(rank, t) BY <1>3, <1>8 DEF Passed
  <2>2. time_slot[t] = cur_slot
    BY <1>3, <1>8 DEF WheelInv, WalkNotStale, InTick
  <2> QED BY <1>3, <1>4, <1>5, <1>6, <1>8, <2>1, <2>2
<1>9. ASSUME pc = "walk", tmp = NULL PROVE due[t] # count
  <2>1. Passed(rank, t) <=> time_slot[t] = cur_slot
    BY <1>9 DEF Passed, InTick
  <2>2. CASE time_slot[t] = cur_slot
    <3>1. due[t] = count + rotation[t] * N + N BY <1>6, <2>1, <2>2
    <3> QED BY <1>3, <1>5, <3>1
  <2>3. CASE time_slot[t] # cur_slot
    <3>1. due[t] = count + rotation[t] * N + Ahead(time_slot[t]) BY <1>6, <2>1, <2>3
    <3>2. PICK a \in Nat, b \in Nat : a = Ahead(time_slot[t]) /\ b = rotation[t] * N
      BY <1>4, <1>5
    <3>3. due[t] = count + b + a /\ a # 0 BY <1>4, <2>3, <3>1, <3>2
    <3> QED BY <1>3, <3>2, <3>3
  <2> QED BY <2>2, <2>3
<1> QED BY <1>3, <1>7, <1>8, <1>9

\* No timer of the wheel is ever overdue, and the timer whose callback runs is due
\* at this very tick (NoneOverdue).
THEOREM NoneEverOverdue == Spec => []NoneOverdue
<1>1. ASSUME WheelInv PROVE NoneOverdue
  <2>1. \A t \in alive : due[t] >= count BY <1>1, WhenDue
  <2>2. pc = "callback" => tmp \in alive /\ due[tmp] = count
    BY <1>1, WhenDue DEF WheelInv, WalkNotStale, CallbackOf, InTick
  <2> QED BY <2>1, <2>2 DEF NoneOverdue, Timers_!NoneOverdue, Timers_!Pending
<1> QED BY <1>1, WheelInvariant, PTL

-----------------------------------------------------------------------------
(* The refinement. *)

\* The constructor leaves no timer in the wheel.
LEMMA InitRefines == Init => Timers_!Init
BY DEF Init, Timers_!Init

\* add_timer adds a timer at its tick.
LEMMA AddRefines ==
    ASSUME WheelInv, NEW t \in Timers, NEW timeout \in Timeouts, add_timer(t, timeout)
    PROVE  Timers_!Next
<1> DEFINE k == TicksOf(timeout)
<1>1. /\ pc \in {"idle", "callback"} /\ timeout >= 0 /\ t \notin alive
      /\ alive' = alive \cup {t} /\ pc' = pc /\ tmp' = tmp /\ count' = count
      /\ due' = [due EXCEPT ![t] = count + k
                   + (IF pc = "callback" /\ k % N = 0 THEN N ELSE 0)]
  BY DEF add_timer, ClientRuns
<1>2. k \in Nat BY <1>1, TicksOfNat
<1>3. k \in {TicksOf(x) : x \in {y \in Timeouts : y >= 0}} BY <1>1
<1> HIDE DEF k
<1>4. pc = "callback" => tmp # NULL BY DEF WheelInv, CallbackOf
<1>5. TypeOK BY DEF WheelInv
<1>6. /\ due'[t] = count + k + (IF pc = "callback" /\ k % N = 0 THEN N ELSE 0)
      /\ \A u \in alive : due'[u] = due[u]
  BY <1>1, <1>5 DEF TypeOK
<1>7. Timers_!Add(t, k)
  BY <1>1, <1>4, <1>6 DEF Timers_!Add, Timers_!Pending, Timers_!DueTick
<1> QED BY <1>2, <1>3, <1>7 DEF Timers_!Next

\* del_timer removes the timer.
LEMMA DelRefines ==
    ASSUME WheelInv, NEW t \in Timers, del_timer(t) PROVE Timers_!Next
<1>1. /\ t \in alive /\ (pc = "callback" => t # tmp) /\ pc \in {"idle", "callback"}
      /\ Free(t) /\ pc' = pc /\ tmp' = tmp /\ count' = count
  BY DEF del_timer, ClientRuns
<1>2. TypeOK BY DEF WheelInv
<1>3. pc = "callback" => tmp # NULL BY DEF WheelInv, CallbackOf
<1>4. alive' = alive \ {t} /\ \A u \in alive \ {t} : due'[u] = due[u]
  BY <1>1, <1>2, FreeFacts DEF TypeOK
<1>5. Timers_!Remove(t)
  BY <1>1, <1>3, <1>4, WheelAssumption DEF Timers_!Remove, Timers_!Pending
<1> QED BY <1>5 DEF Timers_!Next

\* The return of a callback finishes its timer.
LEMMA ReturnRefines == ASSUME WheelInv, CallbackReturn PROVE Timers_!Next
<1>1. pc = "callback" /\ Free(tmp) /\ pc' = "walk" /\ count' = count
  BY DEF CallbackReturn
<1>2. TypeOK /\ tmp \in Timers /\ tmp # NULL
  BY <1>1, WheelAssumption DEF WheelInv, CallbackOf, TypeOK
<1>3. alive' = alive \ {tmp} /\ \A u \in alive \ {tmp} : due'[u] = due[u]
  BY <1>1, <1>2, FreeFacts DEF TypeOK
<1>4. Timers_!Finish
  BY <1>1, <1>2, <1>3 DEF Timers_!Finish, Timers_!Pending
<1> QED BY <1>4 DEF Timers_!Next

\* tick() calls a timer that is due at this tick.
LEMMA CallRefines == ASSUME WheelInv, TickCall PROVE Timers_!Next
<1>1. /\ pc = "walk" /\ tmp # NULL /\ rotation[tmp] = 0 /\ pc' = "callback"
      /\ UNCHANGED <<alive, tmp, count, due>>
  BY DEF TickCall
<1>2. tmp \in alive BY <1>1 DEF WheelInv, WalkNotStale
<1>3. tmp \in Timers /\ due[tmp] = count BY <1>1, <1>2, WhenDue DEF InTick
<1>4. Timers_!Fire(tmp)
  BY <1>1, <1>2, <1>3 DEF Timers_!Fire, Timers_!Pending
<1> QED BY <1>3, <1>4 DEF Timers_!Next

\* tick() ends when no timer of this tick is left.
LEMMA EndRefines == ASSUME WheelInv, TickEnd PROVE Timers_!Next
<1>1. /\ pc = "walk" /\ tmp = NULL /\ count' = count + 1 /\ pc' = "idle"
      /\ UNCHANGED <<alive, due>>
  BY DEF TickEnd
<1>2. \A t \in alive : due[t] # count BY <1>1, WhenDue
<1>3. Timers_!EndTick
  BY <1>1, <1>2 DEF Timers_!EndTick, Timers_!Pending
<1> QED BY <1>3 DEF Timers_!Next

\* The destructor clears the wheel.
LEMMA DestroyRefines == ASSUME WheelInv, Destroy PROVE Timers_!Next
<1>1. pc = "idle" /\ pc' = "destroyed" /\ alive' = {} /\ count' = count
  BY DestroyFreesAll DEF Destroy
<1>2. Timers_!Clear BY <1>1 DEF Timers_!Clear
<1> QED BY <1>2 DEF Timers_!Next

\* Each action is one step of the tick timers, but for the step of tick() over a
\* timer that stays, which they do not see.
LEMMA NextRefines ==
    ASSUME WheelInv, [Next]_vars PROVE [Timers_!Next]_(Timers_!vars)
<1>1. CASE TickBegin
  <2>1. Timers_!BeginTick BY <1>1 DEF TickBegin, Timers_!BeginTick
  <2> QED BY <2>1 DEF Timers_!Next
<1>2. CASE TickDecrement BY <1>2 DEF TickDecrement, Timers_!vars
<1>3. CASE TickCall BY <1>3, CallRefines
<1>4. CASE CallbackReturn BY <1>4, ReturnRefines
<1>5. CASE TickEnd BY <1>5, EndRefines
<1>6. CASE Destroy BY <1>6, DestroyRefines
<1>7. ASSUME NEW t \in Timers, NEW timeout \in Timeouts, add_timer(t, timeout)
      PROVE  Timers_!Next
  BY <1>7, AddRefines
<1>8. ASSUME NEW t \in Timers, del_timer(t) PROVE Timers_!Next
  BY <1>8, DelRefines
<1>9. CASE UNCHANGED vars BY <1>9 DEF vars, fields, Timers_!vars
<1> QED BY <1>1, <1>2, <1>3, <1>4, <1>5, <1>6, <1>7, <1>8, <1>9 DEF Next

\* The wheel implements the tick timers: every timer fires exactly at the tick it
\* was added for, or is deleted before (ImplementsTickTimers).
THEOREM WheelRefinesTickTimers == Spec => ImplementsTickTimers
  BY WheelInit, NextKeepsInv, InitRefines, NextRefines, PTL
     DEF Spec, ImplementsTickTimers, Timers_!Spec
=============================================================================
