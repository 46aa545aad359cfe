--------------------------- MODULE TimeHeapProofs ---------------------------
(* Theorems about the min-heap timer container: after every operation its   *)
(* array is a heap that holds exactly the allocated timers, the timer that  *)
(* fires stays the root whatever its callback adds, and the container       *)
(* implements the timer queue.  The loops of add_timer, percolate_down and  *)
(* of the constructor are functions of the array; what they return is       *)
(* proved with an invariant of their rounds (RepeatKeeps): an array that is *)
(* ordered but at the hole, Rising for add_timer and Sinking for            *)
(* percolate_down.                                                          *)
EXTENDS TimeHeap, FiniteSetTheorems, FunctionTheorems, WellFoundedInduction, TLAPS

-----------------------------------------------------------------------------
(* Loops. *)

\* A nonempty set of naturals has a least element.
LEMMA Least ==
    ASSUME NEW S, S \subseteq Nat, S # {}
    PROVE  \E x \in S : \A y \in S : x <= y
<1> DEFINE R == OpToRel(<, Nat)
<1>1. \A a \in Nat, b \in Nat : a < b => <<a, b>> \in R BY DEF OpToRel
<1>2. IsWellFoundedOn(R, Nat) BY NatLessThanWellFounded
<1> HIDE DEF R
<1>3. PICK x \in S : \A y \in S : ~(<<y, x>> \in R) BY <1>2, WFMin
<1>4. \A y \in S : x <= y
  <2> SUFFICES ASSUME NEW y \in S PROVE x <= y OBVIOUS
  <2>1. ~(y < x) BY <1>1, <1>3
  <2> QED BY <2>1
<1> QED BY <1>4

\* Induction up to n, for a set instead of a predicate.
LEMMA Induction ==
    ASSUME NEW n \in Nat, NEW S, 0 \in S, \A k \in 0 .. n - 1 : k \in S => k + 1 \in S
    PROVE  \A k \in 0 .. n : k \in S
<1> SUFFICES ASSUME ~ (\A k \in 0 .. n : k \in S) PROVE FALSE OBVIOUS
<1> DEFINE C == {k \in 0 .. n : k \notin S}
<1>1. C \subseteq Nat /\ C # {} OBVIOUS
<1>2. PICK x \in C : \A y \in C : x <= y BY <1>1, Least
<1>3. x # 0 /\ x - 1 \in 0 .. n - 1 /\ x - 1 \in 0 .. n BY <1>2
<1>4. x - 1 \notin C BY <1>2, <1>3
<1>5. x - 1 \in S BY <1>3, <1>4
<1>6. (x - 1) + 1 \in S BY <1>3, <1>5
<1>7. x \in S BY <1>2, <1>6
<1> QED BY <1>2, <1>7

\* f gives what k rounds of a loop lead to.
Rounds(f, body, x, k) == f = [i \in 0 .. k |-> IF i = 0 THEN x ELSE body[f[i - 1]]]

\* A loop can go through any number of rounds.
LEMMA RoundsExist ==
    ASSUME NEW body, NEW x, NEW n \in Nat PROVE \E f : Rounds(f, body, x, n)
<1> DEFINE S == {k \in Nat : \E f : Rounds(f, body, x, k)}
<1>1. 0 \in S
  <2> DEFINE g == [i \in 0 .. 0 |-> x]
  <2>1. g = [i \in 0 .. 0 |-> IF i = 0 THEN x ELSE body[g[i - 1]]] OBVIOUS
  <2> QED BY <2>1 DEF Rounds
<1>2. ASSUME NEW k \in 0 .. n - 1, k \in S PROVE k + 1 \in S
  <2>1. PICK f : Rounds(f, body, x, k) BY <1>2
  <2> DEFINE G(h) == [i \in 0 .. k + 1 |-> IF i = 0 THEN x ELSE body[h[i - 1]]]
  <2>2. \A i \in 0 .. k : f[i] = IF i = 0 THEN x ELSE body[f[i - 1]]
    BY <2>1 DEF Rounds
  <2>3. \A i \in 0 .. k : f[i] = G(f)[i] BY <2>2
  <2>4. \A i \in 1 .. k + 1 : i - 1 \in 0 .. k BY <1>2
  <2>5. \A i \in 1 .. k + 1 : G(f)[i - 1] = f[i - 1] BY <2>3, <2>4
  <2>6. G(f) = G(G(f))
    <3>1. \A i \in 0 .. k + 1 : G(f)[i] = G(G(f))[i]
      <4> SUFFICES ASSUME NEW i \in 0 .. k + 1 PROVE G(f)[i] = G(G(f))[i] OBVIOUS
      <4>1. CASE i = 0 BY <4>1
      <4>2. CASE i # 0
        <5>1. i \in 1 .. k + 1 BY <4>2, <1>2
        <5>2. PICK g : g = G(f) OBVIOUS
        <5>3. g[i - 1] = f[i - 1] BY <5>1, <5>2, <2>5
        <5>4. G(g)[i] = G(f)[i] BY <5>3
        <5> QED BY <5>2, <5>4
      <4> QED BY <4>1, <4>2
    <3> QED BY <3>1
  <2> HIDE DEF G
  <2>7. PICK g : g = G(f) OBVIOUS
  <2>8. g = G(g) BY <2>6, <2>7
  <2>9. Rounds(g, body, x, k + 1) BY <2>8 DEF Rounds, G
  <2> QED BY <2>9, <1>2
<1>3. n \in S
  <2> HIDE DEF S
  <2>1. \A k \in 0 .. n : k \in S BY <1>1, <1>2, Induction
  <2> QED BY <2>1
<1> QED BY <1>3

\* The loop invariant, which may speak of the number of rounds: what holds before
\* the loop and is kept by every round holds after it.
LEMMA RepeatKeeps ==
    ASSUME NEW body, NEW x, NEW n \in Nat, NEW J, x \in J[0],
           \A k \in 0 .. n - 1 : \A s \in J[k] : body[s] \in J[k + 1]
    PROVE  Repeat(body, x, n) \in J[n]
<1> DEFINE F(f) == [k \in 0 .. n |-> IF k = 0 THEN x ELSE body[f[k - 1]]]
           round == CHOOSE f : f = F(f)
<1>1. Repeat(body, x, n) = round[n] BY DEF Repeat
<1>2. PICK g : Rounds(g, body, x, n) BY RoundsExist
<1>3. g = F(g) BY <1>2 DEF Rounds
<1>4. round = F(round) BY <1>3
<1> HIDE DEF round
<1>5. \A k \in 0 .. n : round[k] = IF k = 0 THEN x ELSE body[round[k - 1]]
  BY <1>4
<1> DEFINE S == {k \in 0 .. n : round[k] \in J[k]}
<1>6. 0 \in S BY <1>5
<1>7. ASSUME NEW k \in 0 .. n - 1, k \in S PROVE k + 1 \in S
  <2>1. k + 1 \in 0 .. n /\ k + 1 # 0 /\ (k + 1) - 1 = k OBVIOUS
  <2>2. round[k + 1] = body[round[k]] BY <1>5, <2>1
  <2> QED BY <1>7, <2>1, <2>2
<1> HIDE DEF S
<1>8. \A k \in 0 .. n : k \in S BY <1>6, <1>7, Induction
<1>9. n \in S BY <1>8
<1> QED BY <1>1, <1>9 DEF S

-----------------------------------------------------------------------------
(* Heaps of numbers, and of timers. *)

\* Parents and children in the array.
LEMMA ParentFacts ==
    ASSUME NEW i \in Nat, i > 0
    PROVE  /\ parent(i) \in Nat /\ parent(i) < i
           /\ i = 2 * parent(i) + 1 \/ i = 2 * parent(i) + 2
           /\ \A h \in Int : i = 2 * h + 1 \/ i = 2 * h + 2 => parent(i) = h
BY DEF parent

\* The same for a place of an array.
LEMMA ParentBelow ==
    ASSUME NEW m \in Nat, NEW i \in 1 .. m - 1
    PROVE  /\ parent(i) \in Nat /\ parent(i) < i /\ parent(i) \in 0 .. m - 1
           /\ i \in 0 .. m - 1
<1>1. i \in Nat /\ i > 0 /\ i < m OBVIOUS
<1>2. parent(i) \in Nat /\ parent(i) < i BY <1>1, ParentFacts
<1> QED BY <1>1, <1>2

\* e and g differ in that the entries h and p are exchanged.
Exchanged(e, g, m, h, p) ==
    /\ h \in 0 .. m - 1 /\ p \in 0 .. m - 1
    /\ g[h] = e[p] /\ g[p] = e[h]
    /\ \A i \in 0 .. m - 1 : i # h /\ i # p => g[i] = e[i]

\* While an entry rises from the end of the array, only it may be smaller than its
\* parent, and its children are not smaller than its parent.
Rising(e, h, m) ==
    /\ \A i \in 1 .. m - 1 : i # h => e[parent(i)] <= e[i]
    /\ h > 0 => \A i \in 1 .. m - 1 : parent(i) = h => e[parent(h)] <= e[i]

\* While an entry sinks below r, only its children may be smaller than their
\* parent, and they are not smaller than its parent.
Sinking(e, h, m, r) ==
    /\ \A i \in 1 .. m - 1 : parent(i) >= r /\ parent(i) # h => e[parent(i)] <= e[i]
    /\ h > 0 /\ parent(h) >= r =>
         \A i \in 1 .. m - 1 : parent(i) = h => e[parent(h)] <= e[i]

\* A round of the loop of add_timer.
LEMMA RiseStep ==
    ASSUME NEW m \in Nat, NEW e \in [0 .. m - 1 -> Nat], NEW g \in [0 .. m - 1 -> Nat],
           NEW h \in 1 .. m - 1, Rising(e, h, m), e[h] < e[parent(h)],
           Exchanged(e, g, m, h, parent(h))
    PROVE  Rising(g, parent(h), m)
<1> DEFINE p == parent(h)
<1>1. p \in Nat /\ p < h /\ p \in 0 .. m - 1 BY ParentBelow
<1>2. /\ g[h] = e[p] /\ g[p] = e[h] /\ e[h] < e[p]
      /\ \A i \in 0 .. m - 1 : i # h /\ i # p => g[i] = e[i]
  BY DEF Exchanged
<1>3. /\ \A i \in 1 .. m - 1 : i # h => e[parent(i)] <= e[i]
      /\ \A i \in 1 .. m - 1 : parent(i) = h => e[p] <= e[i]
  BY DEF Rising
<1>4. \A i \in 1 .. m - 1 : /\ parent(i) \in Nat /\ parent(i) < i /\ parent(i) \in 0 .. m - 1
                            /\ i \in 0 .. m - 1
  BY ParentBelow
<1>5. \A i \in 0 .. m - 1 : e[i] \in Nat /\ g[i] \in Nat OBVIOUS
<1> HIDE DEF p
<1>6. ASSUME NEW i \in 1 .. m - 1, i # p PROVE g[parent(i)] <= g[i]
  <2>1. CASE i = h BY <2>1, <1>1, <1>2, <1>5 DEF p
  <2>2. CASE i # h /\ parent(i) = h
    <3>1. g[parent(i)] = e[p] /\ g[i] = e[i] BY <2>2, <1>6, <1>2, <1>4
    <3> QED BY <3>1, <2>2, <1>3
  <2>3. CASE i # h /\ parent(i) = p
    <3>1. g[parent(i)] = e[h] /\ g[i] = e[i] BY <2>3, <1>6, <1>2, <1>4
    <3>2. e[p] <= e[i] BY <2>3, <1>3
    <3> QED BY <3>1, <3>2, <1>1, <1>2, <1>4, <1>5
  <2>4. CASE i # h /\ parent(i) # h /\ parent(i) # p
    <3>1. g[parent(i)] = e[parent(i)] /\ g[i] = e[i] BY <2>4, <1>6, <1>2, <1>4
    <3> QED BY <3>1, <2>4, <1>3
  <2> QED BY <2>1, <2>2, <2>3, <2>4
<1>7. ASSUME p > 0, NEW i \in 1 .. m - 1, parent(i) = p PROVE g[parent(p)] <= g[i]
  <2>1. /\ p \in 1 .. m - 1 /\ parent(p) \in 0 .. m - 1 /\ parent(p) < p /\ parent(p) # h
        /\ parent(p) # p
    <3>1. p \in 1 .. m - 1 BY <1>1, <1>7
    <3>2. parent(p) \in Nat /\ parent(p) < p /\ parent(p) \in 0 .. m - 1 BY <3>1, <1>4
    <3> QED BY <1>1, <3>1, <3>2
  <2>2. g[parent(p)] = e[parent(p)] BY <2>1, <1>2
  <2>3. e[parent(p)] <= e[p] BY <2>1, <1>1, <1>3
  <2>4. e[p] <= g[i]
    <3>1. CASE i = h BY <3>1, <1>2, <1>5, <1>1
    <3>2. CASE i # h
      <4>1. g[i] = e[i] BY <3>2, <1>2, <1>4, <1>7
      <4>2. e[p] <= e[i] BY <3>2, <1>3, <1>7
      <4> QED BY <4>1, <4>2
    <3> QED BY <3>1, <3>2
  <2> QED BY <2>1, <2>2, <2>3, <2>4, <1>1, <1>4, <1>5
<1> QED BY <1>6, <1>7 DEF Rising, p

\* A round of the loop of percolate_down.
LEMMA SinkStep ==
    ASSUME NEW m \in Nat, NEW e \in [0 .. m - 1 -> Nat], NEW g \in [0 .. m - 1 -> Nat],
           NEW r \in Nat, NEW h \in 0 .. m - 1, h >= r, Sinking(e, h, m, r),
           NEW c \in 1 .. m - 1, parent(c) = h, e[c] < e[h],
           \A i \in 1 .. m - 1 : parent(i) = h => e[c] <= e[i],
           Exchanged(e, g, m, h, c)
    PROVE  Sinking(g, c, m, r)
<1>1. h < c /\ h # c /\ c \in 0 .. m - 1 /\ c >= r
  <2>1. c \in Nat /\ c > 0 OBVIOUS
  <2>2. parent(c) < c BY <2>1, ParentFacts
  <2> QED BY <2>1, <2>2
<1>2. /\ g[h] = e[c] /\ g[c] = e[h] /\ e[c] < e[h]
      /\ \A i \in 0 .. m - 1 : i # h /\ i # c => g[i] = e[i]
  BY DEF Exchanged
<1>3. /\ \A i \in 1 .. m - 1 : parent(i) >= r /\ parent(i) # h => e[parent(i)] <= e[i]
      /\ h > 0 /\ parent(h) >= r =>
           \A i \in 1 .. m - 1 : parent(i) = h => e[parent(h)] <= e[i]
  BY DEF Sinking
<1>4. \A i \in 1 .. m - 1 : /\ parent(i) \in Nat /\ parent(i) < i /\ parent(i) \in 0 .. m - 1
                            /\ i \in 0 .. m - 1
  BY ParentBelow
<1>5. \A i \in 0 .. m - 1 : e[i] \in Nat /\ g[i] \in Nat OBVIOUS
<1>6. ASSUME NEW i \in 1 .. m - 1, parent(i) >= r, parent(i) # c PROVE g[parent(i)] <= g[i]
  <2>1. CASE i = c BY <2>1, <1>1, <1>2, <1>5
  <2>2. CASE i # c /\ parent(i) = h
    <3>1. i # h BY <2>2, <1>4
    <3>2. g[parent(i)] = e[c] /\ g[i] = e[i] BY <3>1, <2>2, <1>2, <1>4
    <3> QED BY <3>2, <2>2
  <2>3. CASE i = h
    <3>1. parent(h) \in 0 .. m - 1 /\ parent(h) # h /\ parent(h) # c /\ h > 0
      <4>1. parent(h) \in 0 .. m - 1 /\ parent(h) < h /\ h > 0 BY <2>3, <1>4
      <4> QED BY <4>1, <1>1
    <3>2. g[parent(i)] = e[parent(h)] /\ g[i] = e[c] BY <3>1, <2>3, <1>2
    <3>3. e[parent(h)] <= e[c] BY <3>1, <2>3, <1>3, <1>6
    <3> QED BY <3>2, <3>3
  <2>4. CASE i # c /\ i # h /\ parent(i) # h
    <3>1. g[parent(i)] = e[parent(i)] /\ g[i] = e[i] BY <2>4, <1>6, <1>2, <1>4
    <3> QED BY <3>1, <2>4, <1>3, <1>6
  <2> QED BY <2>1, <2>2, <2>3, <2>4
<1>7. ASSUME NEW i \in 1 .. m - 1, parent(i) = c PROVE g[parent(c)] <= g[i]
  <2>1. g[parent(c)] = e[c] BY <1>2
  <2>2. i # h /\ i # c BY <1>1, <1>4, <1>7
  <2>3. g[i] = e[i] BY <2>2, <1>2, <1>4
  <2>4. parent(i) >= r /\ parent(i) # h BY <1>1, <1>7
  <2>5. e[c] <= e[i] BY <1>3, <1>7, <2>4
  <2> QED BY <2>1, <2>3, <2>5
<1> QED BY <1>6, <1>7 DEF Sinking

\* The root of a heap is the smallest entry.
LEMMA RootIsLeast ==
    ASSUME NEW m \in Nat, NEW e \in [0 .. m - 1 -> Nat],
           \A i \in 1 .. m - 1 : e[parent(i)] <= e[i]
    PROVE  \A i \in 0 .. m - 1 : e[0] <= e[i]
<1> DEFINE S == {k \in 0 .. m : \A i \in 0 .. m - 1 : i <= k => e[0] <= e[i]}
<1>1. 0 \in S
  <2> SUFFICES ASSUME NEW i \in 0 .. m - 1, i <= 0 PROVE e[0] <= e[i] OBVIOUS
  <2>1. i = 0 /\ e[0] \in Nat OBVIOUS
  <2> QED BY <2>1
<1>2. ASSUME NEW k \in 0 .. m - 1, k \in S PROVE k + 1 \in S
  <2> SUFFICES ASSUME NEW i \in 0 .. m - 1, i = k + 1 PROVE e[0] <= e[i]
    BY <1>2
  <2>1. i \in 1 .. m - 1 /\ parent(i) \in 0 .. m - 1 /\ parent(i) <= k
    BY ParentFacts
  <2>2. e[0] <= e[parent(i)] BY <2>1, <1>2
  <2>3. e[parent(i)] <= e[i] BY <2>1
  <2>4. e[0] \in Nat /\ e[i] \in Nat /\ e[parent(i)] \in Nat BY <2>1
  <2> QED BY <2>2, <2>3, <2>4
<1> HIDE DEF S
<1>3. \A k \in 0 .. m : k \in S BY <1>1, <1>2, Induction
<1>4. m \in S BY <1>3
<1> QED BY <1>4 DEF S

\* The first m entries of c are the timers of S, each of them once.
Holds(c, m, S) ==
    /\ \A i \in 0 .. m - 1 : c[i] \in S
    /\ \A t \in S : \E i \in 0 .. m - 1 : c[i] = t
    /\ \A i, j \in 0 .. m - 1 : c[i] = c[j] => i = j

\* An exchange loses nothing.
LEMMA ExchangeHolds ==
    ASSUME NEW m \in Nat, NEW c, NEW d, NEW S, Holds(c, m, S), NEW h, NEW p,
           Exchanged(c, d, m, h, p)
    PROVE  Holds(d, m, S)
<1> DEFINE sw(i) == IF i = h THEN p ELSE IF i = p THEN h ELSE i
<1>1. \A i \in 0 .. m - 1 : sw(i) \in 0 .. m - 1 /\ d[i] = c[sw(i)] /\ sw(sw(i)) = i
  BY DEF Exchanged
<1>2. \A i \in 0 .. m - 1 : d[i] \in S BY <1>1 DEF Holds
<1>3. ASSUME NEW t \in S PROVE \E i \in 0 .. m - 1 : d[i] = t
  <2>1. PICK i \in 0 .. m - 1 : c[i] = t BY DEF Holds
  <2>2. sw(i) \in 0 .. m - 1 /\ d[sw(i)] = t BY <1>1, <2>1
  <2> QED BY <2>2
<1>4. ASSUME NEW i \in 0 .. m - 1, NEW j \in 0 .. m - 1, d[i] = d[j] PROVE i = j
  <2>1. c[sw(i)] = c[sw(j)] BY <1>1, <1>4
  <2>2. sw(i) = sw(j) BY <1>1, <2>1 DEF Holds
  <2> QED BY <1>1, <2>2
<1> QED BY <1>2, <1>3, <1>4 DEF Holds

-----------------------------------------------------------------------------
(* The loops of add_timer and percolate_down. *)

\* What heap_timer** array may be, with room for cap entries.
Arrays(cap) == [0 .. cap - 1 -> Timers \cup {NULL}]

\* The expiry times of the first m entries.
Times(c, m, exp) == [i \in 0 .. m - 1 |-> exp[c[i]]]

\* The first m entries are a heap.
Ordered(c, m, exp) == \A i \in 1 .. m - 1 : exp[c[parent(i)]] <= exp[c[i]]

\* The array of a loop with timer t in the hole.
Fill(s, t) == [s.arr EXCEPT ![s.hole] = t]

\* A round that moves an entry exchanges it with the timer in the hole.
LEMMA MoveExchanges ==
    ASSUME NEW cap \in Nat, NEW a \in Arrays(cap), NEW s \in Loops(a), NEW t \in Timers,
           s.hole \in 0 .. cap - 1, NEW i \in 0 .. cap - 1, i # s.hole
    PROVE  /\ MoveFrom(s, i) \in Loops(a) /\ MoveFrom(s, i).hole = i
           /\ \A m \in 0 .. cap : s.hole < m /\ i < m =>
                Exchanged(Fill(s, t), Fill(MoveFrom(s, i), t), m, s.hole, i)
<1>1. /\ DOMAIN a = 0 .. cap - 1
      /\ s.arr \in [0 .. cap - 1 -> Timers \cup {NULL}]
      /\ s = Loop(s.arr, s.hole)
  BY DEF Loops, Arrays, Loop
<1> DEFINE b == [s.arr EXCEPT ![s.hole] = s.arr[i]]
<1>2. b \in [0 .. cap - 1 -> Timers \cup {NULL}] BY <1>1
<1>3. MoveFrom(s, i) = [arr |-> b, hole |-> i] BY DEF MoveFrom, Loop
<1>4. MoveFrom(s, i) \in Loops(a) BY <1>1, <1>2, <1>3 DEF Loops
<1>5. Fill(MoveFrom(s, i), t) = [b EXCEPT ![i] = t] BY <1>3 DEF Fill
<1>6. /\ Fill(s, t)[s.hole] = t /\ Fill(s, t)[i] = s.arr[i]
      /\ \A j \in 0 .. cap - 1 : j # s.hole => Fill(s, t)[j] = s.arr[j]
  BY <1>1 DEF Fill
<1>7. /\ b[s.hole] = s.arr[i]
      /\ \A j \in 0 .. cap - 1 : j # s.hole => b[j] = s.arr[j]
  BY <1>1
<1>8. /\ [b EXCEPT ![i] = t][i] = t /\ [b EXCEPT ![i] = t][s.hole] = s.arr[i]
      /\ \A j \in 0 .. cap - 1 : j # i => [b EXCEPT ![i] = t][j] = b[j]
  BY <1>1, <1>2, <1>7
<1>9. PICK d : d = Fill(MoveFrom(s, i), t) OBVIOUS
<1>10. d[i] = t /\ d[s.hole] = s.arr[i]
      /\ \A j \in 0 .. cap - 1 : j # i /\ j # s.hole => d[j] = s.arr[j]
  BY <1>5, <1>7, <1>8, <1>9
<1>11. PICK c : c = Fill(s, t) OBVIOUS
<1>12. ASSUME NEW m \in 0 .. cap, s.hole < m, i < m PROVE Exchanged(c, d, m, s.hole, i)
  BY <1>6, <1>10, <1>11, <1>12 DEF Exchanged
<1>13. MoveFrom(s, i).hole = i BY <1>3
<1> QED BY <1>4, <1>9, <1>11, <1>12, <1>13

\* The expiry times are exchanged with the timers.
LEMMA TimesExchanged ==
    ASSUME NEW m \in Nat, NEW c, NEW d, NEW h, NEW p, NEW exp, Exchanged(c, d, m, h, p)
    PROVE  Exchanged(Times(c, m, exp), Times(d, m, exp), m, h, p)
BY DEF Exchanged, Times

\* The expiry times are naturals.
LEMMA TimesType ==
    ASSUME NEW m \in Nat, NEW c, NEW S, S \subseteq Timers, Holds(c, m, S),
           NEW exp \in [Timers -> Nat]
    PROVE  Times(c, m, exp) \in [0 .. m - 1 -> Nat]
<1>1. \A i \in 0 .. m - 1 : exp[c[i]] \in Nat BY DEF Holds
<1> QED BY <1>1 DEF Times

\* add_timer puts the new timer into the heap.  The root stays where it is unless
\* the new timer expires before it.
LEMMA SiftUpRight ==
    ASSUME NEW cap \in Nat, NEW a \in Arrays(cap), NEW h0 \in 0 .. cap - 1,
           NEW t \in Timers, NEW exp \in [Timers -> Nat],
           NEW S, S \subseteq Timers, t \notin S, Holds(a, h0, S), Ordered(a, h0, exp)
    PROVE  /\ SiftUp(a, h0, t, exp) \in Arrays(cap)
           /\ Holds(SiftUp(a, h0, t, exp), h0 + 1, S \cup {t})
           /\ Ordered(SiftUp(a, h0, t, exp), h0 + 1, exp)
           /\ h0 > 0 /\ exp[a[0]] <= exp[t] => SiftUp(a, h0, t, exp)[0] = a[0]
<1> DEFINE m == h0 + 1
           T == S \cup {t}
           c0 == [a EXCEPT ![h0] = t]
           Stops(s) == s.hole = 0 \/ exp[s.arr[parent(s.hole)]] <= exp[t]
           Good(s) == /\ s.hole \in 0 .. h0
                      /\ Holds(Fill(s, t), m, T)
                      /\ Rising(Times(Fill(s, t), m, exp), s.hole, m)
                      /\ s.hole > 0 => Fill(s, t)[0] = c0[0]
                      /\ s.hole = 0 /\ h0 > 0 => exp[t] < exp[a[0]]
           J == [k \in 0 .. h0 |->
                   {s \in Loops(a) : Good(s) /\ (s.hole <= h0 - k \/ Stops(s))}]
           body == SiftUpBody(a, t, exp)
<1>1. /\ cap \in Nat /\ h0 \in Nat /\ m \in 0 .. cap /\ T \subseteq Timers
      /\ DOMAIN a = 0 .. cap - 1
  BY DEF Arrays
<1>2. c0 \in Arrays(cap) /\ c0[h0] = t /\ \A i \in 0 .. cap - 1 : i # h0 => c0[i] = a[i]
  BY DEF Arrays
<1> HIDE DEF c0
<1>3. Loop(a, h0) \in Loops(a) /\ Fill(Loop(a, h0), t) = c0 /\ Loop(a, h0).hole = h0
  BY <1>1 DEF Loop, Loops, Fill, Arrays, c0
<1>4. Holds(c0, m, T)
  <2>1. \A i \in 0 .. m - 1 : i # h0 => i \in 0 .. h0 - 1 /\ c0[i] = a[i] BY <1>1, <1>2
  <2>2. \A i \in 0 .. m - 1 : c0[i] \in T BY <2>1, <1>2 DEF Holds
  <2>3. \A u \in T : \E i \in 0 .. m - 1 : c0[i] = u
    <3> SUFFICES ASSUME NEW u \in T PROVE \E i \in 0 .. m - 1 : c0[i] = u OBVIOUS
    <3>1. CASE u = t BY <3>1, <1>1, <1>2
    <3>2. CASE u # t
      <4>1. PICK i \in 0 .. h0 - 1 : a[i] = u BY <3>2 DEF Holds
      <4>2. i \in 0 .. m - 1 /\ c0[i] = u BY <4>1, <1>1, <1>2
      <4> QED BY <4>2
    <3> QED BY <3>1, <3>2
  <2>4. \A i, j \in 0 .. m - 1 : c0[i] = c0[j] => i = j
    BY <2>1, <1>2 DEF Holds
  <2> QED BY <2>2, <2>3, <2>4 DEF Holds
<1>5. Rising(Times(c0, m, exp), h0, m)
  <2>1. ASSUME NEW i \in 1 .. m - 1, i # h0
        PROVE  Times(c0, m, exp)[parent(i)] <= Times(c0, m, exp)[i]
    <3>1. i \in 1 .. h0 - 1 /\ i \in 0 .. m - 1 /\ parent(i) \in 0 .. m - 1
          /\ parent(i) # h0 /\ i \in 0 .. cap - 1 /\ parent(i) \in 0 .. cap - 1
      BY <1>1, <2>1, ParentFacts
    <3>2. exp[a[parent(i)]] <= exp[a[i]] BY <3>1 DEF Ordered
    <3>3. c0[i] = a[i] /\ c0[parent(i)] = a[parent(i)] BY <3>1, <1>2
    <3> QED BY <3>1, <3>2, <3>3 DEF Times
  <2>2. \A i \in 1 .. m - 1 : parent(i) # h0
    BY <1>1, ParentFacts
  <2> QED BY <2>1, <2>2 DEF Rising
<1>6. Loop(a, h0) \in J[0]
  <2>1. h0 = 0 => ~(h0 > 0) OBVIOUS
  <2>2. Good(Loop(a, h0)) BY <1>1, <1>3, <1>4, <1>5
  <2> HIDE DEF Good, Stops
  <2>3. J[0] = {s \in Loops(a) : Good(s) /\ (s.hole <= h0 - 0 \/ Stops(s))}
    BY <1>1
  <2> QED BY <1>1, <1>3, <2>2, <2>3
<1>7. ASSUME NEW k \in 0 .. h0 - 1, NEW s \in J[k] PROVE body[s] \in J[k + 1]
  <2>1. /\ s \in Loops(a) /\ Good(s) /\ (s.hole <= h0 - k \/ Stops(s))
        /\ k \in Nat /\ k + 1 \in 0 .. h0
    <3>1. k \in 0 .. h0 /\ k + 1 \in 0 .. h0 BY <1>1
    <3> HIDE DEF Good, Stops
    <3> QED BY <3>1, <1>7
  <2>2. body[s] = IF Stops(s) THEN s ELSE MoveFrom(s, parent(s.hole))
    BY <2>1 DEF SiftUpBody
  <2>3. CASE Stops(s)
    <3>1. body[s] = s BY <2>2, <2>3
    <3> HIDE DEF Good, Stops, body
    <3> QED BY <2>1, <2>3, <3>1
  <2>4. CASE ~Stops(s)
    <3>1. PICK h : h = s.hole OBVIOUS
    <3>2. PICK p : p = parent(h) OBVIOUS
    <3>3. PICK n : n = MoveFrom(s, p) OBVIOUS
    <3>4. /\ h \in 1 .. m - 1 /\ h <= h0 - k /\ p \in 0 .. m - 1 /\ p < h
          /\ h \in 0 .. cap - 1 /\ p \in 0 .. cap - 1 /\ h < m /\ p < m
      <4>1. h \in 1 .. h0 /\ h <= h0 - k BY <1>1, <2>1, <2>4, <3>1
      <4>2. h \in Nat /\ h > 0 /\ h \in 1 .. m - 1 /\ h < m BY <4>1, <1>1
      <4>3. p \in Nat /\ p < h BY <4>2, <3>2, ParentFacts
      <4>4. p < m /\ p \in 0 .. m - 1 BY <4>2, <4>3, <1>1
      <4>5. h \in 0 .. cap - 1 /\ p \in 0 .. cap - 1 BY <4>2, <4>3, <1>1
      <4> QED BY <4>1, <4>2, <4>3, <4>4, <4>5
    <3>5. /\ n \in Loops(a) /\ n.hole = p
          /\ Exchanged(Fill(s, t), Fill(n, t), m, h, p)
      BY <1>1, <2>1, <3>1, <3>3, <3>4, MoveExchanges
    <3>6. Holds(Fill(n, t), m, T) BY <1>1, <2>1, <3>5, ExchangeHolds
    <3> DEFINE e == Times(Fill(s, t), m, exp)
               g == Times(Fill(n, t), m, exp)
    <3>7. e \in [0 .. m - 1 -> Nat] /\ g \in [0 .. m - 1 -> Nat]
      BY <1>1, <2>1, <3>6, TimesType
    <3>8. Exchanged(e, g, m, h, p) BY <1>1, <3>5, TimesExchanged
    <3>9. s.arr \in [0 .. cap - 1 -> Timers \cup {NULL}] BY <1>1, <2>1 DEF Loops
    <3>10. Fill(s, t)[h] = t /\ Fill(s, t)[p] = s.arr[p]
      BY <3>1, <3>4, <3>9 DEF Fill
    <3>11. e[h] = exp[t] /\ e[p] = exp[s.arr[p]] /\ exp[t] \in Nat /\ e[p] \in Nat
      BY <3>4, <3>7, <3>10, <1>1 DEF Times
    <3>12. e[h] < e[p] BY <2>4, <3>1, <3>2, <3>11
    <3>13. Rising(g, p, m)
      <4>1. Rising(e, h, m) BY <2>1, <3>1
      <4> HIDE DEF e, g, m
      <4>2. m \in Nat BY <1>1 DEF m
      <4> QED BY <3>2, <3>4, <3>7, <3>8, <3>12, <4>1, <4>2, RiseStep
    <3>14. h > 0 => Fill(s, t)[0] = c0[0] BY <2>1, <3>1
    <3>15. p > 0 => Fill(n, t)[0] = c0[0]
      BY <3>4, <3>5, <3>14, <1>1 DEF Exchanged
    <3>16. p = 0 => exp[t] < exp[a[0]]
      <4>1. c0[0] = a[0] BY <1>1, <1>2, <3>4
      <4> QED BY <4>1, <3>4, <3>10, <3>11, <3>12, <3>14
    <3>17. Good(n) BY <1>1, <3>4, <3>5, <3>6, <3>13, <3>15, <3>16
    <3>18. n.hole <= h0 - (k + 1) BY <1>1, <2>1, <3>4, <3>5
    <3>19. body[s] = n BY <2>2, <2>4, <3>1, <3>2, <3>3
    <3> HIDE DEF Good, Stops, body
    <3> QED BY <2>1, <3>5, <3>17, <3>18, <3>19
  <2> QED BY <2>3, <2>4
<1>8. PICK s : s = Repeat(body, Loop(a, h0), h0) OBVIOUS
<1>9. s \in J[h0]
  <2> HIDE DEF J, body
  <2> QED BY <1>1, <1>6, <1>7, <1>8, RepeatKeeps
<1>10. s \in Loops(a) /\ Good(s) /\ Stops(s)
  <2>1. s \in Loops(a) /\ Good(s) /\ (s.hole <= h0 - h0 \/ Stops(s))
    <3> HIDE DEF Good, Stops
    <3> QED BY <1>1, <1>9
  <2> QED BY <1>1, <2>1
<1>11. SiftUp(a, h0, t, exp) = Fill(s, t) BY <1>8 DEF SiftUp, Fill
<1>12. PICK r : r = Fill(s, t) OBVIOUS
<1>13. s.arr \in [0 .. cap - 1 -> Timers \cup {NULL}] /\ s.hole \in 0 .. cap - 1
  BY <1>1, <1>10 DEF Loops
<1>14. r \in Arrays(cap) BY <1>12, <1>13 DEF Fill, Arrays
<1>15. Holds(r, m, T) BY <1>10, <1>12
<1>16. Ordered(r, m, exp)
  <2> SUFFICES ASSUME NEW i \in 1 .. m - 1 PROVE exp[r[parent(i)]] <= exp[r[i]]
    BY DEF Ordered
  <2>1. i \in 0 .. m - 1 /\ parent(i) \in 0 .. m - 1 /\ parent(i) < i /\ i \in 0 .. cap - 1
        /\ parent(i) \in 0 .. cap - 1
    BY <1>1, ParentFacts
  <2>2. CASE i # s.hole
    <3>1. Times(r, m, exp)[parent(i)] <= Times(r, m, exp)[i]
      BY <1>10, <1>12, <2>2 DEF Rising
    <3> QED BY <2>1, <3>1 DEF Times
  <2>3. CASE i = s.hole
    <3>1. r[i] = t /\ r[parent(i)] = s.arr[parent(i)]
      BY <1>12, <1>13, <2>1, <2>3 DEF Fill
    <3> QED BY <1>10, <2>3, <3>1
  <2> QED BY <2>2, <2>3
<1>17. ASSUME h0 > 0, exp[a[0]] <= exp[t] PROVE r[0] = a[0]
  <2>1. a[0] \in Timers BY <1>1, <1>17 DEF Holds
  <2>2. exp[a[0]] \in Nat /\ exp[t] \in Nat BY <2>1
  <2>3. s.hole > 0 BY <1>1, <1>10, <1>17, <2>2
  <2>4. r[0] = c0[0] BY <1>10, <1>12, <2>3
  <2> QED BY <2>4, <1>1, <1>2, <1>17
<1> QED BY <1>11, <1>12, <1>14, <1>15, <1>16, <1>17

\* The heap order below place r.
OrderedFrom(c, m, exp, r) ==
    \A i \in 1 .. m - 1 : parent(i) >= r => exp[c[parent(i)]] <= exp[c[i]]

\* percolate_down(h0) extends the heap order below h0 to h0.
LEMMA PercolateRight ==
    ASSUME NEW cap \in Nat, NEW a \in Arrays(cap), NEW h0 \in 0 .. cap - 1,
           NEW m \in 0 .. cap, m > 0 => h0 < m, NEW exp \in [Timers -> Nat],
           NEW S, S \subseteq Timers, Holds(a, m, S), OrderedFrom(a, m, exp, h0 + 1)
    PROVE  /\ percolate_down(a, m, h0, exp) \in Arrays(cap)
           /\ Holds(percolate_down(a, m, h0, exp), m, S)
           /\ OrderedFrom(percolate_down(a, m, h0, exp), m, exp, h0)
<1> DEFINE t == a[h0]
           child(s) == EarlierChild(s.arr, m, s.hole, exp)
           Moves(s) == 2 * s.hole + 1 < m /\ exp[s.arr[child(s)]] < exp[t]
           Good(s) == /\ s.hole \in h0 .. cap - 1
                      /\ Holds(Fill(s, t), m, S)
                      /\ Sinking(Times(Fill(s, t), m, exp), s.hole, m, h0)
           J == [k \in 0 .. m |->
                   {s \in Loops(a) : Good(s) /\ (s.hole >= h0 + k \/ ~Moves(s))}]
           body == PercolateBody(a, m, t, exp)
<1>1. /\ h0 \in Nat /\ m \in Nat /\ m <= cap /\ DOMAIN a = 0 .. cap - 1
      /\ m > 0 => t \in S /\ t \in Timers
  BY DEF Arrays, Holds
<1>2. /\ Loop(a, h0) \in Loops(a) /\ Loop(a, h0).hole = h0
      /\ Fill(Loop(a, h0), t) = a
  BY <1>1 DEF Loop, Loops, Fill, Arrays
<1>3. Sinking(Times(a, m, exp), h0, m, h0)
  <2>1. ASSUME NEW i \in 1 .. m - 1, parent(i) >= h0, parent(i) # h0
        PROVE  Times(a, m, exp)[parent(i)] <= Times(a, m, exp)[i]
    <3>1. i \in Nat /\ i > 0 /\ i \in 0 .. m - 1 BY <1>1
    <3>2. parent(i) \in Nat /\ parent(i) < i BY <3>1, ParentFacts
    <3>3. parent(i) \in 0 .. m - 1 /\ parent(i) >= h0 + 1 BY <1>1, <2>1, <3>1, <3>2
    <3>4. exp[a[parent(i)]] <= exp[a[i]] BY <3>3 DEF OrderedFrom
    <3> QED BY <3>1, <3>3, <3>4 DEF Times
  <2>2. h0 > 0 => ~(parent(h0) >= h0)
    <3>1. h0 > 0 => parent(h0) \in Nat /\ parent(h0) < h0 BY <1>1, ParentFacts
    <3> QED BY <1>1, <3>1
  <2> QED BY <2>1, <2>2 DEF Sinking
<1>4. Loop(a, h0) \in J[0]
  <2>1. Good(Loop(a, h0)) BY <1>1, <1>2, <1>3
  <2> HIDE DEF Good, Moves
  <2>2. J[0] = {s \in Loops(a) : Good(s) /\ (s.hole >= h0 + 0 \/ ~Moves(s))} BY <1>1
  <2> QED BY <1>1, <1>2, <2>1, <2>2
<1>5. ASSUME NEW s \in Loops(a), Good(s), 2 * s.hole + 1 < m
      PROVE  /\ child(s) \in 1 .. m - 1 /\ parent(child(s)) = s.hole
             /\ \A i \in 1 .. m - 1 : parent(i) = s.hole =>
                  exp[s.arr[child(s)]] <= exp[s.arr[i]]
             /\ s.hole \in 0 .. m - 1 /\ s.hole < child(s)
             /\ \A i \in 0 .. m - 1 : i # s.hole =>
                  s.arr[i] = Fill(s, t)[i] /\ exp[s.arr[i]] \in Nat
             /\ Fill(s, t)[s.hole] = t
  <2>1. PICK h : h = s.hole OBVIOUS
  <2>2. h \in 0 .. m - 1 /\ 2 * h + 1 < m /\ h \in 0 .. cap - 1 /\ h \in Nat
    BY <1>1, <1>5, <2>1
  <2>3. s.arr \in [0 .. cap - 1 -> Timers \cup {NULL}] BY <1>1, <1>5 DEF Loops
  <2>4. /\ Fill(s, t)[h] = t
        /\ \A i \in 0 .. m - 1 : i # h => s.arr[i] = Fill(s, t)[i]
    BY <1>1, <2>1, <2>2, <2>3 DEF Fill
  <2>5. \A i \in 0 .. m - 1 : Fill(s, t)[i] \in Timers BY <1>5 DEF Holds
  <2>6. \A i \in 0 .. m - 1 : i # h => exp[s.arr[i]] \in Nat BY <2>4, <2>5
  <2>7. PICK c : c = child(s) OBVIOUS
  <2>8. c = IF 2 * h + 1 + 1 < m /\ exp[s.arr[2 * h + 1 + 1]] < exp[s.arr[2 * h + 1]]
            THEN 2 * h + 1 + 1 ELSE 2 * h + 1
    BY <2>1, <2>7 DEF EarlierChild
  <2>9. c \in 1 .. m - 1 /\ h < c /\ (c = 2 * h + 1 \/ c = 2 * h + 2) BY <2>2, <2>8
  <2>10. parent(c) = h
    <3>1. c \in Nat /\ c > 0 BY <2>9, <1>1
    <3> QED BY <3>1, <2>2, <2>9, ParentFacts
  <2>11. ASSUME NEW i \in 1 .. m - 1, parent(i) = h PROVE exp[s.arr[c]] <= exp[s.arr[i]]
    <3>1. i \in Nat /\ i > 0 BY <1>1
    <3>2. i = 2 * h + 1 \/ i = 2 * h + 2 BY <2>11, <3>1, ParentFacts
    <3>3. PICK l : l = 2 * h + 1 OBVIOUS
    <3>4. l \in Nat /\ l > h /\ l < m /\ l + 1 # h BY <2>2, <3>3
    <3>5. exp[s.arr[l]] \in Nat /\ (l + 1 < m => exp[s.arr[l + 1]] \in Nat)
      BY <1>1, <2>6, <3>4
    <3>6. c = IF l + 1 < m /\ exp[s.arr[l + 1]] < exp[s.arr[l]] THEN l + 1 ELSE l
      BY <2>8, <3>3
    <3>7. i = l \/ (i = l + 1 /\ l + 1 < m) BY <1>1, <2>2, <3>2, <3>3
    <3> QED BY <3>5, <3>6, <3>7
  <2> QED BY <2>1, <2>2, <2>4, <2>6, <2>7, <2>9, <2>10, <2>11
<1>6. ASSUME NEW k \in 0 .. m - 1, NEW s \in J[k] PROVE body[s] \in J[k + 1]
  <2>1. /\ s \in Loops(a) /\ Good(s) /\ (s.hole >= h0 + k \/ ~Moves(s))
        /\ k \in Nat /\ k + 1 \in 0 .. m
    <3>1. k \in 0 .. m /\ k + 1 \in 0 .. m BY <1>1
    <3> HIDE DEF Good, Moves
    <3> QED BY <3>1, <1>6
  <2>2. body[s] = IF Moves(s) THEN MoveFrom(s, child(s)) ELSE s
    BY <2>1 DEF PercolateBody
  <2>3. CASE ~Moves(s)
    <3>1. body[s] = s BY <2>2, <2>3
    <3> HIDE DEF Good, Moves, body
    <3> QED BY <2>1, <2>3, <3>1
  <2>4. CASE Moves(s)
    <3>1. PICK h : h = s.hole OBVIOUS
    <3>2. PICK c : c = child(s) OBVIOUS
    <3>3. PICK n : n = MoveFrom(s, c) OBVIOUS
    <3>4. /\ c \in 1 .. m - 1 /\ parent(c) = h /\ h \in 0 .. m - 1 /\ h < c
          /\ \A i \in 1 .. m - 1 : parent(i) = h => exp[s.arr[c]] <= exp[s.arr[i]]
          /\ \A i \in 0 .. m - 1 : i # h => s.arr[i] = Fill(s, t)[i] /\ exp[s.arr[i]] \in Nat
          /\ Fill(s, t)[h] = t
      <4>1. 2 * s.hole + 1 < m BY <2>4
      <4> HIDE DEF child, Good
      <4> QED BY <1>5, <2>1, <3>1, <3>2, <4>1
    <3>5. h \in h0 .. cap - 1 /\ h >= h0 + k /\ c \in 0 .. cap - 1 /\ h \in 0 .. cap - 1
          /\ c # h /\ m \in 0 .. cap /\ h < m /\ c < m /\ t \in Timers
      <4>1. h >= h0 + k BY <2>1, <2>4, <3>1
      <4>2. m \in 0 .. cap /\ t \in Timers /\ h0 \in Nat /\ cap \in Nat /\ m \in Nat BY <1>1
      <4>3. h < m /\ c < m /\ c # h /\ h \in Nat /\ c \in Nat BY <3>4, <4>2
      <4> HIDE DEF t
      <4> QED BY <2>1, <4>1, <4>2, <4>3
    <3>6. /\ n \in Loops(a) /\ n.hole = c
          /\ Exchanged(Fill(s, t), Fill(n, t), m, h, c)
      <4> HIDE DEF t
      <4> QED BY <1>1, <2>1, <3>1, <3>3, <3>5, MoveExchanges
    <3>7. Holds(Fill(n, t), m, S) BY <1>1, <2>1, <3>6, ExchangeHolds
    <3> DEFINE e == Times(Fill(s, t), m, exp)
               g == Times(Fill(n, t), m, exp)
    <3>8. e \in [0 .. m - 1 -> Nat] /\ g \in [0 .. m - 1 -> Nat]
      BY <1>1, <2>1, <3>7, TimesType
    <3>9. Exchanged(e, g, m, h, c) BY <1>1, <3>6, TimesExchanged
    <3>10. e[h] = exp[t] /\ \A i \in 0 .. m - 1 : i # h => e[i] = exp[s.arr[i]]
      BY <3>4 DEF Times
    <3>11. e[c] < e[h]
      <4>1. exp[s.arr[c]] < exp[t] BY <2>4, <3>2
      <4>2. c \in 0 .. m - 1 BY <3>4, <1>1
      <4> QED BY <4>1, <4>2, <3>5, <3>10
    <3>12. ASSUME NEW i \in 1 .. m - 1, parent(i) = h PROVE e[c] <= e[i]
      <4>1. i \in Nat /\ i > 0 /\ i \in 0 .. m - 1 /\ c \in 0 .. m - 1 BY <1>1, <3>4
      <4>2. i # h BY <4>1, <3>12, ParentFacts
      <4> QED BY <4>1, <4>2, <3>4, <3>5, <3>10, <3>12
    <3>13. Sinking(g, c, m, h0)
      <4>1. Sinking(e, h, m, h0) /\ h >= h0 BY <2>1, <3>1, <3>5
      <4> HIDE DEF e, g
      <4> QED BY <1>1, <3>4, <3>8, <3>9, <3>11, <3>12, <4>1, SinkStep
    <3>14. Good(n) BY <1>1, <3>4, <3>5, <3>6, <3>7, <3>13
    <3>15. n.hole >= h0 + (k + 1) BY <1>1, <2>1, <3>4, <3>5, <3>6
    <3>16. body[s] = n BY <2>2, <2>4, <3>2, <3>3
    <3> HIDE DEF Good, Moves, body
    <3> QED BY <2>1, <3>6, <3>14, <3>15, <3>16
  <2> QED BY <2>3, <2>4
<1>7. PICK s : s = Repeat(body, Loop(a, h0), m) OBVIOUS
<1>8. s \in J[m]
  <2> HIDE DEF J, body
  <2> QED BY <1>1, <1>4, <1>6, <1>7, RepeatKeeps
<1>9. s \in Loops(a) /\ Good(s) /\ ~Moves(s)
  <2>1. s \in Loops(a) /\ Good(s) /\ (s.hole >= h0 + m \/ ~Moves(s))
    <3> HIDE DEF Good, Moves
    <3> QED BY <1>1, <1>8
  <2>2. s.hole >= h0 + m => ~Moves(s)
    <3>1. s.hole \in Nat BY <1>1, <2>1
    <3> QED BY <1>1, <3>1
  <2> QED BY <2>1, <2>2
<1>10. percolate_down(a, m, h0, exp) = Fill(s, t) BY <1>7 DEF percolate_down, Fill
<1>11. PICK r : r = Fill(s, t) OBVIOUS
<1>12. /\ s.arr \in [0 .. cap - 1 -> Timers \cup {NULL}] /\ s.hole \in 0 .. cap - 1
       /\ t \in Timers \cup {NULL}
  BY <1>1, <1>9 DEF Loops, Arrays
<1>13. r \in Arrays(cap) BY <1>11, <1>12 DEF Fill, Arrays
<1>14. Holds(r, m, S) BY <1>9, <1>11
<1>15. OrderedFrom(r, m, exp, h0)
  <2> SUFFICES ASSUME NEW i \in 1 .. m - 1, parent(i) >= h0
               PROVE  exp[r[parent(i)]] <= exp[r[i]]
    BY DEF OrderedFrom
  <2>1. i \in Nat /\ i > 0 /\ i \in 0 .. m - 1 BY <1>1
  <2>2. parent(i) \in Nat /\ parent(i) < i /\ (i = 2 * parent(i) + 1 \/ i = 2 * parent(i) + 2)
    BY <2>1, ParentFacts
  <2>3. parent(i) \in 0 .. m - 1 BY <1>1, <2>1, <2>2
  <2>4. CASE parent(i) # s.hole
    <3>1. Times(r, m, exp)[parent(i)] <= Times(r, m, exp)[i]
      BY <1>9, <1>11, <2>4 DEF Sinking
    <3> QED BY <2>1, <2>3, <3>1 DEF Times
  <2>5. CASE parent(i) = s.hole
    <3>1. 2 * s.hole + 1 < m BY <1>1, <2>1, <2>2, <2>5
    <3>2. PICK c : c = child(s) OBVIOUS
    <3>3. /\ c \in 1 .. m - 1 /\ s.hole < c /\ s.hole \in 0 .. m - 1
          /\ exp[s.arr[c]] <= exp[s.arr[i]]
          /\ \A j \in 0 .. m - 1 : j # s.hole =>
                  s.arr[j] = Fill(s, t)[j] /\ exp[s.arr[j]] \in Nat
          /\ Fill(s, t)[s.hole] = t
      <4> HIDE DEF child, Good
      <4> QED BY <1>5, <1>9, <2>5, <3>1, <3>2
    <3>4. ~(exp[s.arr[c]] < exp[t]) BY <1>9, <3>1, <3>2
    <3>5. exp[t] \in Nat BY <1>1, <2>1
    <3>6. i # s.hole /\ c \in 0 .. m - 1 /\ c # s.hole BY <1>1, <2>2, <2>5, <3>3
    <3>7. exp[s.arr[c]] \in Nat /\ exp[s.arr[i]] \in Nat /\ r[i] = s.arr[i] /\ r[s.hole] = t
      BY <1>11, <2>1, <3>3, <3>6
    <3>8. exp[t] <= exp[s.arr[i]] BY <3>3, <3>4, <3>5, <3>7
    <3> QED BY <2>5, <3>7, <3>8
  <2> QED BY <2>4, <2>5
<1> QED BY <1>10, <1>11, <1>13, <1>14, <1>15

\* The second constructor makes a heap of the timers it is given, in any order.
LEMMA HeapifyRight ==
    ASSUME NEW cap \in Nat, NEW a \in Arrays(cap), NEW m \in 1 .. cap,
           NEW exp \in [Timers -> Nat], NEW S, S \subseteq Timers, Holds(a, m, S)
    PROVE  /\ Heapify(a, m, exp) \in Arrays(cap)
           /\ Holds(Heapify(a, m, exp), m, S)
           /\ Ordered(Heapify(a, m, exp), m, exp)
<1> DEFINE last == (m - 1) \div 2
           body == [s \in Loops(a) |->
                      Loop(percolate_down(s.arr, m, s.hole, exp), s.hole - 1)]
           J == [k \in 0 .. last + 1 |->
                   {s \in Loops(a) : /\ s.hole = last - k
                                     /\ Holds(s.arr, m, S)
                                     /\ OrderedFrom(s.arr, m, exp, s.hole + 1)}]
<1>1. /\ m \in Nat /\ m > 0 /\ m <= cap /\ DOMAIN a = 0 .. cap - 1
      /\ last \in 0 .. m - 1
  BY DEF Arrays
<1>2. \A i \in 1 .. m - 1 : ~(parent(i) >= last + 1) BY <1>1 DEF parent
<1> HIDE DEF last
<1>3. Loop(a, last) \in Loops(a) /\ Loop(a, last).arr = a /\ Loop(a, last).hole = last
  BY <1>1 DEF Loop, Loops, Arrays
<1>4. Loop(a, last) \in J[0]
  <2>1. J[0] = {s \in Loops(a) : /\ s.hole = last - 0
                                 /\ Holds(s.arr, m, S)
                                 /\ OrderedFrom(s.arr, m, exp, s.hole + 1)}
    BY <1>1
  <2>2. OrderedFrom(a, m, exp, last + 1) BY <1>2 DEF OrderedFrom
  <2> QED BY <1>1, <1>3, <2>1, <2>2
<1>5. ASSUME NEW k \in 0 .. last, NEW s \in J[k] PROVE body[s] \in J[k + 1]
  <2>1. /\ s \in Loops(a) /\ s.hole = last - k /\ Holds(s.arr, m, S)
        /\ OrderedFrom(s.arr, m, exp, s.hole + 1)
        /\ k \in Nat /\ k + 1 \in 0 .. last + 1
    <3>1. k \in 0 .. last + 1 /\ k + 1 \in 0 .. last + 1 BY <1>1
    <3> QED BY <3>1, <1>5
  <2>2. /\ s.arr \in Arrays(cap) /\ s.hole \in 0 .. cap - 1 /\ s.hole < m
        /\ s.hole \in 0 .. last
    BY <1>1, <2>1 DEF Loops, Arrays
  <2>3. PICK r : r = percolate_down(s.arr, m, s.hole, exp) OBVIOUS
  <2>4. r \in Arrays(cap) /\ Holds(r, m, S) /\ OrderedFrom(r, m, exp, s.hole)
    BY <1>1, <2>1, <2>2, <2>3, PercolateRight
  <2>5. body[s] = [arr |-> r, hole |-> s.hole - 1] BY <2>1, <2>3 DEF Loop
  <2>6. [arr |-> r, hole |-> s.hole - 1] \in Loops(a)
    BY <1>1, <2>2, <2>4 DEF Loops, Arrays
  <2>7. (s.hole - 1) + 1 = s.hole /\ s.hole - 1 = last - (k + 1) BY <1>1, <2>1, <2>2
  <2> HIDE DEF body
  <2> QED BY <2>1, <2>4, <2>5, <2>6, <2>7
<1>6. PICK s : s = Repeat(body, Loop(a, last), last + 1) OBVIOUS
<1>7. s \in J[last + 1]
  <2> HIDE DEF J, body
  <2>1. last + 1 \in Nat /\ (last + 1) - 1 = last BY <1>1
  <2> QED BY <1>4, <1>5, <1>6, <2>1, RepeatKeeps
<1>8. /\ s \in Loops(a) /\ s.hole = last - (last + 1) /\ Holds(s.arr, m, S)
      /\ OrderedFrom(s.arr, m, exp, s.hole + 1)
  BY <1>1, <1>7
<1>9. s.hole + 1 = 0 BY <1>1, <1>8
<1>10. Heapify(a, m, exp) = s.arr BY <1>6 DEF Heapify, last
<1>11. Ordered(s.arr, m, exp)
  <2>1. \A i \in 1 .. m - 1 : parent(i) >= 0 BY <1>1, ParentFacts
  <2> QED BY <1>8, <1>9, <2>1 DEF Ordered, OrderedFrom
<1> QED BY <1>1, <1>8, <1>10, <1>11 DEF Loops, Arrays

\* pop_timer takes the root out of the heap.
LEMMA PopRight ==
    ASSUME NEW cap \in Nat, NEW a \in Arrays(cap), NEW m \in 1 .. cap,
           NEW exp \in [Timers -> Nat], NEW S, S \subseteq Timers, Holds(a, m, S),
           Ordered(a, m, exp),
           NEW r, r = percolate_down([a EXCEPT ![0] = a[m - 1]], m - 1, 0, exp)
    PROVE  /\ r \in Arrays(cap)
           /\ Holds(r, m - 1, S \ {a[0]})
           /\ Ordered(r, m - 1, exp)
<1> DEFINE b == [a EXCEPT ![0] = a[m - 1]]
           T == S \ {a[0]}
<1>1. /\ m \in Nat /\ m > 0 /\ m - 1 \in 0 .. cap /\ 0 \in 0 .. cap - 1
      /\ m - 1 \in 0 .. cap - 1
      /\ T \subseteq Timers
  OBVIOUS
<1>2. b \in Arrays(cap) /\ b[0] = a[m - 1] /\ \A i \in 0 .. cap - 1 : i # 0 => b[i] = a[i]
  BY <1>1 DEF Arrays
<1> HIDE DEF b
<1>3. /\ \A i \in 0 .. m - 1 : a[i] \in S
      /\ \A t \in S : \E i \in 0 .. m - 1 : a[i] = t
      /\ \A i, j \in 0 .. m - 1 : a[i] = a[j] => i = j
  BY DEF Holds
<1> DEFINE from(i) == IF i = 0 THEN m - 1 ELSE i
<1>4. \A i \in 0 .. (m - 1) - 1 :
         from(i) \in 1 .. m - 1 /\ from(i) \in 0 .. m - 1 /\ b[i] = a[from(i)]
  BY <1>1, <1>2
<1>5. Holds(b, m - 1, T)
  <2>1. \A i \in 0 .. (m - 1) - 1 : b[i] \in T
    <3> SUFFICES ASSUME NEW i \in 0 .. (m - 1) - 1 PROVE b[i] \in T OBVIOUS
    <3>1. PICK j : j = from(i) OBVIOUS
    <3>2. j \in 1 .. m - 1 /\ j \in 0 .. m - 1 /\ b[i] = a[j] /\ j # 0 /\ 0 \in 0 .. m - 1
      BY <1>1, <1>4, <3>1
    <3> QED BY <3>2, <1>3
  <2>2. ASSUME NEW t \in T PROVE \E i \in 0 .. (m - 1) - 1 : b[i] = t
    <3>1. PICK j \in 0 .. m - 1 : a[j] = t BY <1>3
    <3>2. j # 0 BY <3>1
    <3>3. CASE j = m - 1
      <4>1. 0 \in 0 .. (m - 1) - 1 /\ b[0] = t BY <1>1, <1>2, <3>1, <3>2, <3>3
      <4> QED BY <4>1
    <3>4. CASE j # m - 1
      <4>1. j \in 0 .. (m - 1) - 1 /\ b[j] = t BY <1>1, <1>2, <3>1, <3>2, <3>4
      <4> QED BY <4>1
    <3> QED BY <3>3, <3>4
  <2>3. ASSUME NEW i \in 0 .. (m - 1) - 1, NEW j \in 0 .. (m - 1) - 1, b[i] = b[j]
        PROVE  i = j
    <3>1. a[from(i)] = a[from(j)] BY <1>4, <2>3
    <3>2. from(i) = from(j)
      <4> HIDE DEF from
      <4> QED BY <1>3, <1>4, <3>1
    <3> QED BY <1>1, <3>2
  <2> QED BY <2>1, <2>2, <2>3 DEF Holds
<1>6. OrderedFrom(b, m - 1, exp, 0 + 1)
  <2> SUFFICES ASSUME NEW i \in 1 .. (m - 1) - 1, parent(i) >= 1
               PROVE  exp[b[parent(i)]] <= exp[b[i]]
    BY DEF OrderedFrom
  <2>1. i \in Nat /\ i > 0 /\ i \in 1 .. m - 1 /\ i \in 0 .. cap - 1 BY <1>1
  <2>2. parent(i) \in Nat /\ parent(i) < i BY <2>1, ParentFacts
  <2>3. b[i] = a[i] /\ b[parent(i)] = a[parent(i)] BY <1>1, <1>2, <2>1, <2>2
  <2> QED BY <2>1, <2>3 DEF Ordered
<1>7. m - 1 > 0 => 0 < m - 1 OBVIOUS
<1>8. /\ r \in Arrays(cap) /\ Holds(r, m - 1, T) /\ OrderedFrom(r, m - 1, exp, 0)
  <2>1. r = percolate_down(b, m - 1, 0, exp) BY DEF b
  <2> HIDE DEF T
  <2> QED BY <1>1, <1>2, <1>5, <1>6, <1>7, <2>1, PercolateRight
<1>9. Ordered(r, m - 1, exp)
  <2>1. \A i \in 1 .. (m - 1) - 1 : parent(i) >= 0 BY <1>1, ParentFacts
  <2> QED BY <1>8, <2>1 DEF Ordered, OrderedFrom
<1> QED BY <1>8, <1>9

-----------------------------------------------------------------------------
(* The inductive invariant. *)

\* The state keeps its types.
TypeOK ==
    /\ now \in Nat
    /\ alive \subseteq Timers
    /\ expire \in [Timers -> Nat]
    /\ cb_func \in [Timers -> BOOLEAN]
    /\ capacity \in Nat \ {0}
    /\ cur_size \in 0 .. capacity
    /\ array \in Arrays(capacity)
    /\ pc \in {"idle", "tick", "callback", "destroyed"}
    /\ tmp \in Timers \cup {NULL}
    /\ cur \in Nat
    /\ fired \in Timers \cup {NULL}
    /\ lastDue \in Nat

\* What tick() holds is the root; a callback runs for the root, which was due when
\* the tick started.
TopOfTick == pc = "tick" /\ cur_size > 0 => tmp = array[0]
RootFires == pc = "callback" => cur_size > 0 /\ array[0] = fired /\ expire[fired] <= cur

\* Nothing fired before its time, and what is left is due no earlier.
InTime == cur <= now /\ lastDue <= now /\ \A t \in alive : lastDue <= expire[t]

\* The inductive invariant.
HeapInv ==
    /\ TypeOK
    /\ Holds(array, cur_size, alive)
    /\ Ordered(array, cur_size, expire)
    /\ TopOfTick /\ RootFires /\ InTime

\* The constructors establish it.
LEMMA HeapInit == Init => HeapInv
<1> SUFFICES ASSUME Init PROVE HeapInv OBVIOUS
<1>1. /\ now = 0 /\ pc = "idle" /\ tmp = NULL /\ cur = 0 /\ fired = NULL /\ lastDue = 0
      /\ cb_func = [t \in Timers |-> t \in alive]
      /\ capacity \in Nat \ {0}
  BY CapacitiesAssumption DEF Init
<1>2. Cardinality(Timers) \in Nat BY TimersAssumption, FS_CardinalityType
<1>3. cur_size \in Nat BY <1>2 DEF Init
<1>4. /\ alive \subseteq Timers /\ expire \in [Timers -> Nat] /\ cur_size <= capacity
      /\ array \in Arrays(capacity) /\ Holds(array, cur_size, alive)
      /\ Ordered(array, cur_size, expire)
  <2>1. CASE cur_size = 0
    <3>1. /\ alive = {} /\ expire = [t \in Timers |-> 0]
          /\ array = [i \in 0 .. capacity - 1 |-> NULL]
      BY <2>1 DEF Init, ConstructEmpty
    <3> QED BY <1>1, <2>1, <3>1 DEF Arrays, Holds, Ordered
  <2>2. CASE cur_size # 0
    <3>1. ConstructFrom(cur_size) BY <2>2 DEF Init
    <3>2. PICK init \in [0 .. cur_size - 1 -> Timers] :
             /\ \A i, j \in 0 .. cur_size - 1 : init[i] = init[j] => i = j
             /\ alive = {init[i] : i \in 0 .. cur_size - 1}
             /\ array = Heapify([i \in 0 .. capacity - 1 |->
                                   IF i < cur_size THEN init[i] ELSE NULL],
                                cur_size, expire)
      BY <3>1 DEF ConstructFrom
    <3>3. cur_size <= capacity /\ expire \in [Timers -> Delays \cup {0}]
      BY <3>1 DEF ConstructFrom
    <3>4. expire \in [Timers -> Nat]
      <4>1. Delays \cup {0} \subseteq Nat BY DelaysAssumption
      <4> QED BY <3>3, <4>1
    <3>5. alive \subseteq Timers BY <3>2
    <3> DEFINE a == [i \in 0 .. capacity - 1 |-> IF i < cur_size THEN init[i] ELSE NULL]
    <3>6. a \in Arrays(capacity) /\ \A i \in 0 .. cur_size - 1 : a[i] = init[i]
      BY <1>1, <1>3, <3>3 DEF Arrays
    <3> HIDE DEF a
    <3>7. Holds(a, cur_size, alive) BY <3>2, <3>6 DEF Holds
    <3>8. cur_size \in 1 .. capacity /\ capacity \in Nat BY <1>1, <1>3, <2>2, <3>3
    <3>9. array = Heapify(a, cur_size, expire) BY <3>2 DEF a
    <3> QED BY <3>3, <3>4, <3>5, <3>6, <3>7, <3>8, <3>9, HeapifyRight
  <2> QED BY <2>1, <2>2
<1>5. cb_func \in [Timers -> BOOLEAN] BY <1>1
<1>6. TypeOK BY <1>1, <1>3, <1>4, <1>5 DEF TypeOK
<1>7. TopOfTick /\ RootFires BY <1>1 DEF TopOfTick, RootFires
<1>8. InTime
  <2>1. \A t \in alive : expire[t] \in Nat BY <1>4
  <2> QED BY <1>1, <2>1 DEF InTime
<1> QED BY <1>4, <1>6, <1>7, <1>8 DEF HeapInv

\* The root is the earliest timer.
LEMMA RootIsEarliest ==
    ASSUME HeapInv, cur_size > 0
    PROVE  /\ array[0] \in alive /\ array[0] \in Timers
           /\ \A t \in alive : expire[array[0]] <= expire[t]
<1>1. cur_size \in Nat /\ 0 \in 0 .. cur_size - 1 /\ alive \subseteq Timers
      /\ expire \in [Timers -> Nat]
  BY DEF HeapInv, TypeOK
<1>2. Holds(array, cur_size, alive) /\ Ordered(array, cur_size, expire) BY DEF HeapInv
<1>3. PICK e : e = Times(array, cur_size, expire) OBVIOUS
<1>4. e \in [0 .. cur_size - 1 -> Nat] BY <1>1, <1>2, <1>3, TimesType
<1>5. \A i \in 0 .. cur_size - 1 : e[i] = expire[array[i]] BY <1>3 DEF Times
<1>6. ASSUME NEW i \in 1 .. cur_size - 1 PROVE e[parent(i)] <= e[i]
  <2>1. i \in Nat /\ i > 0 /\ i \in 0 .. cur_size - 1 BY <1>1
  <2>2. parent(i) \in Nat /\ parent(i) < i BY <2>1, ParentFacts
  <2>3. parent(i) \in 0 .. cur_size - 1 BY <1>1, <2>1, <2>2
  <2> QED BY <1>2, <1>5, <2>1, <2>3 DEF Ordered
<1>7. \A i \in 0 .. cur_size - 1 : e[0] <= e[i] BY <1>1, <1>4, <1>6, RootIsLeast
<1>8. ASSUME NEW t \in alive PROVE expire[array[0]] <= expire[t]
  <2>1. PICK i \in 0 .. cur_size - 1 : array[i] = t BY <1>2 DEF Holds
  <2> QED BY <1>1, <1>5, <1>7, <2>1
<1> QED BY <1>1, <1>2, <1>8 DEF Holds

\* Changing the expiry of other timers does not matter to the order.
LEMMA OrderedElsewhere ==
    ASSUME NEW m \in Nat, NEW c, NEW S, Holds(c, m, S), NEW exp, NEW new,
           \A t \in S : new[t] = exp[t], Ordered(c, m, exp)
    PROVE  Ordered(c, m, new)
<1> SUFFICES ASSUME NEW i \in 1 .. m - 1 PROVE new[c[parent(i)]] <= new[c[i]]
  BY DEF Ordered
<1>1. i \in Nat /\ i > 0 /\ i \in 0 .. m - 1 OBVIOUS
<1>2. parent(i) \in Nat /\ parent(i) < i BY <1>1, ParentFacts
<1>3. parent(i) \in 0 .. m - 1 BY <1>1, <1>2
<1> QED BY <1>1, <1>3 DEF Holds, Ordered

\* What pop_timer leaves.
LEMMA PopFacts ==
    ASSUME HeapInv, cur_size > 0, Pop
    PROVE  /\ alive' = alive \ {array[0]} /\ capacity' = capacity
           /\ cur_size' = cur_size - 1 /\ cur_size' \in 0 .. capacity
           /\ array' \in Arrays(capacity)
           /\ expire' \in [Timers -> Nat] /\ cb_func' \in [Timers -> BOOLEAN]
           /\ \A t \in alive' : expire'[t] = expire[t] /\ cb_func'[t] = cb_func[t]
           /\ Holds(array', cur_size', alive')
           /\ Ordered(array', cur_size', expire')
<1>1. TypeOK /\ Holds(array, cur_size, alive) /\ Ordered(array, cur_size, expire)
  BY DEF HeapInv
<1>2. array[0] \in alive /\ array[0] \in Timers BY RootIsEarliest
<1>3. cur_size \in 1 .. capacity /\ capacity \in Nat /\ cur_size - 1 \in 0 .. capacity
      /\ cur_size - 1 \in Nat
  BY <1>1 DEF TypeOK
<1>4. /\ alive' = alive \ {array[0]} /\ capacity' = capacity /\ cur_size' = cur_size - 1
      /\ array' = percolate_down([array EXCEPT ![0] = array[cur_size - 1]],
                                 cur_size - 1, 0, expire)
      /\ expire' = [expire EXCEPT ![array[0]] = 0]
      /\ cb_func' = [cb_func EXCEPT ![array[0]] = FALSE]
  BY DEF Pop
<1>5. /\ array' \in Arrays(capacity) /\ Holds(array', cur_size - 1, alive \ {array[0]})
      /\ Ordered(array', cur_size - 1, expire)
  BY <1>1, <1>3, <1>4, PopRight DEF TypeOK
<1>6. expire' \in [Timers -> Nat] /\ \A t \in alive' : expire'[t] = expire[t]
  BY <1>1, <1>2, <1>4 DEF TypeOK
<1>7. cb_func' \in [Timers -> BOOLEAN] /\ \A t \in alive' : cb_func'[t] = cb_func[t]
  BY <1>1, <1>2, <1>4, Zenon DEF TypeOK
<1>8. Ordered(array', cur_size - 1, expire')
  <2>1. PICK exp : exp = expire' OBVIOUS
  <2>2. PICK arr : arr = array' OBVIOUS
  <2>3. PICK m : m = cur_size - 1 OBVIOUS
  <2>4. PICK S : S = alive \ {array[0]} OBVIOUS
  <2>5. /\ m \in Nat /\ Holds(arr, m, S) /\ Ordered(arr, m, expire)
        /\ \A t \in S : exp[t] = expire[t]
    BY <1>3, <1>4, <1>5, <1>6, <2>1, <2>2, <2>3, <2>4
  <2>6. Ordered(arr, m, exp) BY <2>5, OrderedElsewhere
  <2> QED BY <2>1, <2>2, <2>3, <2>6
<1> QED BY <1>3, <1>4, <1>5, <1>6, <1>7, <1>8

\* A step that pops and goes on, or stays idle, keeps the invariant.
LEMMA PopKeepsInv ==
    ASSUME HeapInv, cur_size > 0, Pop,
           \/ pc' = "idle" /\ tmp' = tmp
           \/ pc' = "tick" /\ tmp' = array'[0],
           UNCHANGED <<now, cur, fired, lastDue>>
    PROVE  HeapInv'
<1>1. /\ alive' = alive \ {array[0]} /\ capacity' = capacity
      /\ cur_size' = cur_size - 1 /\ cur_size' \in 0 .. capacity
      /\ array' \in Arrays(capacity)
      /\ expire' \in [Timers -> Nat] /\ cb_func' \in [Timers -> BOOLEAN]
      /\ \A t \in alive' : expire'[t] = expire[t] /\ cb_func'[t] = cb_func[t]
      /\ Holds(array', cur_size', alive')
      /\ Ordered(array', cur_size', expire')
  BY PopFacts
<1>2. TypeOK BY DEF HeapInv
<1>3. tmp' \in Timers \cup {NULL}
  <2>1. 0 \in 0 .. capacity - 1 BY <1>2 DEF TypeOK
  <2>2. array'[0] \in Timers \cup {NULL} BY <1>1, <2>1 DEF Arrays
  <2> QED BY <1>2, <2>2 DEF TypeOK
<1>4. TypeOK' BY <1>1, <1>2, <1>3 DEF TypeOK
<1>5. TopOfTick' /\ RootFires' BY DEF TopOfTick, RootFires
<1>6. InTime' BY <1>1 DEF HeapInv, InTime
<1> QED BY <1>1, <1>4, <1>5, <1>6 DEF HeapInv

\* add_timer, between ticks and from a callback: it cannot displace the timer that
\* is firing.
LEMMA AddKeepsInv ==
    ASSUME HeapInv, NEW t \in Timers, NEW delay \in Delays, add_timer(t, delay)
    PROVE  HeapInv'
<1>1. /\ pc \in {"idle", "callback"} /\ t \notin alive /\ alive' = alive \cup {t}
      /\ expire' = [expire EXCEPT ![t] = now + delay]
      /\ cb_func' = [cb_func EXCEPT ![t] = TRUE]
      /\ capacity' = IF NeedsResize THEN 2 * capacity ELSE capacity
      /\ array' = SiftUp(IF NeedsResize THEN Resized(array, capacity) ELSE array,
                         cur_size, t, expire')
      /\ cur_size' = cur_size + 1
      /\ UNCHANGED <<now, pc, tmp, cur, fired, lastDue>>
  BY DEF add_timer, ClientRuns, history
<1>2. TypeOK /\ Holds(array, cur_size, alive) /\ Ordered(array, cur_size, expire)
      /\ TopOfTick /\ RootFires /\ InTime
  BY DEF HeapInv
<1>3. PICK room : room = IF NeedsResize THEN Resized(array, capacity) ELSE array
  OBVIOUS
<1>4. /\ capacity \in Nat /\ capacity' \in Nat \ {0} /\ capacity' \in Nat /\ cur_size \in Nat
      /\ cur_size \in 0 .. capacity' - 1 /\ cur_size + 1 \in 0 .. capacity'
      /\ cur_size <= capacity
  BY <1>1, <1>2 DEF TypeOK, NeedsResize
<1>5. room \in Arrays(capacity') /\ \A i \in 0 .. cur_size - 1 : room[i] = array[i]
  <2>1. CASE NeedsResize
    <3>1. room = [i \in 0 .. 2 * capacity - 1 |-> IF i < capacity THEN array[i] ELSE NULL]
      BY <1>3, <2>1 DEF Resized
    <3>2. \A i \in 0 .. 2 * capacity - 1 : i < capacity => array[i] \in Timers \cup {NULL}
      BY <1>2, <1>4 DEF TypeOK, Arrays
    <3>3. capacity' = 2 * capacity BY <1>1, <2>1
    <3> QED BY <3>1, <3>2, <3>3, <1>4 DEF Arrays
  <2>2. CASE ~NeedsResize BY <1>1, <1>2, <1>3, <2>2 DEF TypeOK
  <2> QED BY <2>1, <2>2
<1>6. Holds(room, cur_size, alive) BY <1>2, <1>5 DEF Holds
<1>7. /\ now + delay \in Nat /\ now + delay >= now /\ expire' \in [Timers -> Nat]
      /\ expire'[t] = now + delay
      /\ \A u \in alive : expire'[u] = expire[u] /\ u \in Timers
  BY <1>1, <1>2, DelaysAssumption DEF TypeOK
<1>8. Ordered(room, cur_size, expire')
  <2>1. Ordered(room, cur_size, expire)
    <3> SUFFICES ASSUME NEW i \in 1 .. cur_size - 1
                 PROVE  expire[room[parent(i)]] <= expire[room[i]]
      BY DEF Ordered
    <3>1. i \in Nat /\ i > 0 /\ i \in 0 .. cur_size - 1 BY <1>4
    <3>2. parent(i) \in Nat /\ parent(i) < i BY <3>1, ParentFacts
    <3>3. parent(i) \in 0 .. cur_size - 1 BY <1>4, <3>1, <3>2
    <3> QED BY <1>2, <1>5, <3>1, <3>3 DEF Ordered
  <2> QED BY <1>4, <1>6, <1>7, <2>1, OrderedElsewhere
<1>9. array' = SiftUp(room, cur_size, t, expire') BY <1>1, <1>3
<1>10. PICK exp : exp = expire' OBVIOUS
<1>11. PICK cap : cap = capacity' OBVIOUS
<1>12. /\ array' \in Arrays(cap) /\ Holds(array', cur_size + 1, alive \cup {t})
       /\ Ordered(array', cur_size + 1, exp)
       /\ cur_size > 0 /\ exp[room[0]] <= exp[t] => array'[0] = room[0]
  <2>1. /\ cap \in Nat /\ room \in Arrays(cap) /\ cur_size \in 0 .. cap - 1
        /\ exp \in [Timers -> Nat] /\ alive \subseteq Timers
        /\ Ordered(room, cur_size, exp) /\ array' = SiftUp(room, cur_size, t, exp)
    BY <1>2, <1>4, <1>5, <1>7, <1>8, <1>9, <1>10, <1>11 DEF TypeOK
  <2>2. Holds(room, cur_size, alive) /\ t \notin alive BY <1>1, <1>6
  <2> QED BY <2>1, <2>2, SiftUpRight
<1>13. cb_func' \in [Timers -> BOOLEAN] BY <1>1, <1>2, Zenon DEF TypeOK
<1>14. TypeOK'
  BY <1>1, <1>2, <1>4, <1>7, <1>11, <1>12, <1>13 DEF TypeOK
<1>15. TopOfTick' BY <1>1 DEF TopOfTick
<1>16. RootFires'
  <2> SUFFICES ASSUME pc = "callback"
               PROVE  cur_size + 1 > 0 /\ array'[0] = fired /\ expire'[fired] <= cur
    BY <1>1 DEF RootFires
  <2>1. cur_size > 0 /\ array[0] = fired /\ expire[fired] <= cur
    BY <1>2 DEF RootFires
  <2>2. fired \in alive /\ room[0] = fired /\ expire'[fired] = expire[fired]
    BY <1>4, <1>5, <1>7, <2>1, <1>2 DEF Holds
  <2>3. expire[fired] \in Nat /\ cur \in Nat /\ now \in Nat /\ cur <= now
    BY <1>2, <1>7, <2>2 DEF TypeOK, InTime
  <2>4. exp[room[0]] <= exp[t] BY <1>7, <1>10, <2>1, <2>2, <2>3
  <2> QED BY <1>4, <1>12, <2>1, <2>2, <2>4
<1>17. InTime'
  <2>1. ASSUME NEW u \in alive' PROVE lastDue <= expire'[u]
    <3>1. CASE u = t BY <1>2, <1>7, <3>1 DEF InTime, TypeOK
    <3>2. CASE u \in alive BY <1>2, <1>7, <3>2 DEF InTime
    <3> QED BY <1>1, <3>1, <3>2
  <2> QED BY <1>1, <1>2, <2>1 DEF InTime
<1> QED BY <1>1, <1>10, <1>12, <1>14, <1>15, <1>16, <1>17 DEF HeapInv

\* Every step of the container keeps the invariant.
LEMMA NextKeepsInv == ASSUME HeapInv, [Next]_vars PROVE HeapInv'
<1>1. TypeOK /\ Holds(array, cur_size, alive) /\ Ordered(array, cur_size, expire)
      /\ TopOfTick /\ RootFires /\ InTime
  BY DEF HeapInv
<1>2. CASE Clock
  <2>1. /\ now' = now + 1
        /\ UNCHANGED <<array, capacity, cur_size, alive, expire, cb_func, pc, tmp, cur,
                       fired, lastDue>>
    BY <1>2 DEF Clock, heap, objects, history
  <2>2. TypeOK' BY <1>1, <2>1 DEF TypeOK
  <2>3. TopOfTick' /\ RootFires' BY <1>1, <2>1 DEF TopOfTick, RootFires
  <2>4. InTime' BY <1>1, <2>1 DEF InTime, TypeOK
  <2> QED BY <1>1, <2>1, <2>2, <2>3, <2>4 DEF HeapInv
<1>3. CASE pop_timer
  <2>1. cur_size > 0 /\ Pop /\ pc' = "idle" /\ tmp' = tmp
        /\ UNCHANGED <<now, cur, fired, lastDue>>
    BY <1>3 DEF pop_timer, history
  <2> QED BY <2>1, PopKeepsInv
<1>4. CASE TickBegin
  <2>1. /\ pc' = "tick" /\ tmp' = array[0] /\ cur' = now
        /\ UNCHANGED <<now, array, capacity, cur_size, alive, expire, cb_func, fired, lastDue>>
    BY <1>4 DEF TickBegin, heap, objects, history
  <2>2. array[0] \in Timers \cup {NULL}
    <3>1. 0 \in 0 .. capacity - 1 BY <1>1 DEF TypeOK
    <3> QED BY <1>1, <3>1 DEF TypeOK, Arrays
  <2>3. TypeOK' BY <1>1, <2>1, <2>2 DEF TypeOK
  <2>4. TopOfTick' /\ RootFires' BY <2>1 DEF TopOfTick, RootFires
  <2>5. InTime' BY <1>1, <2>1 DEF InTime, TypeOK
  <2> QED BY <1>1, <2>1, <2>3, <2>4, <2>5 DEF HeapInv
<1>5. CASE TickCall
  <2>1. /\ pc = "tick" /\ Expired /\ pc' = "callback" /\ fired' = array[0]
        /\ lastDue' = expire[array[0]]
        /\ UNCHANGED <<now, array, capacity, cur_size, alive, expire, cb_func, tmp, cur>>
    BY <1>5 DEF TickCall, heap, objects
  <2>2. cur_size > 0 /\ expire[tmp] <= cur /\ tmp = array[0]
    BY <1>1, <2>1 DEF Expired, TopOfTick
  <2>3. /\ array[0] \in alive /\ array[0] \in Timers
        /\ \A t \in alive : expire[array[0]] <= expire[t]
    BY <2>2, RootIsEarliest
  <2>4. expire[array[0]] \in Nat BY <1>1, <2>3 DEF TypeOK
  <2>5. TypeOK' BY <1>1, <2>1, <2>3, <2>4 DEF TypeOK
  <2>6. TopOfTick' /\ RootFires' BY <2>1, <2>2 DEF TopOfTick, RootFires
  <2>7. InTime'
    <3>1. lastDue' <= now BY <1>1, <2>1, <2>2, <2>4 DEF InTime, TypeOK
    <3> QED BY <1>1, <2>1, <2>3, <3>1 DEF InTime
  <2> QED BY <1>1, <2>1, <2>5, <2>6, <2>7 DEF HeapInv
<1>6. CASE TickSkip
  <2>1. cur_size > 0 /\ Pop /\ pc' = "tick" /\ tmp' = array'[0]
        /\ UNCHANGED <<now, cur, fired, lastDue>>
    BY <1>6 DEF TickSkip, Expired, history
  <2> QED BY <2>1, PopKeepsInv
<1>7. CASE TickEnd
  <2>1. /\ pc' = "idle"
        /\ UNCHANGED <<now, array, capacity, cur_size, alive, expire, cb_func, tmp, cur,
                       fired, lastDue>>
    BY <1>7 DEF TickEnd, heap, objects, history
  <2>2. TypeOK' /\ TopOfTick' /\ RootFires' /\ InTime'
    BY <1>1, <2>1 DEF TypeOK, TopOfTick, RootFires, InTime
  <2> QED BY <1>1, <2>1, <2>2 DEF HeapInv
<1>8. CASE CallbackReturn
  <2>1. pc = "callback" /\ Pop /\ pc' = "tick" /\ tmp' = array'[0]
        /\ UNCHANGED <<now, cur, fired, lastDue>>
    BY <1>8 DEF CallbackReturn, history
  <2>2. cur_size > 0 BY <1>1, <2>1 DEF RootFires
  <2> QED BY <2>1, <2>2, PopKeepsInv
<1>9. CASE Destroy
  <2>1. /\ pc' = "destroyed" /\ cur_size' = 0
        /\ alive' = alive \ {array[i] : i \in 0 .. cur_size - 1}
        /\ UNCHANGED <<now, array, capacity, expire, cb_func, tmp, cur, fired, lastDue>>
    BY <1>9 DEF Destroy, history
  <2>2. alive' = {} BY <1>1, <2>1 DEF Holds
  <2>3. TypeOK' BY <1>1, <2>1, <2>2 DEF TypeOK
  <2>4. TopOfTick' /\ RootFires' /\ InTime'
    BY <1>1, <2>1, <2>2 DEF TopOfTick, RootFires, InTime
  <2>5. Holds(array, 0, {}) /\ Ordered(array, 0, expire) BY DEF Holds, Ordered
  <2> QED BY <2>1, <2>2, <2>3, <2>4, <2>5 DEF HeapInv
<1>10. ASSUME NEW t \in Timers, del_timer(t) PROVE HeapInv'
  <2>1. /\ cb_func' = [cb_func EXCEPT ![t] = FALSE]
        /\ UNCHANGED <<now, array, capacity, cur_size, alive, expire, pc, tmp, cur, fired,
                       lastDue>>
    BY <1>10 DEF del_timer, heap, history
  <2>2. cb_func' \in [Timers -> BOOLEAN] BY <1>1, <2>1, Zenon DEF TypeOK
  <2>3. TypeOK' BY <1>1, <2>1, <2>2 DEF TypeOK
  <2>4. TopOfTick' /\ RootFires' /\ InTime'
    BY <1>1, <2>1 DEF TopOfTick, RootFires, InTime
  <2> QED BY <1>1, <2>1, <2>3, <2>4 DEF HeapInv
<1>11. ASSUME NEW t \in Timers, NEW delay \in Delays, add_timer(t, delay) PROVE HeapInv'
  BY <1>11, AddKeepsInv
<1>12. CASE UNCHANGED vars
  <2>1. UNCHANGED <<now, array, capacity, cur_size, alive, expire, cb_func, pc, tmp, cur,
                    fired, lastDue>>
    BY <1>12 DEF vars, heap, objects, history
  <2>2. TypeOK' /\ TopOfTick' /\ RootFires' /\ InTime'
    BY <1>1, <2>1 DEF TypeOK, TopOfTick, RootFires, InTime
  <2> QED BY <1>1, <2>1, <2>2 DEF HeapInv
<1> QED
  BY <1>2, <1>3, <1>4, <1>5, <1>6, <1>7, <1>8, <1>9, <1>10, <1>11, <1>12 DEF Next, Tick

-----------------------------------------------------------------------------
(* The theorems about the array. *)

\* The inductive invariant holds in every reachable state.
THEOREM HeapInvariant == Spec => []HeapInv
  BY HeapInit, NextKeepsInv, PTL DEF Spec

\* After every operation, resize, lazy deletion and heapify included, the array is a
\* min-heap on expire (HeapOrder).
THEOREM ArrayIsHeap == Spec => []HeapOrder
<1>1. HeapInv => HeapOrder BY DEF HeapInv, Ordered, HeapOrder, parent
<1> QED BY <1>1, HeapInvariant, PTL

\* The entries are the allocated timers, each once.
LEMMA EntriesAreAlive ==
    ASSUME HeapInv PROVE InHeap = alive /\ Cardinality(InHeap) = cur_size
<1>1. Holds(array, cur_size, alive) /\ cur_size \in Nat BY DEF HeapInv, TypeOK
<1>2. InHeap = alive BY <1>1 DEF Holds, InHeap
<1> DEFINE f == [i \in 0 .. cur_size - 1 |-> array[i]]
<1>3. f \in [0 .. cur_size - 1 -> alive] BY <1>1 DEF Holds
<1>4. \A i, j \in 0 .. cur_size - 1 : f[i] = f[j] => i = j BY <1>1 DEF Holds
<1>5. \A t \in alive : \E i \in 0 .. cur_size - 1 : f[i] = t BY <1>1 DEF Holds
<1> HIDE DEF f
<1>6. ExistsBijection(0 .. cur_size - 1, alive)
  BY <1>3, <1>4, <1>5, Fun_IsBij DEF ExistsBijection
<1>7. IsFiniteSet(0 .. cur_size - 1) /\ Cardinality(0 .. cur_size - 1) = cur_size
  <2>1. 0 \in Int /\ cur_size - 1 \in Int BY <1>1
  <2>2. /\ IsFiniteSet(0 .. cur_size - 1)
        /\ Cardinality(0 .. cur_size - 1)
              = IF 0 > cur_size - 1 THEN 0 ELSE cur_size - 1 - 0 + 1
    BY <2>1, FS_Interval
  <2>3. (IF 0 > cur_size - 1 THEN 0 ELSE cur_size - 1 - 0 + 1) = cur_size BY <1>1
  <2> QED BY <2>2, <2>3
<1> QED BY <1>2, <1>6, <1>7, FS_Bijection

\* The array never overflows and holds exactly the allocated timers, each once, and
\* tick() looks at its root: no timer is lost, freed twice or used after it was freed
\* (HoldsAliveTimers).
THEOREM ArrayHoldsAliveTimers == Spec => []HoldsAliveTimers
<1>1. ASSUME HeapInv PROVE HoldsAliveTimers
  <2>1. cur_size <= capacity /\ DOMAIN array = 0 .. capacity - 1
    BY <1>1 DEF HeapInv, TypeOK, Arrays
  <2>2. pc = "tick" /\ cur_size > 0 => tmp = array[0] BY <1>1 DEF HeapInv, TopOfTick
  <2> QED BY <1>1, <2>1, <2>2, EntriesAreAlive DEF HoldsAliveTimers
<1> QED BY <1>1, HeapInvariant, PTL

\* The root is the earliest timer of the queue.
LEMMA RootOfQueue ==
    ASSUME HeapInv, cur_size > 0
    PROVE  Queue!Earliest(array[0]) /\ array[0] \in Timers
  BY RootIsEarliest, EntriesAreAlive DEF Queue!Earliest, Queue!Pending

\* What a callback adds or cancels never displaces the timer that is firing, so the
\* pop_timer after the callback deletes that one (RunningIsEarliest).
THEOREM FiringTimerStaysRoot == Spec => []RunningIsEarliest
<1>1. ASSUME HeapInv PROVE RunningIsEarliest
  <2>1. CASE pc = "callback"
    <3>1. cur_size > 0 /\ array[0] = fired BY <1>1, <2>1 DEF HeapInv, RootFires
    <3> QED BY <1>1, <2>1, <3>1, RootOfQueue DEF RunningIsEarliest, Queue!RunningIsEarliest
  <2>2. CASE pc # "callback" BY <2>2 DEF RunningIsEarliest, Queue!RunningIsEarliest
  <2> QED BY <2>1, <2>2
<1> QED BY <1>1, HeapInvariant, PTL

\* No timer fires early, and none in the heap is due before one that fired
\* (FiredInOrder).
THEOREM HeapFiresInOrder == Spec => []FiredInOrder
<1>1. ASSUME HeapInv PROVE FiredInOrder
  <2>1. InTime /\ InHeap = alive BY <1>1, EntriesAreAlive DEF HeapInv
  <2> QED BY <2>1 DEF InTime, FiredInOrder, Queue!FiredInOrder, Queue!Pending
<1> QED BY <1>1, HeapInvariant, PTL

\* Over all ticks, pops and reused timers, the expiries of the fired timers never
\* decrease (FireOrder).
THEOREM HeapFireOrder == Spec => FireOrder
<1>1. ASSUME HeapInv, [Next]_vars PROVE [lastDue' >= lastDue]_(Queue!vars)
  <2>1. lastDue \in Nat BY <1>1 DEF HeapInv, TypeOK
  <2>2. CASE TickCall
    <3>1. cur_size > 0 /\ lastDue' = expire[array[0]] BY <2>2 DEF TickCall, Expired
    <3>2. array[0] \in alive /\ array[0] \in Timers BY <1>1, <3>1, RootIsEarliest
    <3>3. lastDue <= expire[array[0]] /\ expire[array[0]] \in Nat
      BY <1>1, <3>2 DEF HeapInv, InTime, TypeOK
    <3> QED BY <2>1, <3>1, <3>3
  <2>3. CASE UNCHANGED lastDue BY <2>1, <2>3
  <2> QED
    BY <1>1, <2>2, <2>3
       DEF Next, vars, history, Clock, pop_timer, Tick, TickBegin, TickSkip, TickEnd,
           CallbackReturn, Destroy, del_timer, add_timer
<1> QED BY <1>1, HeapInvariant, PTL DEF Spec, FireOrder, Queue!FireOrder

-----------------------------------------------------------------------------
(* The container implements the timer queue. *)

\* The constructors start a queue with the timers of the initial heap, all armed.
LEMMA InitRefines == Init => Queue!Init
<1> SUFFICES ASSUME Init PROVE Queue!Init OBVIOUS
<1>1. InHeap = alive /\ alive \subseteq Timers BY HeapInit, EntriesAreAlive DEF HeapInv, TypeOK
<1>2. \A t \in alive : expire[t] \in Delays
  <2>1. CASE cur_size = 0 BY <2>1 DEF Init, ConstructEmpty
  <2>2. CASE cur_size # 0
    <3>1. ConstructFrom(cur_size) BY <2>2 DEF Init
    <3> QED BY <1>1, <3>1 DEF ConstructFrom
  <2> QED BY <2>1, <2>2
<1>3. [t \in InHeap |-> expire[t]] \in [alive -> Delays] BY <1>1, <1>2
<1>4. {t \in InHeap : cb_func[t]} = alive
  <2>1. \A t \in alive : cb_func[t] BY <1>1, Zenon DEF Init
  <2> QED BY <1>1, <2>1
<1> QED BY <1>1, <1>3, <1>4 DEF Init, Queue!Init, Queue!Pending

\* What pop_timer does to the queue.
LEMMA PopOfQueue ==
    ASSUME HeapInv, cur_size > 0, Pop
    PROVE  /\ [t \in InHeap |-> expire[t]]' = Queue!Without(array[0])
           /\ {t \in InHeap : cb_func[t]}' = {t \in InHeap : cb_func[t]} \ {array[0]}
<1>1. /\ alive' = alive \ {array[0]}
      /\ \A t \in alive' : expire'[t] = expire[t] /\ cb_func'[t] = cb_func[t]
      /\ Holds(array', cur_size', alive')
  BY PopFacts
<1>2. InHeap = alive BY EntriesAreAlive
<1>3. InHeap' = alive \ {array[0]} BY <1>1 DEF Holds, InHeap
<1>4. [t \in InHeap' |-> expire'[t]] = [t \in alive \ {array[0]} |-> expire[t]]
  BY <1>1, <1>3
<1>5. {t \in InHeap' : cb_func'[t]} = {t \in alive : cb_func[t]} \ {array[0]}
  BY <1>1, <1>3, Zenon
<1> QED BY <1>2, <1>4, <1>5 DEF Queue!Without, Queue!Pending

\* add_timer adds to the queue.
LEMMA AddRefines ==
    ASSUME HeapInv, HeapInv', NEW t \in Timers, NEW delay \in Delays, add_timer(t, delay)
    PROVE  Queue!Next
<1>1. /\ pc \in {"idle", "callback"} /\ t \notin alive /\ alive' = alive \cup {t}
      /\ expire' = [expire EXCEPT ![t] = now + delay]
      /\ cb_func' = [cb_func EXCEPT ![t] = TRUE]
      /\ UNCHANGED <<now, pc, cur, fired, lastDue>>
  BY DEF add_timer, ClientRuns, history
<1>2. InHeap = alive /\ TypeOK BY EntriesAreAlive DEF HeapInv
<1>3. InHeap' = alive' BY DEF HeapInv, Holds, InHeap
<1>4. \A u \in alive' : expire'[u] = IF u = t THEN now + delay ELSE expire[u]
  BY <1>1, <1>2 DEF TypeOK
<1>5. [u \in InHeap' |-> expire'[u]]
         = [u \in alive \cup {t} |->
              IF u = t THEN now + delay ELSE [v \in alive |-> expire[v]][u]]
  BY <1>1, <1>3, <1>4
<1>6. {u \in InHeap' : cb_func'[u]} = {u \in alive : cb_func[u]} \cup {t}
  <2>1. cb_func'[t] /\ \A u \in alive : cb_func'[u] = cb_func[u]
    BY <1>1, <1>2, Zenon DEF TypeOK
  <2> QED BY <1>1, <1>3, <2>1, Zenon
<1>7. pc = "callback" => fired # NULL
  BY <1>2, TimersAssumption, RootIsEarliest DEF HeapInv, RootFires
<1>8. Queue!ClientRuns BY <1>1, <1>7 DEF Queue!ClientRuns
<1>9. Queue!Add(t, delay)
  BY <1>1, <1>2, <1>5, <1>6, <1>8 DEF Queue!Add, Queue!Pending
<1> QED BY <1>9 DEF Queue!Next

\* del_timer cancels; the timer stays in the queue.
LEMMA DelRefines ==
    ASSUME HeapInv, HeapInv', NEW t \in Timers, del_timer(t) PROVE Queue!Next
<1>1. /\ pc \in {"idle", "callback"} /\ t \in alive
      /\ cb_func' = [cb_func EXCEPT ![t] = FALSE]
      /\ UNCHANGED <<now, array, cur_size, alive, expire, pc, cur, fired, lastDue>>
  BY DEF del_timer, ClientRuns, history, heap
<1>2. InHeap = alive /\ TypeOK BY EntriesAreAlive DEF HeapInv
<1>3. InHeap' = InHeap BY <1>1 DEF InHeap
<1>4. {u \in InHeap' : cb_func'[u]} = {u \in InHeap : cb_func[u]} \ {t}
  <2>1. ~cb_func'[t] /\ \A u \in alive : u # t => cb_func'[u] = cb_func[u]
    BY <1>1, <1>2, Zenon DEF TypeOK
  <2> QED BY <1>2, <1>3, <2>1, Zenon
<1>5. pc = "callback" => fired # NULL
  BY <1>2, TimersAssumption, RootIsEarliest DEF HeapInv, RootFires
<1>6. Queue!ClientRuns BY <1>1, <1>5 DEF Queue!ClientRuns
<1>7. Queue!Cancel(t)
  BY <1>1, <1>2, <1>3, <1>4, <1>6 DEF Queue!Cancel, Queue!Pending
<1> QED BY <1>7 DEF Queue!Next

\* pop_timer between ticks drops the earliest timer.
LEMMA PopRefines == ASSUME HeapInv, pop_timer PROVE Queue!Next
<1>1. pc = "idle" /\ cur_size > 0 /\ Pop /\ UNCHANGED <<now, pc, cur, fired, lastDue>>
  BY DEF pop_timer, history
<1>2. Queue!Earliest(array[0]) /\ array[0] \in Timers BY <1>1, RootOfQueue
<1>3. PICK root \in Timers : root = array[0] BY <1>2
<1>4. Queue!Drop(root) BY <1>1, <1>2, <1>3, PopOfQueue DEF Queue!Drop
<1> QED BY <1>4 DEF Queue!Next

\* A call of a callback fires the earliest timer, which is due and armed.
LEMMA CallRefines == ASSUME HeapInv, TickCall PROVE Queue!Next
<1>1. /\ pc = "tick" /\ cur_size > 0 /\ expire[tmp] <= cur /\ cb_func[array[0]]
      /\ pc' = "callback" /\ fired' = array[0] /\ lastDue' = expire[array[0]]
      /\ UNCHANGED <<now, array, cur_size, alive, expire, cb_func, cur>>
  BY DEF TickCall, Expired, heap, objects
<1>2. tmp = array[0] BY <1>1 DEF HeapInv, TopOfTick
<1>3. Queue!Earliest(array[0]) /\ array[0] \in Timers BY <1>1, RootOfQueue
<1>4. array[0] \in InHeap BY <1>3 DEF Queue!Earliest, Queue!Pending
<1>5. InHeap' = InHeap BY <1>1 DEF InHeap
<1>6. PICK root \in Timers : root = array[0] BY <1>3
<1>7. Queue!Fire(root)
  BY <1>1, <1>2, <1>3, <1>4, <1>5, <1>6 DEF Queue!Fire
<1> QED BY <1>7 DEF Queue!Next

\* A cancelled timer that is due is discarded.
LEMMA SkipRefines == ASSUME HeapInv, TickSkip PROVE Queue!Next
<1>1. /\ pc = "tick" /\ cur_size > 0 /\ expire[tmp] <= cur /\ ~cb_func[array[0]] /\ Pop
      /\ UNCHANGED <<now, pc, cur, fired, lastDue>>
  BY DEF TickSkip, Expired, history
<1>2. tmp = array[0] BY <1>1 DEF HeapInv, TopOfTick
<1>3. Queue!Earliest(array[0]) /\ array[0] \in Timers BY <1>1, RootOfQueue
<1>4. array[0] \in InHeap BY <1>3 DEF Queue!Earliest, Queue!Pending
<1>5. array[0] \notin {t \in InHeap : cb_func[t]} BY <1>1
<1>6. {t \in InHeap : cb_func[t]}' = {t \in InHeap : cb_func[t]}
  BY <1>1, <1>5, PopOfQueue
<1>7. [t \in InHeap |-> expire[t]]' = Queue!Without(array[0]) BY <1>1, PopOfQueue
<1>8. PICK root \in Timers : root = array[0] BY <1>3
<1>9. Queue!Discard(root)
  BY <1>1, <1>2, <1>3, <1>4, <1>5, <1>6, <1>7, <1>8 DEF Queue!Discard
<1> QED BY <1>9 DEF Queue!Next

\* When a callback returns, its timer is removed.
LEMMA ReturnRefines == ASSUME HeapInv, CallbackReturn PROVE Queue!Next
<1>1. pc = "callback" /\ Pop /\ pc' = "tick" /\ UNCHANGED <<now, cur, fired, lastDue>>
  BY DEF CallbackReturn, history
<1>2. cur_size > 0 /\ array[0] = fired BY <1>1 DEF HeapInv, RootFires
<1>3. fired # NULL BY <1>2, RootOfQueue, TimersAssumption
<1>4. Queue!Finish BY <1>1, <1>2, <1>3, PopOfQueue DEF Queue!Finish
<1> QED BY <1>4 DEF Queue!Next

\* tick() ends when the root, and so every timer, is due later, or none is left.
LEMMA EndRefines == ASSUME HeapInv, TickEnd PROVE Queue!Next
<1>1. /\ pc = "tick" /\ ~Expired /\ pc' = "idle"
      /\ UNCHANGED <<now, array, cur_size, alive, expire, cb_func, cur, fired, lastDue>>
  BY DEF TickEnd, heap, objects, history
<1>2. InHeap = alive /\ TypeOK BY EntriesAreAlive DEF HeapInv
<1>3. ASSUME NEW t \in alive PROVE expire[t] > cur
  <2>1. cur_size > 0 BY <1>2 DEF HeapInv, Holds, TypeOK
  <2>2. tmp = array[0] BY <1>1, <2>1 DEF HeapInv, TopOfTick
  <2>3. array[0] \in Timers /\ expire[array[0]] <= expire[t] BY <2>1, RootIsEarliest
  <2>4. tmp # NULL BY <2>2, <2>3, TimersAssumption
  <2>5. ~(expire[array[0]] <= cur) BY <1>1, <2>1, <2>2, <2>4 DEF Expired
  <2> QED BY <1>2, <2>3, <2>5 DEF TypeOK
<1>4. InHeap' = InHeap BY <1>1 DEF InHeap
<1>5. Queue!EndTick
  BY <1>1, <1>2, <1>3, <1>4 DEF Queue!EndTick, Queue!Pending
<1> QED BY <1>5 DEF Queue!Next

\* The destructor frees every timer of the queue.
LEMMA DestroyRefines == ASSUME HeapInv, Destroy PROVE Queue!Next
<1>1. pc = "idle" /\ pc' = "destroyed" /\ cur_size' = 0
      /\ UNCHANGED <<now, cur, fired, lastDue>>
  BY DEF Destroy, history
<1>2. InHeap' = {} BY <1>1 DEF InHeap
<1>3. [t \in InHeap' |-> expire'[t]] = [t \in {} |-> 0] BY <1>2
<1>4. {t \in InHeap' : cb_func'[t]} = {} BY <1>2
<1>5. Queue!Clear BY <1>1, <1>3, <1>4 DEF Queue!Clear
<1> QED BY <1>5 DEF Queue!Next

\* Each action is one step of the queue.
LEMMA NextRefines == ASSUME HeapInv, [Next]_vars PROVE [Queue!Next]_(Queue!vars)
<1>1. HeapInv' BY NextKeepsInv
<1>2. CASE Clock
  <2>1. InHeap' = InHeap BY <1>2 DEF Clock, heap, InHeap
  <2>2. Queue!Clock BY <1>2, <2>1 DEF Clock, heap, objects, history, Queue!Clock
  <2> QED BY <2>2 DEF Queue!Next
<1>3. CASE TickBegin
  <2>1. InHeap' = InHeap BY <1>3 DEF TickBegin, heap, InHeap
  <2>2. Queue!BeginTick
    BY <1>3, <2>1 DEF TickBegin, heap, objects, history, Queue!BeginTick
  <2> QED BY <2>2 DEF Queue!Next
<1>4. CASE pop_timer BY <1>4, PopRefines
<1>5. CASE TickCall BY <1>5, CallRefines
<1>6. CASE TickSkip BY <1>6, SkipRefines
<1>7. CASE TickEnd BY <1>7, EndRefines
<1>8. CASE CallbackReturn BY <1>8, ReturnRefines
<1>9. CASE Destroy BY <1>9, DestroyRefines
<1>10. ASSUME NEW t \in Timers, del_timer(t) PROVE Queue!Next
  BY <1>1, <1>10, DelRefines
<1>11. ASSUME NEW t \in Timers, NEW delay \in Delays, add_timer(t, delay)
       PROVE  Queue!Next
  BY <1>1, <1>11, AddRefines
<1>12. CASE UNCHANGED vars
  <2>1. InHeap' = InHeap BY <1>12 DEF vars, heap, InHeap
  <2> QED BY <1>12, <2>1 DEF vars, heap, objects, history, Queue!vars
<1> QED
  BY <1>2, <1>3, <1>4, <1>5, <1>6, <1>7, <1>8, <1>9, <1>10, <1>11, <1>12 DEF Next, Tick

\* The heap implements the timer queue: timers fire one at a time, earliest expiry
\* first, never early, never after del_timer and at most once, and tick() leaves none
\* behind that was due (ImplementsTimerQueue).
THEOREM HeapRefinesTimerQueue == Spec => ImplementsTimerQueue
  BY HeapInit, NextKeepsInv, InitRefines, NextRefines, PTL
     DEF Spec, ImplementsTimerQueue, Queue!Spec
=============================================================================
