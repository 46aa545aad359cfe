-------------------------- MODULE StructuresProofs --------------------------
(* Proofs about the data structures of 11_algorithm and 01_linux.  The       *)
(* linked list holds what was added and not removed, for every set of values *)
(* and every number of calls; the hash table is a write-once map, for every  *)
(* table size and hash function; bubble sort rearranges every array into     *)
(* order.                                                                    *)
EXTENDS HashTable, LinkedList, BubbleSort, Integers, FunctionTheorems,
        FiniteSetTheorems, TLAPS

-----------------------------------------------------------------------------
(* Arithmetic of the unsigned counter. *)

\* A remainder is known from any way to write the number.
LEMMA Remainder ==
    ASSUME NEW q \in Nat, NEW r \in Nat, NEW b \in Nat, r < b
    PROVE  (q * b + r) % b = r
<1> DEFINE a == q * b + r
<1>1. a \in Nat /\ b > 0
  OBVIOUS
<1>2. /\ a = b * (a \div b) + (a % b)
      /\ a % b \in 0 .. b - 1
      /\ a \div b \in Int
  BY <1>1
<1> DEFINE d == a \div b
           e == a % b
<1>3. q * b + r = b * d + e /\ e \in 0 .. b - 1 /\ d \in Int
  BY <1>2
<1> HIDE DEF a, d, e
<1>4. (q - d) * b = e - r
  BY <1>3
<1>5. q - d = 0
  <2>1. CASE q - d >= 1
    <3>1. (q - d) * b >= b BY <2>1, <1>1, <1>3
    <3> QED BY <3>1, <1>3, <1>4
  <2>2. CASE q - d <= -1
    <3>1. (q - d) * b <= -b BY <2>2, <1>1, <1>3
    <3> QED BY <3>1, <1>3, <1>4
  <2> QED BY <2>1, <2>2, <1>3
<1>6. e = r BY <1>3, <1>4, <1>5
<1> QED BY <1>6 DEF a, e

\* Stepping the counter by one, with the wrap-around of unsigned arithmetic, is
\* stepping what it counts.
LEMMA CounterSteps ==
    ASSUME NEW a \in Nat
    PROVE  /\ a % LenRange \in 0 .. LenRange - 1
           /\ (a + 1) % LenRange = Increment(a % LenRange)
           /\ a > 0 => (a - 1) % LenRange = Decrement(a % LenRange)
<1> DEFINE q == a \div LenRange
           r == a % LenRange
<1>1. a = LenRange * q + r /\ r \in 0 .. LenRange - 1 /\ q \in Nat
  BY ListAssumption
<1> HIDE DEF q, r
<1>2. (a + 1) % LenRange = Increment(r)
  <2>1. CASE r = LenRange - 1
    <3>1. a + 1 = (q + 1) * LenRange + 0 BY <1>1, <2>1, ListAssumption
    <3>2. ((q + 1) * LenRange + 0) % LenRange = 0
      BY Remainder, <1>1, ListAssumption
    <3> QED BY <3>1, <3>2, <2>1 DEF Increment
  <2>2. CASE r # LenRange - 1
    <3>1. a + 1 = q * LenRange + (r + 1) BY <1>1, ListAssumption
    <3>2. (q * LenRange + (r + 1)) % LenRange = r + 1
      BY Remainder, <1>1, <2>2, ListAssumption
    <3> QED BY <3>1, <3>2, <2>2 DEF Increment
  <2> QED BY <2>1, <2>2
<1>3. ASSUME a > 0 PROVE (a - 1) % LenRange = Decrement(r)
  <2>1. CASE r = 0
    <3>0. q # 0 BY <1>1, <1>3, <2>1, ListAssumption
    <3>1. a - 1 = (q - 1) * LenRange + (LenRange - 1)
      BY <1>1, <2>1, ListAssumption
    <3>2. ((q - 1) * LenRange + (LenRange - 1)) % LenRange = LenRange - 1
      <4>1. q - 1 \in Nat /\ LenRange - 1 \in Nat /\ LenRange - 1 < LenRange
        BY <1>1, <3>0, ListAssumption
      <4> QED BY <4>1, Remainder, ListAssumption
    <3> QED BY <3>1, <3>2, <2>1 DEF Decrement
  <2>2. CASE r # 0
    <3>1. a - 1 = q * LenRange + (r - 1) BY <1>1, ListAssumption
    <3>2. (q * LenRange + (r - 1)) % LenRange = r - 1
      <4>1. r - 1 \in Nat /\ r - 1 < LenRange BY <1>1, <2>2, ListAssumption
      <4> QED BY <4>1, <1>1, Remainder, ListAssumption
    <3> QED BY <3>1, <3>2, <2>2 DEF Decrement
  <2> QED BY <2>1, <2>2
<1> QED BY <1>1, <1>2, <1>3 DEF r
-----------------------------------------------------------------------------
(* The linked list: the inductive invariant. *)

Node == [next : Nat, value : Items]

ListTypeOK ==
    /\ nodes \in Seq(Node)
    /\ content \in Seq(Nat)
    /\ \A k \in DOMAIN content : content[k] \in 1 .. Len(nodes)
    /\ head \in Nat /\ tail \in Nat /\ cursor \in Nat /\ prev \in Nat
    /\ len0 \in Nat /\ len \in Nat
    /\ printed \in Seq(Items)
    /\ running \in {"none", "remove_node", "iterate_list"}

\* No node is linked twice: a cycle, or a node that is in the list twice, would
\* be changed at both places by one removal.
NoNodeTwice ==
    \A k \in DOMAIN content, m \in DOMAIN content : content[k] = content[m] => k = m

\* The k-th node of the list, NULL after the last.
NodeAt(k) == IF k \in DOMAIN content THEN content[k] ELSE 0

\* The loop of remove_node: the nodes before the cursor have other values, and
\* prev is the last of them.
RemoveLoop ==
    running = "remove_node" =>
        \E k \in 1 .. Len(content) + 1 :
            /\ cursor = NodeAt(k) /\ prev = NodeAt(k - 1)
            /\ \A m \in 1 .. k - 1 : Value(m) # value

\* The loop of iterate_list: the nodes before the cursor have been printed.
IterateLoop ==
    running = "iterate_list" =>
        \E k \in 1 .. Len(content) + 1 :
            /\ cursor = NodeAt(k)
            /\ Len(printed) = k - 1
            /\ \A m \in 1 .. k - 1 : printed[m] = Value(m)

ListInv ==
    /\ ListTypeOK /\ NoNodeTwice /\ RemoveLoop /\ IterateLoop
    /\ Linked /\ LenFollows

-----------------------------------------------------------------------------
(* Sequences. *)

\* A sequence with one more element.
LEMMA AppendElement ==
    ASSUME NEW S, NEW s \in Seq(S), NEW e \in S
    PROVE  /\ Append(s, e) \in Seq(S)
           /\ Len(Append(s, e)) = Len(s) + 1
           /\ Append(s, e)[Len(s) + 1] = e
           /\ \A m \in 1 .. Len(s) : Append(s, e)[m] = s[m]
OBVIOUS

\* Nodes of which one gets another next pointer.
LEMMA NextPointer ==
    ASSUME NEW s \in Seq(Node), NEW x \in 1 .. Len(s), NEW y \in Nat
    PROVE  /\ [s EXCEPT ![x].next = y] \in Seq(Node)
           /\ Len([s EXCEPT ![x].next = y]) = Len(s)
           /\ \A z \in 1 .. Len(s) :
                /\ [s EXCEPT ![x].next = y][z].next = IF z = x THEN y ELSE s[z].next
                /\ [s EXCEPT ![x].next = y][z].value = s[z].value
<1> DEFINE t == [s EXCEPT ![x].next = y]
<1>1. \A z \in 1 .. Len(s) : s[z] \in Node
  OBVIOUS
<1>2. \A z \in 1 .. Len(s) : z # x => t[z] = s[z]
  OBVIOUS
<1>3. t[x] = [s[x] EXCEPT !.next = y]
  OBVIOUS
<1>4. t[x] \in Node /\ t[x].next = y /\ t[x].value = s[x].value
  BY <1>1, <1>3 DEF Node
<1>5. Len(s) \in Nat
  OBVIOUS
<1>6. t = [z \in 1 .. Len(s) |-> IF z = x THEN [s[x] EXCEPT !.next = y] ELSE s[z]]
  OBVIOUS
<1>7. t \in [1 .. Len(s) -> Node]
  <2>1. [s[x] EXCEPT !.next = y] \in Node BY <1>3, <1>4
  <2> HIDE DEF t
  <2> QED BY <1>1, <2>1, <1>6
<1> HIDE DEF t
<1>8. t \in Seq(Node) /\ Len(t) = Len(s)
  BY <1>5, <1>7
<1> QED BY <1>2, <1>4, <1>8 DEF t

\* A sequence without its k-th element.
LEMMA WithoutElement ==
    ASSUME NEW S, NEW s \in Seq(S), NEW k \in DOMAIN s
    PROVE  /\ Without(s, k) \in Seq(S)
           /\ Len(Without(s, k)) = Len(s) - 1
           /\ \A m \in 1 .. Len(s) - 1 :
                Without(s, k)[m] = IF m < k THEN s[m] ELSE s[m + 1]
BY DEF Without

\* The first node with a value is unique, so what remove_node leaves is known
\* from the place at which the cursor stops.
LEMMA RemainingAt ==
    ASSUME ListTypeOK, NEW v, NEW k \in DOMAIN content, IsFirst(v, k)
    PROVE  Remaining(v) = Without(content, k)
<1> DEFINE c == CHOOSE x \in DOMAIN content : IsFirst(v, x)
<1>1. c \in DOMAIN content /\ IsFirst(v, c)
  <2>1. \E x \in DOMAIN content : IsFirst(v, x)
    OBVIOUS
  <2> QED BY <2>1, Zenon
<1> HIDE DEF c
<1>2. c \in 1 .. Len(content) /\ k \in 1 .. Len(content) /\ Len(content) \in Nat
  BY <1>1 DEF ListTypeOK
<1>3. c = k
  <2>1. k \notin 1 .. c - 1 BY <1>1, Zenon DEF IsFirst
  <2>2. c \notin 1 .. k - 1 BY <1>1, Zenon DEF IsFirst
  <2> QED BY <1>2, <2>1, <2>2
<1> QED BY <1>3 DEF c, Remaining

\* Nothing is removed when no node has the value.
LEMMA RemainingAll ==
    ASSUME NEW v, \A k \in DOMAIN content : Value(k) # v
    PROVE  Remaining(v) = content
BY DEF Remaining, IsFirst

\* The empty list satisfies the invariant.
LEMMA ListInvInit == ListInit => ListInv
<1> SUFFICES ASSUME ListInit PROVE ListInv
  OBVIOUS
<1>1. len0 % LenRange = len0 /\ len0 \in Nat
  <2>1. len0 \in Nat /\ len0 < LenRange BY ListAssumption DEF ListInit
  <2>2. (0 * LenRange + len0) % LenRange = len0 BY <2>1, Remainder, ListAssumption
  <2> QED BY <2>1, <2>2, ListAssumption
<1> QED
  BY <1>1 DEF ListInit, ListInv, ListTypeOK, NoNodeTwice, RemoveLoop, IterateLoop,
              Linked, LenFollows

\* add_node: tail is the last node, so the new one is linked behind it.
LEMMA AddKeepsInv ==
    ASSUME ListInv, NEW v \in Items, add_node(v)
    PROVE  ListInv'
<1> DEFINE new == Len(nodes) + 1
           node == [next |-> 0, value |-> v]
           linked == IF tail = 0 THEN nodes ELSE [nodes EXCEPT ![tail].next = new]
<1> USE DEF ListInv
<1>1. /\ running = "none" /\ running' = "none"
      /\ nodes' = Append(linked, node)
      /\ head' = IF tail = 0 THEN new ELSE head
      /\ tail' = new
      /\ len' = Increment(len)
      /\ content' = Append(content, new)
      /\ len0' = len0 /\ UNCHANGED << cursor, prev, printed >>
  BY DEF add_node, locals
<1>2. new \in Nat /\ node \in Node /\ node.next = 0
  BY DEF ListTypeOK, Node
<1>6. /\ Len(content) \in Nat /\ Len(nodes) \in Nat
      /\ DOMAIN content = 1 .. Len(content)
  BY DEF ListTypeOK
<1>t. tail # 0 => /\ tail \in 1 .. Len(nodes) /\ Len(content) > 0
                  /\ tail = content[Len(content)] /\ head = content[1]
  BY <1>6 DEF Linked, ListTypeOK
<1>u. tail = 0 => Len(content) = 0
  BY SMTT(30), <1>6 DEF Linked, ListTypeOK
<1>3. /\ linked \in Seq(Node)
      /\ Len(linked) = Len(nodes)
      /\ \A x \in 1 .. Len(nodes) :
           linked[x].next = IF x = tail THEN new ELSE nodes[x].next
  <2>1. CASE tail = 0
    BY <2>1, <1>6 DEF ListTypeOK
  <2>2. CASE tail # 0
    <3>1. linked = [nodes EXCEPT ![tail].next = new] BY <2>2
    <3>2. nodes \in Seq(Node) /\ tail \in 1 .. Len(nodes) BY <2>2, <1>t DEF ListTypeOK
    <3> HIDE DEF linked, new
    <3> QED BY <1>2, <3>1, <3>2, NextPointer
  <2> QED BY <2>1, <2>2
<1> HIDE DEF linked, node
<1>4. /\ nodes' \in Seq(Node)
      /\ Len(nodes') = Len(nodes) + 1
      /\ nodes'[new] = node
      /\ \A x \in 1 .. Len(nodes) : nodes'[x] = linked[x]
  <2>1. /\ Append(linked, node) \in Seq(Node)
        /\ Len(Append(linked, node)) = Len(linked) + 1
        /\ Append(linked, node)[Len(linked) + 1] = node
        /\ \A x \in 1 .. Len(linked) : Append(linked, node)[x] = linked[x]
    BY <1>2, <1>3, AppendElement
  <2> QED BY <2>1, <1>1, <1>3
<1>5. /\ content' \in Seq(Nat)
      /\ Len(content') = Len(content) + 1
      /\ content'[Len(content) + 1] = new
      /\ \A k \in 1 .. Len(content) : content'[k] = content[k]
  <2>1. content \in Seq(Nat) BY DEF ListTypeOK
  <2>2. /\ Append(content, new) \in Seq(Nat)
        /\ Len(Append(content, new)) = Len(content) + 1
        /\ Append(content, new)[Len(content) + 1] = new
        /\ \A k \in 1 .. Len(content) : Append(content, new)[k] = content[k]
    BY <2>1, <1>2, AppendElement
  <2> QED BY <2>2, <1>1
<1>a. /\ DOMAIN content' = 1 .. Len(content) + 1
      /\ \A k \in 1 .. Len(content) : content[k] \in 1 .. Len(nodes)
  BY <1>5, <1>6 DEF ListTypeOK
<1>7. ListTypeOK'
  <2>1. \A k \in DOMAIN content' : content'[k] \in 1 .. Len(nodes')
    BY SMTT(30), <1>4, <1>5, <1>6, <1>a
  <2>2. head' \in Nat /\ tail' \in Nat /\ len' \in Nat
    BY <1>1, <1>2, ListAssumption DEF ListTypeOK, Increment
  <2> QED BY <1>1, <1>4, <1>5, <2>1, <2>2 DEF ListTypeOK
<1>8. NoNodeTwice'
  <2>1. \A k \in 1 .. Len(content) : content[k] # new BY <1>a, <1>6
  <2> QED BY <2>1, <1>5, <1>6, <1>a DEF NoNodeTwice
<1>9. RemoveLoop' /\ IterateLoop'
  BY <1>1 DEF RemoveLoop, IterateLoop
<1>10. Linked'
  <2>2. content' # << >> BY <1>5, <1>6
  <2>3. head' = content'[1] /\ tail' = content'[Len(content')]
    BY <1>1, <1>5, <1>6, <1>t, <1>u
  <2>4. ASSUME NEW k \in DOMAIN content'
        PROVE  nodes'[content'[k]].next
                 = IF k = Len(content') THEN 0 ELSE content'[k + 1]
    <3>1. CASE k = Len(content) + 1
      BY <3>1, <1>2, <1>4, <1>5, <1>6
    <3>2. CASE k = Len(content) /\ k > 0
      <4>1. content'[k] = tail /\ tail \in 1 .. Len(nodes) /\ content'[k + 1] = new
        BY <3>2, <1>t, <1>u, <1>5, <1>6
      <4>2. nodes'[tail].next = new BY <4>1, <1>3, <1>4
      <4> QED BY <3>2, <4>1, <4>2, <1>5, <1>6
    <3>3. CASE k \in 1 .. Len(content) - 1
      <4>1. content[k] # tail
        BY <3>3, <1>t, <1>u, <1>6 DEF NoNodeTwice
      <4>2. nodes[content[k]].next = content[k + 1]
        BY <3>3, <1>6 DEF Linked
      <4>3. content'[k] = content[k] /\ content'[k + 1] = content[k + 1]
            /\ content[k] \in 1 .. Len(nodes) /\ k # Len(content')
        BY <3>3, <1>5, <1>6, <1>a
      <4>4. nodes'[content[k]].next = nodes[content[k]].next
        BY <4>1, <4>3, <1>3, <1>4
      <4> QED BY <4>2, <4>3, <4>4
    <3> QED BY <3>1, <3>2, <3>3, <1>6, <1>a
  <2> QED BY <2>2, <2>3, <2>4 DEF Linked
<1>11. LenFollows'
  <2>1. (len0 + Len(content) + 1) % LenRange
          = Increment((len0 + Len(content)) % LenRange)
    BY CounterSteps, <1>6 DEF ListTypeOK
  <2> QED BY <2>1, <1>1, <1>5, <1>6 DEF LenFollows, ListTypeOK
<1> QED BY <1>7, <1>8, <1>9, <1>10, <1>11

\* remove_node: the cursor is at the first node with the value, which is taken
\* out of the chain, and the tail moves when it was the last.
LEMMA RemoveKeepsInv == ListInv /\ RemoveFound => ListInv'
<1> SUFFICES ASSUME ListInv, RemoveFound PROVE ListInv'
  OBVIOUS
<1> USE DEF ListInv
<1> DEFINE L == Len(content)
           after == nodes[cursor].next
<1>1. L \in Nat /\ Len(nodes) \in Nat
  BY DEF ListTypeOK
<1>l. Len(content) = L /\ DOMAIN content = 1 .. L
  BY DEF ListTypeOK
<1>n. \A m \in 1 .. L : content[m] \in 1 .. Len(nodes)
  BY DEF ListTypeOK
<1> HIDE DEF L
<1>2. PICK k \in 1 .. L + 1 :
        /\ cursor = NodeAt(k) /\ prev = NodeAt(k - 1)
        /\ \A m \in 1 .. k - 1 : Value(m) # value
  BY <1>l DEF RemoveFound, RemoveLoop
<1>3. /\ k \in 1 .. L /\ cursor = content[k] /\ cursor \in 1 .. Len(nodes)
      /\ prev = IF k = 1 THEN 0 ELSE content[k - 1]
  BY <1>1, <1>2, <1>l, <1>n DEF RemoveFound, NodeAt
<1>4. content' = Without(content, k)
  <2>1. IsFirst(value, k)
    BY <1>1, <1>2, <1>3, <1>l DEF RemoveFound, IsFirst, Value
  <2> QED BY <1>l, <1>3, <2>1, RemainingAt DEF RemoveFound
<1>s. content' \in Seq(Nat) /\ Len(content') = L - 1 /\ DOMAIN content' = 1 .. L - 1
  <2>1. content \in Seq(Nat) /\ k \in DOMAIN content BY <1>l, <1>3 DEF ListTypeOK
  <2>2. content' \in Seq(Nat) /\ Len(content') = L - 1
    BY <1>4, <1>l, <2>1, WithoutElement
  <2> QED BY <2>2
<1>5. \A m \in 1 .. L - 1 :
        content'[m] = IF m < k THEN content[m] ELSE content[m + 1]
  <2>1. content \in Seq(Nat) /\ k \in DOMAIN content BY <1>l, <1>3 DEF ListTypeOK
  <2> QED BY <1>4, <1>l, <2>1, WithoutElement
<1>d. \A m \in 1 .. L, o \in 1 .. L : content[m] = content[o] => m = o
  BY <1>l DEF NoNodeTwice
<1>c. \A m \in 1 .. L : nodes[content[m]].next = IF m = L THEN 0 ELSE content[m + 1]
  BY <1>l DEF Linked
<1>6. after \in Nat /\ after = IF k = L THEN 0 ELSE content[k + 1]
  <2>1. nodes[cursor] \in Node BY <1>3 DEF ListTypeOK
  <2> QED BY <1>c, <1>3, <2>1 DEF Node, after
<1> HIDE DEF after
<1>7. /\ nodes' \in Seq(Node) /\ Len(nodes') = Len(nodes)
      /\ \A z \in 1 .. Len(nodes) :
           nodes'[z].next = IF z = prev THEN after ELSE nodes[z].next
      /\ head' = IF k = 1 THEN after ELSE head
  <2>1. CASE k = 1
    BY <2>1, <1>3 DEF RemoveFound, Unlink, after, ListTypeOK
  <2>2. CASE k # 1
    <3>1. nodes \in Seq(Node) /\ prev \in 1 .. Len(nodes)
      BY <2>2, <1>n, <1>1, <1>3 DEF ListTypeOK
    <3>2. nodes' = [nodes EXCEPT ![prev].next = after] /\ head' = head
      BY <3>1, <1>1 DEF RemoveFound, Unlink, after
    <3> DEFINE t == [nodes EXCEPT ![prev].next = after]
    <3>3. t = [nodes EXCEPT ![prev].next = after] OBVIOUS
    <3> HIDE DEF t
    <3>4. /\ t \in Seq(Node) /\ Len(t) = Len(nodes)
          /\ \A z \in 1 .. Len(nodes) :
               t[z].next = IF z = prev THEN after ELSE nodes[z].next
      <4>1. after \in Nat BY <1>6
      <4> QED BY <3>1, <3>3, <4>1, NextPointer
    <3> QED BY <2>2, <3>2, <3>3, <3>4
  <2> QED BY <2>1, <2>2
<1>8. tail' = IF k = L THEN prev ELSE tail
  <2>1. tail = content[L] BY <1>1, <1>3, <1>l DEF Linked
  <2>2. L \in 1 .. L BY <1>1, <1>3
  <2>3. tail = cursor <=> k = L BY <2>1, <2>2, <1>d, <1>3
  <2> QED BY <2>3, <1>3 DEF RemoveFound
<1>9. ListTypeOK'
  <2>1. \A m \in DOMAIN content' : content'[m] \in 1 .. Len(nodes')
    <3> SUFFICES ASSUME NEW m \in 1 .. L - 1 PROVE content'[m] \in 1 .. Len(nodes)
      BY <1>s, <1>7
    <3>1. m \in 1 .. L /\ m + 1 \in 1 .. L BY <1>1
    <3> QED BY <3>1, <1>5, <1>n
  <2>2. head' \in Nat /\ tail' \in Nat /\ len' \in Nat
    BY <1>6, <1>7, <1>8, ListAssumption DEF RemoveFound, Decrement, ListTypeOK
  <2> QED BY <1>s, <1>7, <2>1, <2>2 DEF RemoveFound, ListTypeOK
<1>10. NoNodeTwice'
  <2> SUFFICES ASSUME NEW m \in 1 .. L - 1, NEW o \in 1 .. L - 1,
                      content'[m] = content'[o]
               PROVE  m = o
    BY <1>s DEF NoNodeTwice
  <2> DEFINE Old(x) == IF x < k THEN x ELSE x + 1
  <2>1. Old(m) \in 1 .. L /\ Old(o) \in 1 .. L BY <1>1, <1>3
  <2>2. content'[m] = content[Old(m)] /\ content'[o] = content[Old(o)] BY <1>5
  <2>3. Old(m) = Old(o)
    <3> HIDE DEF Old
    <3> QED BY <2>1, <2>2, <1>d
  <2> QED BY <2>3, <1>1, <1>3
<1>11. RemoveLoop' /\ IterateLoop'
  BY DEF RemoveFound, RemoveLoop, IterateLoop
<1>12. Linked'
  <2>0. DOMAIN content' = 1 .. L - 1 /\ (content' = << >> <=> L = 1)
    BY <1>1, <1>3, <1>s
  <2>1. head' = IF content' = << >> THEN 0 ELSE content'[1]
    <3>1. head = content[1] BY <1>1, <1>3, <1>l DEF Linked
    <3> QED BY <2>0, <3>1, <1>1, <1>3, <1>5, <1>6, <1>7
  <2>2. tail' = IF content' = << >> THEN 0 ELSE content'[Len(content')]
    <3>1. tail = content[L] BY <1>1, <1>3, <1>l DEF Linked
    <3> QED BY <2>0, <3>1, <1>1, <1>3, <1>5, <1>s, <1>8
  <2>3. ASSUME NEW m \in DOMAIN content'
        PROVE  nodes'[content'[m]].next
                 = IF m = Len(content') THEN 0 ELSE content'[m + 1]
    <3>0. m \in 1 .. L - 1 BY <2>0
    <3>1. CASE m < k - 1
      <4>0. m \in 1 .. L /\ m + 1 \in 1 .. L - 1 /\ m + 1 < k /\ m < k /\ m # L - 1
            /\ k - 1 \in 1 .. L /\ m # k - 1 /\ m # L /\ k # 1
        BY <3>0, <3>1, <1>1, <1>3
      <4>1. content'[m] = content[m] /\ content'[m + 1] = content[m + 1]
        BY <3>0, <4>0, <1>5
      <4>2. content[m] # prev BY <4>0, <1>3, <1>d
      <4>3. nodes[content[m]].next = content[m + 1] BY <4>0, <1>c
      <4>4. nodes'[content[m]].next = content[m + 1]
        BY <4>0, <4>2, <4>3, <1>n, <1>7
      <4> QED BY <4>0, <4>1, <4>4, <1>s
    <3>2. CASE m = k - 1
      <4>1. content'[m] = prev /\ prev \in 1 .. Len(nodes)
        BY <3>0, <3>2, <1>1, <1>3, <1>5, <1>n
      <4>2. nodes'[prev].next = after BY <4>1, <1>7
      <4>3. m # L - 1 => content'[m + 1] = content[k + 1]
        BY <3>0, <3>2, <1>1, <1>3, <1>5
      <4> QED BY <3>0, <3>2, <4>1, <4>2, <4>3, <1>1, <1>3, <1>s, <1>6
    <3>3. CASE m >= k
      <4>1. content'[m] = content[m + 1]
            /\ (m # L - 1 => content'[m + 1] = content[m + 2])
        BY SMTT(30), <3>0, <3>3, <1>1, <1>3, <1>5
      <4>0. m + 1 \in 1 .. L /\ content[m + 1] \in 1 .. Len(nodes)
        BY <3>0, <1>1, <1>n
      <4>2. content[m + 1] # prev
        <5>1. k # 1 => k - 1 \in 1 .. L /\ k - 1 # m + 1 BY <3>0, <3>3, <1>1, <1>3
        <5> QED BY <4>0, <5>1, <1>3, <1>d, <1>1
      <4>3. nodes[content[m + 1]].next = IF m + 1 = L THEN 0 ELSE content[(m + 1) + 1]
        BY <4>0, <1>c
      <4>4. (m + 1) + 1 = m + 2 /\ (m + 1 = L <=> m = L - 1) BY <3>0, <1>1
      <4>5. nodes'[content[m + 1]].next = IF m = L - 1 THEN 0 ELSE content[m + 2]
        BY <4>0, <4>2, <4>3, <4>4, <1>7
      <4> QED BY <4>1, <4>5, <1>s
    <3> QED BY <3>0, <3>1, <3>2, <3>3, <1>3
  <2> QED BY <2>1, <2>2, <2>3 DEF Linked
<1>13. LenFollows'
  <2>1. ((len0 + L) - 1) % LenRange = Decrement((len0 + L) % LenRange)
    <3>1. len0 + L \in Nat /\ len0 + L > 0 BY <1>1, <1>3 DEF ListTypeOK
    <3> DEFINE a == len0 + L
    <3>2. a \in Nat /\ a > 0 BY <3>1
    <3> HIDE DEF a
    <3>3. (a - 1) % LenRange = Decrement(a % LenRange) BY <3>2, CounterSteps
    <3> QED BY <3>3 DEF a
  <2>2. (len0 + L) - 1 = len0 + (L - 1) BY <1>1 DEF ListTypeOK
  <2> QED BY <2>1, <2>2, <1>s, <1>l DEF LenFollows, RemoveFound
<1> QED BY <1>9, <1>10, <1>11, <1>12, <1>13

\* The cursor follows the next pointers of the list.
LEMMA NextOfCursor ==
    ASSUME ListInv, NEW k \in 1 .. Len(content) + 1, cursor = NodeAt(k), cursor # 0
    PROVE  /\ k \in 1 .. Len(content) /\ k \in DOMAIN content
           /\ cursor = content[k]
           /\ k + 1 \in 1 .. Len(content) + 1
           /\ nodes[cursor].next = NodeAt(k + 1)
           /\ nodes[cursor].next \in Nat
           /\ nodes[cursor].value = Value(k)
           /\ nodes[cursor].value \in Items
<1>1. Len(content) \in Nat /\ DOMAIN content = 1 .. Len(content)
  BY DEF ListInv, ListTypeOK
<1>2. k \in DOMAIN content /\ cursor = content[k] /\ k \in 1 .. Len(content)
  BY <1>1 DEF NodeAt
<1>3. nodes[cursor].next = IF k = Len(content) THEN 0 ELSE content[k + 1]
  BY <1>2 DEF ListInv, Linked
<1>4. nodes[cursor] \in Node
  BY <1>2 DEF ListInv, ListTypeOK
<1>5. nodes[cursor].next = NodeAt(k + 1)
  BY <1>1, <1>2, <1>3 DEF NodeAt
<1> QED BY <1>1, <1>2, <1>4, <1>5 DEF Node, Value

\* What the loops leave alone stays as it is while they only move the cursor.
LEMMA ListUntouched ==
    ASSUME ListInv, UNCHANGED list, UNCHANGED printed \/ printed' \in Seq(Items),
           cursor' \in Nat, prev' \in Nat,
           running' \in {"none", "remove_node", "iterate_list"}
    PROVE  ListTypeOK' /\ NoNodeTwice' /\ Linked' /\ LenFollows'
BY DEF list, ListInv, ListTypeOK, NoNodeTwice, Linked, LenFollows

\* The steps of the two loops.
LEMMA LoopsKeepInv ==
    ASSUME ListInv,
           \/ \E v \in Items : remove_node(v)
           \/ RemoveAdvance \/ RemoveMissing
           \/ iterate_list \/ IterateAdvance \/ IterateEnd
    PROVE  ListInv'
<1>t. Len(content) \in Nat /\ DOMAIN content = 1 .. Len(content)
  BY DEF ListInv, ListTypeOK
<1>h. head = NodeAt(1) /\ NodeAt(0) = 0
  BY <1>t DEF ListInv, Linked, NodeAt
<1>1. ASSUME NEW v \in Items, remove_node(v) PROVE ListInv'
  <2>1. ListTypeOK' /\ NoNodeTwice' /\ Linked' /\ LenFollows'
    BY <1>1, ListUntouched DEF remove_node, ListInv, ListTypeOK
  <2>2. RemoveLoop'
    <3>1. /\ 1 \in 1 .. Len(content) + 1
          /\ cursor' = NodeAt(1)' /\ prev' = NodeAt(1 - 1)'
          /\ \A m \in 1 .. 1 - 1 : Value(m)' # value'
      BY <1>1, <1>t, <1>h DEF remove_node, list, NodeAt
    <3> QED BY <3>1, <1>1 DEF RemoveLoop, remove_node, list
  <2>3. IterateLoop' BY <1>1 DEF remove_node, IterateLoop
  <2> QED BY <2>1, <2>2, <2>3 DEF ListInv
<1>2. ASSUME RemoveAdvance PROVE ListInv'
  <2>1. PICK k \in 1 .. Len(content) + 1 :
          /\ cursor = NodeAt(k) /\ prev = NodeAt(k - 1)
          /\ \A m \in 1 .. k - 1 : Value(m) # value
    BY <1>2 DEF ListInv, RemoveLoop, RemoveAdvance
  <2>2. /\ k \in 1 .. Len(content) /\ k + 1 \in 1 .. Len(content) + 1
        /\ cursor' = NodeAt(k + 1) /\ prev' = NodeAt(k)
        /\ cursor' \in Nat /\ prev' \in Nat
        /\ Value(k) # value
    BY <1>2, <2>1, NextOfCursor DEF RemoveAdvance, ListInv, ListTypeOK
  <2>3. ListTypeOK' /\ NoNodeTwice' /\ Linked' /\ LenFollows'
    BY <1>2, <2>2, ListUntouched DEF RemoveAdvance, ListInv, ListTypeOK
  <2>4. RemoveLoop'
    <3>1. \A m \in 1 .. (k + 1) - 1 : Value(m) # value
      BY <2>1, <2>2, <1>t
    <3>2. (k + 1) - 1 = k BY <2>2, <1>t
    <3>3. /\ k + 1 \in 1 .. Len(content') + 1
          /\ cursor' = NodeAt(k + 1)' /\ prev' = NodeAt((k + 1) - 1)'
          /\ \A m \in 1 .. (k + 1) - 1 : Value(m)' # value'
      BY <1>2, <2>2, <3>1, <3>2 DEF RemoveAdvance, list, NodeAt, Value
    <3> QED BY <3>3 DEF RemoveLoop
  <2>5. IterateLoop' BY <1>2 DEF RemoveAdvance, IterateLoop
  <2> QED BY <2>3, <2>4, <2>5 DEF ListInv
<1>3. ASSUME RemoveMissing PROVE ListInv'
  <2>1. PICK k \in 1 .. Len(content) + 1 :
          /\ cursor = NodeAt(k)
          /\ \A m \in 1 .. k - 1 : Value(m) # value
    BY <1>3 DEF ListInv, RemoveLoop, RemoveMissing
  <2>2. k = Len(content) + 1
    BY SMTT(30), <1>3, <1>t, <2>1 DEF RemoveMissing, NodeAt, ListInv, ListTypeOK
  <2>3. \A m \in DOMAIN content : Value(m) # value
    BY <2>1, <2>2, <1>t
  <2>4. content' = content BY <1>3, <2>3, RemainingAll DEF RemoveMissing
  <2>5. ListTypeOK' /\ NoNodeTwice' /\ Linked' /\ LenFollows'
    BY <1>3, <2>4, ListUntouched DEF RemoveMissing, list, ListInv, ListTypeOK
  <2>6. RemoveLoop' /\ IterateLoop'
    BY <1>3 DEF RemoveMissing, RemoveLoop, IterateLoop
  <2> QED BY <2>5, <2>6 DEF ListInv
<1>4. ASSUME iterate_list PROVE ListInv'
  <2>1. ListTypeOK' /\ NoNodeTwice' /\ Linked' /\ LenFollows'
    BY <1>4, ListUntouched DEF iterate_list, ListInv, ListTypeOK
  <2>2. IterateLoop'
    <3>1. /\ 1 \in 1 .. Len(content) + 1
          /\ cursor' = NodeAt(1)' /\ Len(printed') = 1 - 1
          /\ \A m \in 1 .. 1 - 1 : printed'[m] = Value(m)'
      BY <1>4, <1>t, <1>h DEF iterate_list, list, NodeAt
    <3> QED BY <3>1, <1>4 DEF IterateLoop, iterate_list, list
  <2>3. RemoveLoop' BY <1>4 DEF iterate_list, RemoveLoop
  <2> QED BY <2>1, <2>2, <2>3 DEF ListInv
<1>5. ASSUME IterateAdvance PROVE ListInv'
  <2>1. PICK k \in 1 .. Len(content) + 1 :
          /\ cursor = NodeAt(k)
          /\ Len(printed) = k - 1
          /\ \A m \in 1 .. k - 1 : printed[m] = Value(m)
    BY <1>5 DEF ListInv, IterateLoop, IterateAdvance
  <2>2. /\ k \in 1 .. Len(content) /\ k + 1 \in 1 .. Len(content) + 1
        /\ cursor' = NodeAt(k + 1) /\ cursor' \in Nat
        /\ printed' = Append(printed, Value(k)) /\ Value(k) \in Items
    BY <1>5, <2>1, NextOfCursor DEF IterateAdvance
  <2>3. /\ printed' \in Seq(Items) /\ Len(printed') = k
        /\ printed'[k] = Value(k)
        /\ \A m \in 1 .. k - 1 : printed'[m] = Value(m)
    <3>1. printed \in Seq(Items) BY DEF ListInv, ListTypeOK
    <3> DEFINE e == Value(k)
    <3>2. e \in Items /\ printed' = Append(printed, e) BY <2>2
    <3> HIDE DEF e
    <3>3. /\ printed' \in Seq(Items)
          /\ Len(printed') = Len(printed) + 1
          /\ printed'[Len(printed) + 1] = e
          /\ \A m \in 1 .. Len(printed) : printed'[m] = printed[m]
      BY <3>1, <3>2, AppendElement
    <3>4. Len(printed) + 1 = k BY <2>1, <2>2, <1>t
    <3> QED BY <2>1, <3>3, <3>4 DEF e
  <2>4. ListTypeOK' /\ NoNodeTwice' /\ Linked' /\ LenFollows'
    BY <1>5, <2>2, <2>3, ListUntouched DEF IterateAdvance, ListInv, ListTypeOK
  <2>5. IterateLoop'
    <3>1. (k + 1) - 1 = k /\ k \in Nat BY <2>2, <1>t
    <3>2. \A m \in 1 .. (k + 1) - 1 : printed'[m] = Value(m)
      BY <2>3, <3>1
    <3>3. /\ k + 1 \in 1 .. Len(content') + 1
          /\ cursor' = NodeAt(k + 1)' /\ Len(printed') = (k + 1) - 1
          /\ \A m \in 1 .. (k + 1) - 1 : printed'[m] = Value(m)'
      BY <1>5, <2>2, <2>3, <3>1, <3>2 DEF IterateAdvance, list, NodeAt, Value
    <3> QED BY <3>3 DEF IterateLoop
  <2>6. RemoveLoop' BY <1>5 DEF IterateAdvance, RemoveLoop
  <2> QED BY <2>4, <2>5, <2>6 DEF ListInv
<1>6. ASSUME IterateEnd PROVE ListInv'
  <2>1. ListTypeOK' /\ NoNodeTwice' /\ Linked' /\ LenFollows'
    BY <1>6, ListUntouched DEF IterateEnd, ListInv, ListTypeOK
  <2>2. RemoveLoop' /\ IterateLoop'
    BY <1>6 DEF IterateEnd, RemoveLoop, IterateLoop
  <2> QED BY <2>1, <2>2 DEF ListInv
<1> QED BY <1>1, <1>2, <1>3, <1>4, <1>5, <1>6

\* When iterate_list reaches NULL it has printed every node.
LEMMA IterationComplete == ListInv => AllPrinted
<1> SUFFICES ASSUME ListInv, running = "iterate_list", cursor = 0
             PROVE  /\ Len(printed) = Len(content)
                    /\ \A m \in DOMAIN content : printed[m] = Value(m)
  BY DEF AllPrinted
<1>t. Len(content) \in Nat /\ DOMAIN content = 1 .. Len(content)
  BY DEF ListInv, ListTypeOK
<1>1. PICK k \in 1 .. Len(content) + 1 :
        /\ cursor = NodeAt(k)
        /\ Len(printed) = k - 1
        /\ \A m \in 1 .. k - 1 : printed[m] = Value(m)
  BY DEF ListInv, IterateLoop
<1>2. k = Len(content) + 1
  <2>1. \A m \in DOMAIN content : content[m] # 0 BY DEF ListInv, ListTypeOK
  <2> QED BY <1>t, <1>1, <2>1 DEF NodeAt
<1> QED BY <1>t, <1>1, <1>2

\* The linked list holds what was added and not removed, whatever the values,
\* the number of calls and the initial value of list->len.
THEOREM ListAlwaysHoldsContent == ListSpec => []ListHoldsContent
<1>1. ListInv /\ [ListNext]_listVars => ListInv'
  <2> SUFFICES ASSUME ListInv, [ListNext]_listVars PROVE ListInv'
    OBVIOUS
  <2>1. ASSUME NEW v \in Items, add_node(v) PROVE ListInv'
    BY <2>1, AddKeepsInv
  <2>2. CASE UNCHANGED listVars
    BY <2>2 DEF listVars, list, locals, ListInv, ListTypeOK, NoNodeTwice, RemoveLoop,
                IterateLoop, Linked, LenFollows, NodeAt, Value
  <2> QED BY <2>1, <2>2, RemoveKeepsInv, LoopsKeepInv DEF ListNext
<1>2. ListInv => ListHoldsContent
  BY IterationComplete DEF ListInv, ListHoldsContent
<1> QED BY ListInvInit, <1>1, <1>2, PTL DEF ListSpec
-----------------------------------------------------------------------------
(* The hash table.  Its inductive invariant: hashes are buckets, and buckets *)
(* are sequences of entries.                                                 *)

DictInv ==
    /\ hash \in [Keys -> Buckets]
    /\ table \in [Buckets -> Seq(Entries)]

-----------------------------------------------------------------------------
(* Looking up a key. *)

\* The cursor of dictGet can stop at one place only.
LEMMA MatchIsUnique ==
    ASSUME NEW bucket \in Seq(Entries), NEW k \in Keys,
           NEW p \in DOMAIN bucket, NEW m \in DOMAIN bucket,
           Matches(bucket, k, p), Matches(bucket, k, m)
    PROVE  p = m
<1>1. p \in Nat /\ m \in Nat
  OBVIOUS
<1>2. ~(p < m) /\ ~(m < p)
  BY DEF Matches
<1> QED
  BY <1>1, <1>2

\* What dictGet returns is the value at the place where the cursor stops.
LEMMA LookupAt ==
    ASSUME NEW bucket \in Seq(Entries), NEW k \in Keys,
           NEW p \in DOMAIN bucket, Matches(bucket, k, p)
    PROVE  Lookup(bucket, k) = bucket[p].val
<1> DEFINE m == CHOOSE x \in DOMAIN bucket : Matches(bucket, k, x)
<1>1. m \in DOMAIN bucket /\ Matches(bucket, k, m)
  OBVIOUS
<1>2. m = p
  BY <1>1, MatchIsUnique
<1> QED
  BY <1>2 DEF Lookup

\* An entry in front of a bucket is found for its own key and hides nothing of
\* the others.
LEMMA LookupAfterInsert ==
    ASSUME NEW bucket \in Seq(Entries), NEW e \in Entries, NEW k \in Keys
    PROVE  Lookup(<< e >> \o bucket, k)
             = IF e.key = k THEN e.val ELSE Lookup(bucket, k)
<1> DEFINE longer == << e >> \o bucket
<1>1. longer \in Seq(Entries) /\ Len(longer) = Len(bucket) + 1 /\ longer[1] = e
  OBVIOUS
<1>2. \A p \in DOMAIN bucket : p + 1 \in DOMAIN longer /\ longer[p + 1] = bucket[p]
  OBVIOUS
<1>3. \A p \in DOMAIN longer : p = 1 \/ (p - 1 \in DOMAIN bucket /\ longer[p] = bucket[p - 1])
  OBVIOUS
<1> HIDE DEF longer
<1>4. CASE e.key = k
  <2>1. Matches(longer, k, 1) /\ 1 \in DOMAIN longer
    BY <1>1, <1>4 DEF Matches
  <2> QED
    BY <2>1, <1>1, <1>4, LookupAt DEF longer
<1>5. CASE e.key # k /\ \E p \in DOMAIN bucket : Matches(bucket, k, p)
  <2>1. PICK p \in DOMAIN bucket : Matches(bucket, k, p)
    BY <1>5
  <2>2. p + 1 \in DOMAIN longer /\ longer[p + 1] = bucket[p] /\ p \in Nat
    BY <1>2
  <2>3. ASSUME NEW q \in DOMAIN longer, q < p + 1 PROVE longer[q].key # k
    <3>1. CASE q = 1
      BY <3>1, <1>1, <1>5
    <3>2. CASE q # 1
      <4>1. q - 1 \in DOMAIN bucket /\ longer[q] = bucket[q - 1]
        BY <3>2, <1>3
      <4>2. q - 1 < p
        BY <2>2, <2>3, <1>1
      <4> QED
        BY <4>1, <4>2, <2>1 DEF Matches
    <3> QED
      BY <3>1, <3>2
  <2>4. Matches(longer, k, p + 1)
    BY <2>1, <2>2, <2>3 DEF Matches
  <2>5. Lookup(longer, k) = longer[p + 1].val
    BY <2>2, <2>4, <1>1, LookupAt
  <2>6. Lookup(bucket, k) = bucket[p].val
    BY <2>1, LookupAt
  <2> QED
    BY <2>2, <2>5, <2>6, <1>5 DEF longer
<1>6. CASE e.key # k /\ ~ \E p \in DOMAIN bucket : Matches(bucket, k, p)
  <2>1. ASSUME NEW p \in DOMAIN longer, Matches(longer, k, p) PROVE FALSE
    <3>1. p # 1
      BY <2>1, <1>1, <1>6 DEF Matches
    <3>2. p - 1 \in DOMAIN bucket /\ longer[p] = bucket[p - 1] /\ p \in Nat
      BY <3>1, <1>3, <1>1
    <3>3. ASSUME NEW q \in DOMAIN bucket, q < p - 1 PROVE bucket[q].key # k
      <4>1. q + 1 \in DOMAIN longer /\ longer[q + 1] = bucket[q] /\ q + 1 < p
        BY <3>2, <3>3, <1>2
      <4> QED
        BY <4>1, <2>1 DEF Matches
    <3>4. Matches(bucket, k, p - 1)
      BY <3>2, <3>3, <2>1 DEF Matches
    <3> QED
      BY <3>2, <3>4, <1>6
  <2> QED
    BY <2>1, <1>6 DEF Lookup, longer
<1> QED
  BY <1>4, <1>5, <1>6

-----------------------------------------------------------------------------
(* The invariant and the refinement. *)

\* The empty table satisfies the invariant.
LEMMA DictInvInit == DictInit => DictInv
  BY DEF DictInit, DictInv

\* A call of dictPut or dictGet keeps the types of the table.
LEMMA DictInvNext == DictInv /\ [DictNext]_dictVars => DictInv'
<1> SUFFICES ASSUME DictInv, [DictNext]_dictVars PROVE DictInv'
  OBVIOUS
<1>1. ASSUME NEW k \in Keys, dictGet(k) PROVE DictInv'
  BY <1>1 DEF dictGet, DictInv
<1>2. ASSUME NEW k \in Keys, NEW v \in Values \cup {NULL}, dictPut(k, v) PROVE DictInv'
  <2>1. CASE UNCHANGED table
    BY <1>2, <2>1 DEF dictPut, DictInv
  <2>2. CASE Insert(k, v)
    <3>1. hash[k] \in Buckets /\ table[hash[k]] \in Seq(Entries)
      BY DEF DictInv
    <3>2. [key |-> k, val |-> v] \in Entries
      BY DEF Entries
    <3>3. << [key |-> k, val |-> v] >> \o table[hash[k]] \in Seq(Entries)
      BY <3>1, <3>2
    <3> QED
      BY <3>1, <3>3, <2>2, <1>2 DEF Insert, dictPut, DictInv
  <2> QED
    BY <1>2, <2>1, <2>2 DEF dictPut
<1>3. CASE UNCHANGED dictVars
  BY <1>3 DEF dictVars, DictInv
<1> QED
  BY <1>1, <1>2, <1>3 DEF DictNext

\* The buckets hold entries at every moment: no call loses the chain.
THEOREM DictTypeCorrect == DictSpec => []DictInv
<1> QED
  BY DictInvInit, DictInvNext, PTL DEF DictSpec

\* An insertion in front of a bucket changes the value of its own key only,
\* whichever keys share the bucket.
LEMMA InsertSetsOneKey ==
    ASSUME DictInv, NEW k \in Keys, NEW v \in Values \cup {NULL}, Insert(k, v), hash' = hash
    PROVE  [x \in Keys |-> Found(x)]' = [[x \in Keys |-> Found(x)] EXCEPT ![k] = v]
<1> DEFINE e == [key |-> k, val |-> v]
<1>1. e \in Entries /\ e.key = k /\ e.val = v
  BY DEF Entries
<1>2. ASSUME NEW x \in Keys PROVE Found(x)' = IF x = k THEN v ELSE Found(x)
  <2>1. hash[x] \in Buckets /\ table[hash[x]] \in Seq(Entries)
    BY DEF DictInv
  <2>2. CASE hash[x] = hash[k]
    <3>1. table'[hash[x]] = << e >> \o table[hash[x]]
      BY <2>1, <2>2 DEF Insert, DictInv
    <3>2. Lookup(<< e >> \o table[hash[x]], x)
            = IF e.key = x THEN e.val ELSE Lookup(table[hash[x]], x)
      BY <1>1, <2>1, LookupAfterInsert
    <3>3. Found(x)' = Lookup(table'[hash[x]], x)
      BY DEF Found, Lookup, Matches
    <3> QED
      BY <3>1, <3>2, <3>3, <1>1 DEF Found
  <2>3. CASE hash[x] # hash[k]
    <3>1. table'[hash[x]] = table[hash[x]] /\ x # k
      BY <2>1, <2>3 DEF Insert, DictInv
    <3>2. Found(x)' = Lookup(table'[hash[x]], x)
      BY DEF Found, Lookup, Matches
    <3> QED
      BY <3>1, <3>2 DEF Found
  <2> QED
    BY <2>2, <2>3
<1> QED
  BY <1>2

\* In the empty table no key is found.
LEMMA DictInitRefines == DictInit => Map!Init
<1> SUFFICES ASSUME DictInit PROVE Map!Init
  OBVIOUS
<1>1. ASSUME NEW k \in Keys PROVE Found(k) = NULL
  <2>1. table[hash[k]] = << >>
    BY DEF DictInit
  <2> QED
    BY <2>1 DEF Found, Lookup
<1> QED
  BY <1>1 DEF DictInit, Map!Init

\* A call on the table is a call on the map or changes nothing in it.
LEMMA DictNextRefines == DictInv /\ [DictNext]_dictVars => [Map!Next]_(Map!vars)
<1> SUFFICES ASSUME DictInv, [DictNext]_dictVars PROVE [Map!Next]_(Map!vars)
  OBVIOUS
<1>1. ASSUME UNCHANGED << hash, table >>
      PROVE  [x \in Keys |-> Found(x)]' = [x \in Keys |-> Found(x)]
  BY <1>1 DEF Found, Lookup, Matches
<1>2. ASSUME NEW k \in Keys, dictGet(k) PROVE Map!Get(k)
  BY <1>1, <1>2 DEF dictGet, Map!Get
<1>3. ASSUME NEW k \in Keys, NEW v \in Values \cup {NULL}, dictPut(k, v)
      PROVE  Map!Put(k, v)
  <2>1. CASE Found(k) # NULL
    BY <1>1, <1>3, <2>1 DEF dictPut, Map!Put
  <2>2. CASE Found(k) = NULL
    BY <1>3, <2>2, InsertSetsOneKey DEF dictPut, Map!Put
  <2> QED
    BY <2>1, <2>2
<1>4. CASE UNCHANGED dictVars
  BY <1>1, <1>4 DEF dictVars, Map!vars
<1> QED
  BY <1>2, <1>3, <1>4 DEF DictNext, Map!Next

\* dictPut and dictGet implement the map in which a key keeps its first value,
\* for every table size and every hash function (DictImplementsMap).
THEOREM DictRefinesMap == DictSpec => DictImplementsMap
<1> QED
  BY DictInvInit, DictInvNext, DictInitRefines, DictNextRefines, PTL
     DEF DictSpec, DictImplementsMap, Map!Spec
-----------------------------------------------------------------------------
(* Bubble sort: the inductive invariant. *)

\* The indices stay within the array; n never changes.
SortTypeOK ==
    /\ n \in Nat
    /\ arr \in [0 .. n - 1 -> Numbers]
    /\ input \in [0 .. n - 1 -> Numbers]
    /\ i \in Nat /\ j \in Nat
    /\ n > 0 => i + j < n
    /\ n = 0 => i = 0 /\ j = 0
    /\ order \in {"ascending", "descending", "done"}

SameNumbers == \A v \in Numbers : Count(arr, v) = Count(input, v)

\* The last i elements are in their final places.
Settled ==
    order # "done" =>
        \A k \in DOMAIN arr, l \in DOMAIN arr :
            k < l /\ l >= n - i => ~compare(arr[k], arr[l])

\* The element that the inner loop has carried to place j is the last in order
\* among those before it.
Carried ==
    order # "done" =>
        \A k \in DOMAIN arr : k < j => ~compare(arr[k], arr[j])

AscendingBetween ==
    order = "descending" /\ i = 0 /\ j = 0 =>
        \A k \in DOMAIN arr, l \in DOMAIN arr : k < l => arr[k] <= arr[l]

DescendingAtEnd ==
    order = "done" =>
        \A k \in DOMAIN arr, l \in DOMAIN arr : k < l => arr[k] >= arr[l]

SortInv ==
    /\ SortTypeOK /\ SameNumbers /\ Settled /\ Carried
    /\ AscendingBetween /\ DescendingAtEnd

\* swap() rearranges: every value is in the array as often as before.
LEMMA SwapKeepsCount ==
    ASSUME NEW m \in Nat, NEW a \in [0 .. m - 1 -> Numbers],
           NEW b \in [0 .. m - 1 -> Numbers],
           NEW x \in 0 .. m - 1, NEW y \in 0 .. m - 1, b[x] = a[y], b[y] = a[x],
           \A k \in 0 .. m - 1 : k # x /\ k # y => b[k] = a[k],
           NEW v
    PROVE  Count(b, v) = Count(a, v)
<1> DEFINE A == {k \in DOMAIN a : a[k] = v}
           B == {k \in DOMAIN b : b[k] = v}
           Other(k) == IF k = x THEN y ELSE IF k = y THEN x ELSE k
           f == [k \in A |-> Other(k)]
<1>1. DOMAIN a = 0 .. m - 1 /\ DOMAIN b = 0 .. m - 1
  OBVIOUS
<1>2. \A k \in 0 .. m - 1 : Other(k) \in 0 .. m - 1 /\ Other(Other(k)) = k
  OBVIOUS
<1>3. \A k \in 0 .. m - 1 : b[k] = a[Other(k)]
  OBVIOUS
<1>4. IsFiniteSet(A)
  <2>1. IsFiniteSet(0 .. m - 1) BY FS_Interval
  <2>2. A \subseteq 0 .. m - 1 BY <1>1
  <2> HIDE DEF A
  <2> QED BY <2>1, <2>2, FS_Subset
<1> HIDE DEF Other
<1>5. f \in [A -> B] BY <1>1, <1>2, <1>3
<1>6. \A k \in A, l \in A : f[k] = f[l] => k = l BY <1>1, <1>2
<1>7. \A l \in B : \E k \in A : f[k] = l
  <2> SUFFICES ASSUME NEW l \in B PROVE \E k \in A : f[k] = l
    OBVIOUS
  <2>1. l \in 0 .. m - 1 /\ b[l] = v BY <1>1
  <2>2. Other(l) \in A /\ Other(Other(l)) = l BY <2>1, <1>1, <1>2, <1>3
  <2>3. f[Other(l)] = l BY <2>2
  <2> QED BY <2>2, <2>3
<1> HIDE DEF f, A, B
<1>8. f \in Bijection(A, B) BY <1>5, <1>6, <1>7, Fun_IsBij
<1>9. Cardinality(B) = Cardinality(A)
  <2>1. ExistsBijection(A, B) BY <1>8 DEF ExistsBijection
  <2> QED BY <2>1, <1>4, FS_Bijection
<1> QED BY <1>9 DEF Count, A, B

\* Before the first comparison no round is done.
LEMMA SortInvInit == SortInit => SortInv
<1> SUFFICES ASSUME SortInit PROVE SortInv
  OBVIOUS
<1>1. PICK m \in 0 .. MaxLen : arr \in [0 .. m - 1 -> Numbers]
  BY DEF SortInit
<1>2. m \in Nat BY NumbersAssumption
<1>3. n = m
  <2>1. Cardinality(0 .. m - 1) = IF 0 > m - 1 THEN 0 ELSE (m - 1) - 0 + 1
    BY <1>2, FS_Interval
  <2>2. DOMAIN arr = 0 .. m - 1 BY <1>1
  <2> QED BY <1>2, <2>1, <2>2 DEF n
<1>4. SortTypeOK BY <1>1, <1>2, <1>3 DEF SortInit, SortTypeOK
<1>5. SameNumbers BY DEF SortInit, SameNumbers
<1>6. DOMAIN arr = 0 .. n - 1 BY <1>1, <1>3
<1>7. Settled /\ Carried /\ AscendingBetween /\ DescendingAtEnd
  BY <1>2, <1>3, <1>6
     DEF SortInit, Settled, Carried, AscendingBetween, DescendingAtEnd
<1> QED BY <1>4, <1>5, <1>7 DEF SortInv

\* One comparison: what is carried and what is settled stay so, because the two
\* elements that change places are both before the settled ones.
LEMMA CompareKeepsInv == SortInv /\ Compare => SortInv'
<1> SUFFICES ASSUME SortInv, Compare PROVE SortInv'
  OBVIOUS
<1>1. /\ n \in Nat /\ i \in Nat /\ j \in Nat /\ j + 1 < n - i
      /\ arr \in [0 .. n - 1 -> Numbers]
      /\ j \in 0 .. n - 1 /\ j + 1 \in 0 .. n - 1
      /\ order \in {"ascending", "descending"}
  BY DEF SortInv, SortTypeOK, Compare, Inner
<1>2. /\ i' = i /\ j' = j + 1 /\ order' = order /\ input' = input
      /\ arr' = IF compare(arr[j], arr[j + 1]) THEN swap(j, j + 1) ELSE arr
  BY DEF Compare
<1>3. arr' \in [0 .. n - 1 -> Numbers] /\ DOMAIN arr' = 0 .. n - 1
  BY <1>1, <1>2 DEF swap
<1>4. n' = n
  BY <1>1, <1>3 DEF n
<1>5. SortTypeOK'
  BY <1>1, <1>2, <1>3, <1>4 DEF SortInv, SortTypeOK
<1>6. SameNumbers'
  <2> SUFFICES ASSUME NEW v \in Numbers PROVE Count(arr', v) = Count(arr, v)
    BY <1>2 DEF SortInv, SameNumbers
  <2>1. CASE ~compare(arr[j], arr[j + 1]) BY <2>1, <1>2
  <2>2. CASE compare(arr[j], arr[j + 1])
    <3>1. /\ arr'[j] = arr[j + 1] /\ arr'[j + 1] = arr[j]
          /\ \A k \in 0 .. n - 1 : k # j /\ k # j + 1 => arr'[k] = arr[k]
      BY <2>2, <1>1, <1>2 DEF swap
    <3> QED BY <3>1, <1>1, <1>3, SwapKeepsCount
  <2> QED BY <2>1, <2>2
<1>7. \A x \in Numbers : x \in Nat BY NumbersAssumption
<1>8. /\ \A k \in 0 .. n - 1 : k # j /\ k # j + 1 => arr'[k] = arr[k]
      /\ ~compare(arr[j], arr[j + 1]) => arr'[j] = arr[j] /\ arr'[j + 1] = arr[j + 1]
      /\ compare(arr[j], arr[j + 1]) => arr'[j] = arr[j + 1] /\ arr'[j + 1] = arr[j]
  BY <1>1, <1>2 DEF swap
<1>9. \A x, y : compare(x, y)' = compare(x, y)
  BY <1>2 DEF compare
<1>10. Settled'
  <2> SUFFICES ASSUME NEW k \in 0 .. n - 1, NEW l \in 0 .. n - 1, k < l, l >= n - i
               PROVE  ~compare(arr'[k], arr'[l])
    BY <1>2, <1>3, <1>4, <1>9 DEF Settled
  <2>1. l # j /\ l # j + 1 /\ j < l /\ j + 1 < l BY <1>1
  <2>2. arr'[l] = arr[l] BY <2>1, <1>8
  <2>3. \A m \in 0 .. n - 1 : m < l => ~compare(arr[m], arr[l])
    BY <1>1 DEF SortInv, Settled
  <2>4. arr'[k] \in {arr[k], arr[j], arr[j + 1]}
    BY <1>8
  <2> QED BY <2>1, <2>2, <2>3, <2>4, <1>1
<1>11. Carried'
  <2> SUFFICES ASSUME NEW k \in 0 .. n - 1, k < j + 1
               PROVE  ~compare(arr'[k], arr'[j + 1])
    BY <1>2, <1>3, <1>9 DEF Carried
  <2>1. \A m \in 0 .. n - 1 : m < j => ~compare(arr[m], arr[j])
    BY <1>1 DEF SortInv, Carried
  <2>2. arr[k] \in Nat /\ arr[j] \in Nat /\ arr[j + 1] \in Nat BY <1>1, <1>7
  <2>3. CASE k = j
    BY <2>2, <2>3, <1>1, <1>8 DEF compare
  <2>4. CASE k # j
    <3>1. k < j /\ arr'[k] = arr[k] /\ ~compare(arr[k], arr[j])
      BY <2>1, <2>4, <1>1, <1>8
    <3> QED BY <2>2, <3>1, <1>8 DEF compare
  <2> QED BY <2>3, <2>4
<1>12. AscendingBetween' /\ DescendingAtEnd'
  BY <1>1, <1>2 DEF AscendingBetween, DescendingAtEnd
<1> QED BY <1>5, <1>6, <1>10, <1>11, <1>12 DEF SortInv

\* The end of a round settles the element that was carried; the end of a call
\* leaves everything settled.
LEMMA RoundsKeepInv == SortInv /\ (NextRound \/ NextCall) => SortInv'
<1> SUFFICES ASSUME SortInv, NextRound \/ NextCall PROVE SortInv'
  OBVIOUS
<1>1. /\ n \in Nat /\ i \in Nat /\ j \in Nat
      /\ arr \in [0 .. n - 1 -> Numbers] /\ DOMAIN arr = 0 .. n - 1
  BY DEF SortInv, SortTypeOK
<1>2. arr' = arr /\ input' = input /\ n' = n
  BY DEF NextRound, NextCall, n
<1>3. SameNumbers' BY <1>2 DEF SortInv, SameNumbers
<1>4. CASE NextRound
  <2>1. /\ i' = i + 1 /\ j' = 0 /\ order' = order /\ order # "done"
        /\ i + 1 < n /\ ~(j + 1 < n - i)
    BY <1>4 DEF NextRound, Outer, Inner
  <2>2. j = n - i - 1
    BY <1>1, <2>1 DEF SortInv, SortTypeOK
  <2>3. SortTypeOK'
    BY <1>1, <1>2, <2>1 DEF SortInv, SortTypeOK
  <2>4. Settled'
    <3> SUFFICES ASSUME NEW k \in 0 .. n - 1, NEW l \in 0 .. n - 1,
                        k < l, l >= n - (i + 1)
                 PROVE  ~compare(arr[k], arr[l])
      BY <1>1, <1>2, <2>1 DEF Settled, compare
    <3>1. CASE l = j BY <3>1, <1>1, <2>1 DEF SortInv, Carried
    <3>2. CASE l # j
      <4>1. l >= n - i BY <3>2, <2>2, <1>1
      <4> QED BY <4>1, <1>1, <2>1 DEF SortInv, Settled
    <3> QED BY <3>1, <3>2
  <2>5. Carried' BY <1>1, <1>2, <2>1 DEF Carried
  <2>6. AscendingBetween' /\ DescendingAtEnd'
    BY <1>1, <2>1 DEF AscendingBetween, DescendingAtEnd
  <2> QED BY <1>3, <2>3, <2>4, <2>5, <2>6 DEF SortInv
<1>5. CASE NextCall
  <2>1. /\ i' = 0 /\ j' = 0 /\ order # "done" /\ ~(i + 1 < n)
        /\ order' = IF order = "ascending" THEN "descending" ELSE "done"
    BY <1>5 DEF NextCall, Outer
  <2>2. \A k \in 0 .. n - 1, l \in 0 .. n - 1 :
          k < l => ~compare(arr[k], arr[l])
    <3> SUFFICES ASSUME NEW k \in 0 .. n - 1, NEW l \in 0 .. n - 1, k < l
                 PROVE  ~compare(arr[k], arr[l])
      OBVIOUS
    <3>1. l >= n - i BY <1>1, <2>1
    <3> QED BY <3>1, <1>1, <2>1 DEF SortInv, Settled
  <2>3. \A k \in 0 .. n - 1 : arr[k] \in Nat BY <1>1, NumbersAssumption
  <2>4. SortTypeOK'
    BY <1>1, <1>2, <2>1 DEF SortInv, SortTypeOK
  <2>5. Settled' /\ Carried' BY <1>1, <1>2, <2>1 DEF Settled, Carried
  <2>6. AscendingBetween'
    BY <1>1, <1>2, <2>1, <2>2, <2>3 DEF AscendingBetween, compare, SortInv, SortTypeOK
  <2>7. DescendingAtEnd'
    BY <1>1, <1>2, <2>1, <2>2, <2>3 DEF DescendingAtEnd, compare, SortInv, SortTypeOK
  <2> QED BY <1>3, <2>4, <2>5, <2>6, <2>7 DEF SortInv
<1> QED BY <1>4, <1>5

\* Bubble sort sorts every array of every length, first in ascending and then
\* in descending order, and only rearranges it.
THEOREM AlwaysSortsTheInput == SortSpec => []SortsTheInput
<1>1. SortInv /\ [SortNext]_sortVars => SortInv'
  <2> SUFFICES ASSUME SortInv, [SortNext]_sortVars PROVE SortInv'
    OBVIOUS
  <2>1. CASE UNCHANGED sortVars
    BY <2>1 DEF sortVars, SortInv, SortTypeOK, SameNumbers, Settled, Carried,
                AscendingBetween, DescendingAtEnd, n, compare
  <2> QED BY <2>1, CompareKeepsInv, RoundsKeepInv DEF SortNext
<1>2. SortInv => SortsTheInput
  BY DEF SortInv, SameNumbers, Settled, AscendingBetween, DescendingAtEnd,
         SortsTheInput
<1> QED BY SortInvInit, <1>1, <1>2, PTL DEF SortSpec
=============================================================================
