----------------------------- MODULE BubbleSort -----------------------------
(* 01_linux/bubble_sort.c: the array is sorted in ascending and then in      *)
(* descending order; one step is one comparison.                             *)
EXTENDS Naturals, FiniteSets

CONSTANTS Numbers, MaxLen

ASSUME NumbersAssumption == Numbers \subseteq Nat /\ MaxLen \in Nat

VARIABLES
    arr, i, j,
    order,      \* the comparison function of the current call, or "done"
    input       \* history: the array before the calls

sortVars == << arr, i, j, order, input >>

SortInit ==
    /\ \E n \in 0 .. MaxLen : arr \in [0 .. n - 1 -> Numbers]
    /\ i = 0 /\ j = 0 /\ order = "ascending" /\ input = arr

n == Cardinality(DOMAIN arr)

compare(a, b) == IF order = "ascending" THEN a > b ELSE a < b

swap(x, y) == [arr EXCEPT ![x] = arr[y], ![y] = arr[x]]

\* Fault: the inner loop ends one comparison early.
InnerFault == j + 2 < n - i

\* The conditions of the two loops.
Outer == i + 1 < n
Inner == j + 1 < n - i

Compare ==
    /\ order # "done" /\ Outer /\ Inner
    /\ arr' = IF compare(arr[j], arr[j + 1]) THEN swap(j, j + 1) ELSE arr
    /\ j' = j + 1
    /\ UNCHANGED << i, order, input >>

NextRound ==
    /\ order # "done" /\ Outer /\ ~Inner
    /\ i' = i + 1 /\ j' = 0
    /\ UNCHANGED << arr, order, input >>

\* bubbleSort() returns; main() calls it again with the other function.
NextCall ==
    /\ order # "done" /\ ~Outer
    /\ order' = IF order = "ascending" THEN "descending" ELSE "done"
    /\ i' = 0 /\ j' = 0
    /\ UNCHANGED << arr, input >>

SortNext == Compare \/ NextRound \/ NextCall

SortSpec == SortInit /\ [][SortNext]_sortVars

-----------------------------------------------------------------------------
(* Properties. *)

Count(a, v) == Cardinality({k \in DOMAIN a : a[k] = v})

\* The array stays a rearrangement of the input; after i rounds its last i
\* elements are in their final places; the two calls leave it sorted, also the
\* second one, which starts from the worst case, and for lengths 0 and 1.
SortsTheInput ==
    /\ \A v \in Numbers : Count(arr, v) = Count(input, v)
    /\ order # "done" =>
         \A k \in DOMAIN arr, l \in DOMAIN arr :
            k < l /\ l >= n - i => ~compare(arr[k], arr[l])
    /\ order = "descending" /\ i = 0 /\ j = 0 =>
         \A k \in DOMAIN arr, l \in DOMAIN arr : k < l => arr[k] <= arr[l]
    /\ order = "done" =>
         \A k \in DOMAIN arr, l \in DOMAIN arr : k < l => arr[k] >= arr[l]
=============================================================================
