---------------------------- MODULE MCStructures ----------------------------
(* The three data structures, one at a time: those that are not run stay in *)
(* one initial state.                                                        *)
EXTENDS HashTable, LinkedList, BubbleSort

VARIABLE example

vars == << dictVars, listVars, sortVars, example >>

Init ==
    /\ example \in {"dict", "list", "sort"}
    /\ DictInit /\ ListInit /\ SortInit
    /\ example # "dict" => hash = [k \in Keys |-> 0]
    /\ example # "list" => len0 = 0
    /\ example # "sort" => n = 0

Next ==
    \/ example = "dict" /\ DictNext /\ UNCHANGED << listVars, sortVars, example >>
    \/ example = "list" /\ ListNext /\ UNCHANGED << dictVars, sortVars, example >>
    \/ example = "sort" /\ SortNext /\ UNCHANGED << dictVars, listVars, example >>

Spec == Init /\ [][Next]_vars
=============================================================================
