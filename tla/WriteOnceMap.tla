---------------------------- MODULE WriteOnceMap ----------------------------
(* What the hash table of 11_algorithm/hash_table.c promises: a map in which *)
(* a key that has a value keeps it.                                          *)
CONSTANTS Keys, Values, NULL

VARIABLES
    map,    \* the value of each key, NULL for none
    ret     \* what the last call returned

vars == << map, ret >>

Init == map = [k \in Keys |-> NULL] /\ ret = NULL

Put(k, v) ==
    IF map[k] # NULL THEN ret' = 0 /\ UNCHANGED map
    ELSE ret' = 1 /\ map' = [map EXCEPT ![k] = v]

Get(k) == ret' = map[k] /\ UNCHANGED map

Next == \E k \in Keys : Get(k) \/ \E v \in Values \cup {NULL} : Put(k, v)

Spec == Init /\ [][Next]_vars
=============================================================================
