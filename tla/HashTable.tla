------------------------------ MODULE HashTable ------------------------------
(* The hash table of 11_algorithm/hash_table.c: chaining with a dummy head,  *)
(* new entries in front.  Nothing is assumed of hashCode() but that it stays *)
(* within the table: hash is any such function.                              *)
EXTENDS Naturals, Sequences

CONSTANTS
    Keys, Values, NULL,
    Size,       \* ht->size, N in the code
    MaxEntries  \* bound: how many entries a bucket gets

ASSUME SizeAssumption == Size \in Nat \ {0}

VARIABLES
    hash,       \* hashCode() of each key
    table,      \* the entries of each bucket, the first one first
    ret         \* what the last call returned

dictVars == << hash, table, ret >>

Buckets == 0 .. Size - 1
Entries == [key : Keys, val : Values \cup {NULL}]

\* main(): size buckets without entries
DictInit ==
    /\ hash \in [Keys -> Buckets]
    /\ table = [b \in Buckets |-> << >>]
    /\ ret = NULL

\* The cursor stops at entry i of the bucket.
Matches(bucket, k, i) ==
    /\ i \in DOMAIN bucket /\ bucket[i].key = k
    /\ \A j \in DOMAIN bucket : j < i => bucket[j].key # k

Lookup(bucket, k) ==
    IF \E i \in DOMAIN bucket : Matches(bucket, k, i)
    THEN bucket[CHOOSE i \in DOMAIN bucket : Matches(bucket, k, i)].val
    ELSE NULL

Found(k) == Lookup(table[hash[k]], k)

dictGet(k) == ret' = Found(k) /\ UNCHANGED << hash, table >>

Insert(k, v) ==
    table' = [table EXCEPT ![hash[k]] = << [key |-> k, val |-> v] >> \o @]

\* Fault: a key that is present is not refused.
dictPutFault(k, v) ==
    /\ Len(table[hash[k]]) < MaxEntries
    /\ ret' = 1 /\ Insert(k, v)
    /\ UNCHANGED hash

\* A key that is present is refused; NULL, as the value of an entry, is taken
\* for its absence.
dictPut(k, v) ==
    /\ Len(table[hash[k]]) < MaxEntries
    /\ IF Found(k) # NULL THEN ret' = 0 /\ UNCHANGED table
       ELSE ret' = 1 /\ Insert(k, v)
    /\ UNCHANGED hash

DictNext ==
    \E k \in Keys : dictGet(k) \/ \E v \in Values \cup {NULL} : dictPut(k, v)

DictSpec == DictInit /\ [][DictNext]_dictVars

-----------------------------------------------------------------------------
(* Properties. *)

Map == INSTANCE WriteOnceMap WITH map <- [k \in Keys |-> Found(k)]

\* dictPut and dictGet behave as a map in which a key keeps its first value,
\* whatever keys collide and although a key that was put with NULL is then in
\* its bucket twice.
DictImplementsMap == Map!Spec
=============================================================================
