----------------------------- MODULE LinkedList -----------------------------
(* The singly linked list with a tail pointer of 11_algorithm/linked_list.c. *)
(* A node is its place in the order of the calls of malloc, 0 is NULL.  The  *)
(* loops of remove_node and iterate_list take one step for each node that    *)
(* the cursor visits.                                                        *)
EXTENDS Naturals, Sequences

CONSTANTS
    Items,      \* the values
    MaxNodes,   \* bound: calls of add_node
    LenRange    \* how many values list->len has, 2^32 in the code

ASSUME ListAssumption == MaxNodes \in Nat /\ LenRange \in Nat \ {0}

VARIABLES
    nodes,      \* the next pointer and the value of each node
    head, tail, len,
    running,    \* the call that is in its loop, or "none"
    value,      \* the argument of remove_node
    cursor, prev,
    printed,    \* what the last iterate_list has printed
    len0,       \* history: list->len is not initialised by main()
    content     \* history: the nodes that were added and not removed

list == << nodes, head, tail, len, len0, content >>
locals == << running, value, cursor, prev, printed >>
listVars == << list, locals >>

ListInit ==
    /\ nodes = << >> /\ head = 0 /\ tail = 0 /\ content = << >>
    /\ len0 \in 0 .. LenRange - 1 /\ len = len0
    /\ running = "none" /\ value = 0 /\ cursor = 0 /\ prev = 0 /\ printed = << >>

\* list->len is unsigned.
Increment(x) == IF x = LenRange - 1 THEN 0 ELSE x + 1
Decrement(x) == IF x = 0 THEN LenRange - 1 ELSE x - 1

add_node(v) ==
    LET new == Len(nodes) + 1
        linked == IF tail = 0 THEN nodes ELSE [nodes EXCEPT ![tail].next = new]
    IN  /\ running = "none"
        /\ Len(nodes) < MaxNodes
        /\ nodes' = Append(linked, [next |-> 0, value |-> v])
        /\ head' = IF tail = 0 THEN new ELSE head
        /\ tail' = new
        /\ len' = Increment(len)
        /\ content' = Append(content, new)
        /\ UNCHANGED << len0, locals >>

-----------------------------------------------------------------------------
(* remove_node: what is left after it, and its loop. *)

Value(k) == nodes[content[k]].value

\* The place in the list of the first node with value v.
IsFirst(v, k) ==
    k \in DOMAIN content /\ Value(k) = v /\ \A m \in 1 .. k - 1 : Value(m) # v

Without(s, k) == [m \in 1 .. Len(s) - 1 |-> IF m < k THEN s[m] ELSE s[m + 1]]

\* The list after a call that removes the first node with value v, if any.
Remaining(v) ==
    IF \E k \in DOMAIN content : IsFirst(v, k)
    THEN Without(content, CHOOSE k \in DOMAIN content : IsFirst(v, k))
    ELSE content

remove_node(v) ==
    /\ running = "none"
    /\ running' = "remove_node" /\ value' = v
    /\ cursor' = head /\ prev' = 0
    /\ UNCHANGED << list, printed >>

Unlink ==
    IF prev = 0
    THEN head' = nodes[cursor].next /\ UNCHANGED nodes
    ELSE nodes' = [nodes EXCEPT ![prev].next = nodes[cursor].next] /\ UNCHANGED head

\* Fault: the tail pointer is not moved.
RemoveFoundFault ==
    /\ running = "remove_node" /\ cursor # 0
    /\ nodes[cursor].value = value
    /\ Unlink
    /\ len' = Decrement(len)
    /\ running' = "none"
    /\ content' = Remaining(value)
    /\ UNCHANGED << tail, len0, value, cursor, prev, printed >>

\* The node is unlinked, and not freed.
RemoveFound ==
    /\ running = "remove_node" /\ cursor # 0
    /\ nodes[cursor].value = value
    /\ Unlink
    /\ tail' = IF tail = cursor THEN prev ELSE tail
    /\ len' = Decrement(len)
    /\ running' = "none"
    /\ content' = Remaining(value)
    /\ UNCHANGED << len0, value, cursor, prev, printed >>

RemoveAdvance ==
    /\ running = "remove_node" /\ cursor # 0
    /\ nodes[cursor].value # value
    /\ prev' = cursor /\ cursor' = nodes[cursor].next
    /\ UNCHANGED << list, running, value, printed >>

RemoveMissing ==
    /\ running = "remove_node" /\ cursor = 0
    /\ running' = "none"
    /\ content' = Remaining(value)
    /\ UNCHANGED << nodes, head, tail, len, len0, value, cursor, prev, printed >>

-----------------------------------------------------------------------------
iterate_list ==
    /\ running = "none"
    /\ running' = "iterate_list" /\ cursor' = head /\ printed' = << >>
    /\ UNCHANGED << list, value, prev >>

IterateAdvance ==
    /\ running = "iterate_list" /\ cursor # 0
    /\ printed' = Append(printed, nodes[cursor].value)
    /\ cursor' = nodes[cursor].next
    /\ UNCHANGED << list, running, value, prev >>

IterateEnd ==
    /\ running = "iterate_list" /\ cursor = 0
    /\ running' = "none"
    /\ UNCHANGED << list, value, cursor, prev, printed >>

ListNext ==
    \/ \E v \in Items : add_node(v) \/ remove_node(v)
    \/ RemoveFound \/ RemoveAdvance \/ RemoveMissing
    \/ iterate_list \/ IterateAdvance \/ IterateEnd

ListSpec == ListInit /\ [][ListNext]_listVars

-----------------------------------------------------------------------------
(* Properties. *)

\* The nodes from head on are those of the history, and tail is the last one.
Linked ==
    /\ head = IF content = << >> THEN 0 ELSE content[1]
    /\ tail = IF content = << >> THEN 0 ELSE content[Len(content)]
    /\ \A k \in DOMAIN content :
         nodes[content[k]].next = IF k = Len(content) THEN 0 ELSE content[k + 1]

LenFollows == len = (len0 + Len(content)) % LenRange

AllPrinted ==
    running = "iterate_list" /\ cursor = 0 =>
        /\ Len(printed) = Len(content)
        /\ \A k \in DOMAIN content : printed[k] = Value(k)

\* After any sequence of calls the nodes from head on are exactly those that
\* were added and not removed, in order, tail is the last of them, so that the
\* next add_node loses nothing, len has followed from wherever it started, and
\* iterate_list prints all of them before it ends.
ListHoldsContent == Linked /\ LenFollows /\ AllPrinted
=============================================================================
