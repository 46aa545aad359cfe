---------------------------- MODULE BoundedQueue ----------------------------
(* What the producer/consumer program of 06_mutex/semaphone.c promises: a  *)
(* first-in first-out queue of bounded length.  An item enters the queue   *)
(* in one step and the consumer gets the oldest item in one step.          *)
EXTENDS Naturals, Sequences

CONSTANTS
    Items,       \* what producer() may generate: rand() % 100
    BUFFER_SIZE  \* the most items the queue holds

VARIABLES
    queue,       \* the items produced and not yet consumed, oldest first
    got          \* the item the consumer took last

vars == <<queue, got>>

Init == queue = << >> /\ got \in Items

Put(item) ==
    /\ Len(queue) < BUFFER_SIZE
    /\ queue' = Append(queue, item)
    /\ UNCHANGED got

Get ==
    /\ queue # << >>
    /\ got' = Head(queue)
    /\ queue' = Tail(queue)

Next == Get \/ \E item \in Items : Put(item)

Spec == Init /\ [][Next]_vars
=============================================================================
