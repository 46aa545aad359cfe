--------------------------- MODULE HeapParameters ---------------------------
(* What the timer queue and the heap that implements it are parameterised by. *)
EXTENDS Integers, FiniteSets

CONSTANTS
    Timers,   \* addresses of heap_timer objects; a freed one may be reused
    Delays,   \* the arguments of heap_timer(int delay)
    MaxTime,  \* bound on the clock
    NULL

ASSUME DelaysAssumption == Delays \subseteq Nat /\ MaxTime \in Nat

ASSUME TimersAssumption == IsFiniteSet(Timers) /\ NULL \notin Timers
=============================================================================
