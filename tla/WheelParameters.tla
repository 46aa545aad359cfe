--------------------------- MODULE WheelParameters --------------------------
(* What the tick timers and the wheel that implements them are parameterised  *)
(* by.                                                                        *)
EXTENDS Integers, FiniteSets

CONSTANTS
    Timers,    \* addresses of tw_timer objects; a freed one may be reused
    N,         \* number of slots of the wheel
    MaxTicks,  \* bound on the number of ticks
    NULL

ASSUME WheelAssumption ==
    /\ IsFiniteSet(Timers)
    /\ N \in Nat \ {0}
    /\ MaxTicks \in Nat
    /\ NULL \notin Timers
=============================================================================
