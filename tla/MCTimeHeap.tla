----------------------------- MODULE MCTimeHeap -----------------------------
(* Instance of TimeHeap for model checking.                                 *)
EXTENDS TimeHeap, TLC

TimerSymmetry == Permutations(Timers)
=============================================================================
