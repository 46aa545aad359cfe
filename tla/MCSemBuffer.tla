----------------------------- MODULE MCSemBuffer -----------------------------
(* Instance of SemBuffer for model checking: the program's five slots, and   *)
(* two items, which tell any two slots apart.                                *)
EXTENDS SemBuffer
=============================================================================
