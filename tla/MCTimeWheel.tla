---------------------------- MODULE MCTimeWheel -----------------------------
(* Instance of TimeWheel for model checking.                                *)
EXTENDS TimeWheel
=============================================================================
