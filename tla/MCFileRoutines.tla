--------------------------- MODULE MCFileRoutines ---------------------------
(* Instance of FileRoutines for model checking.                             *)
EXTENDS FileRoutines
=============================================================================
