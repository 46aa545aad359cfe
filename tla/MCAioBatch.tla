------------------------------ MODULE MCAioBatch ------------------------------
(* aio_batch_io with a small number of requests. *)
EXTENDS AioBatch
=============================================================================
