-------------------------- MODULE MCBatchProcessor --------------------------
(* One batch of two lines and one of a single line. *)
EXTENDS BatchProcessor, TLC

CONSTANTS b1, b2

MCSize == (b1 :> 2) @@ (b2 :> 1)
=============================================================================
