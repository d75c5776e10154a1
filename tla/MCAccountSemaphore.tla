------------------------- MODULE MCAccountSemaphore -------------------------
(* Instances of AccountSemaphore for TLC. *)
EXTENDS AccountSemaphore, TLC

RequestSymmetry == Permutations(Requests)
=============================================================================
