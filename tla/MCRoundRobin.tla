---------------------------- MODULE MCRoundRobin ----------------------------
(* Instances of RoundRobin for TLC. *)
EXTENDS RoundRobin, TLC

CONSTANTS r1, r2, r3

(* r1 and r2 rotate one by one, r3 in batches. *)
RotatingSymmetry == Permutations({r1, r2})
=============================================================================
