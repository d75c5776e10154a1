-------------------------- MODULE MCCircuitBreaker --------------------------
(* Instances of CircuitBreaker for TLC: partial functions a .cfg cannot    *)
(* write, and the symmetry of the calls.                                   *)
EXTENDS CircuitBreaker, TLC

(* chat.ts with useUpstream429BreakerHints: a fixed cooldown per kind.     *)
HintedCooldowns == [k \in Kinds |-> 2]
NoCooldowns     == [k \in {} |-> 0]
NoThresholds    == [k \in {} |-> [threshold |-> 0, immediateOpen |-> FALSE]]
KindsLimited    == [k \in Kinds |-> [threshold |-> 2, immediateOpen |-> FALSE]]

CallSymmetry == Permutations(Calls)
=============================================================================
