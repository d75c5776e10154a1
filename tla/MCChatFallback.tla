--------------------------- MODULE MCChatFallback ---------------------------
(* Instances of ChatFallback for TLC: the symmetry of the requests and of  *)
(* the accounts, for the runs without liveness.                            *)
EXTENDS ChatFallback, TLC

Symmetry == Permutations(Requests) \cup Permutations(Accounts)
=============================================================================
