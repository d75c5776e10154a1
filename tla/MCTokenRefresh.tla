--------------------------- MODULE MCTokenRefresh ---------------------------
(* Two callers of the connection's refresh, as model values. *)
EXTENDS TokenRefresh

CONSTANTS c1, c2
=============================================================================
