------------------------ MODULE MCRefreshSerializer ------------------------
(* Instances of RefreshSerializer for TLC: codex and openai share a lane,  *)
(* claude has its own and gemini has none.                                 *)
EXTENDS RefreshSerializer, TLC

CONSTANTS codex, claude, gemini, auth0, anthropic

GroupTable == codex :> auth0 @@ claude :> anthropic @@ gemini :> NoGroup

CallSymmetry == Permutations(Calls)
=============================================================================
