---------------------------- MODULE FairSemaphore ----------------------------
(***************************************************************************)
(* What the queueing semaphores of open-sse/services promise while nothing *)
(* blocks or resets them: at most Cap requests hold a slot, nobody waits   *)
(* while a slot is free, a freed slot goes to whoever waited longest, and  *)
(* a request that keeps waiting is admitted.                               *)
(***************************************************************************)
EXTENDS Integers, Sequences, FiniteSets

CONSTANTS Requests, Cap

VARIABLES
    holding,   \* the requests that hold a slot
    line       \* the requests that wait, in order of arrival

vars == <<holding, line>>

Waiting(r)    == \E i \in DOMAIN line : line[i] = r
Without(q, i) == SubSeq(q, 1, i - 1) \o SubSeq(q, i + 1, Len(q))

Init == holding = {} /\ line = <<>>

Admit(r) ==
    /\ r \notin holding /\ ~Waiting(r)
    /\ line = <<>> /\ Cardinality(holding) < Cap
    /\ holding' = holding \cup {r}
    /\ UNCHANGED line

Wait(r) ==
    /\ r \notin holding /\ ~Waiting(r)
    /\ Cardinality(holding) = Cap
    /\ line' = Append(line, r)
    /\ UNCHANGED holding

Release(r) ==
    /\ r \in holding
    /\ IF line = <<>>
       THEN holding' = holding \ {r} /\ UNCHANGED line
       ELSE holding' = (holding \ {r}) \cup {Head(line)} /\ line' = Tail(line)

GiveUp(r) ==
    /\ \E i \in DOMAIN line : line[i] = r /\ line' = Without(line, i)
    /\ UNCHANGED holding

Next == \E r \in Requests : Admit(r) \/ Wait(r) \/ Release(r) \/ GiveUp(r)

Spec == Init /\ [][Next]_vars

FairSpec == Spec /\ \A r \in Requests : WF_vars(Release(r))
=============================================================================
