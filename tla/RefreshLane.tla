----------------------------- MODULE RefreshLane -----------------------------
(***************************************************************************)
(* What refreshSerializer.ts promises, with no promise chain: every        *)
(* rotation group is a line of calls, only the first of a line refreshes,  *)
(* and every call that joins a line is served.                             *)
(***************************************************************************)
EXTENDS Sequences

CONSTANTS Calls, Groups

VARIABLES
    line,    \* per group, the calls that joined, in order of arrival
    active   \* the calls refreshing, or settling after a refresh

vars == <<line, active>>

InLine(c, g) == \E i \in DOMAIN line[g] : line[g][i] = c
First(c, g)  == line[g] # <<>> /\ Head(line[g]) = c

Init == line = [g \in Groups |-> <<>>] /\ active = {}

Join(c, g) ==
    /\ \A h \in Groups : ~InLine(c, h)
    /\ line' = [line EXCEPT ![g] = Append(@, c)]
    /\ UNCHANGED active

Begin(c, g) ==
    /\ First(c, g) /\ c \notin active
    /\ active' = active \cup {c}
    /\ UNCHANGED line

Leave(c, g) ==
    /\ First(c, g) /\ c \in active
    /\ line' = [line EXCEPT ![g] = Tail(@)]
    /\ active' = active \ {c}

Next == \E c \in Calls, g \in Groups : Join(c, g) \/ Begin(c, g) \/ Leave(c, g)

Fairness == \A c \in Calls, g \in Groups : WF_vars(Begin(c, g)) /\ WF_vars(Leave(c, g))

Spec == Init /\ [][Next]_vars

FairSpec == Spec /\ Fairness
=============================================================================
