-------------------------- MODULE RefreshSerializer --------------------------
(***************************************************************************)
(* serializeRefresh (open-sse/services/refreshSerializer.ts): the network  *)
(* refreshes of one rotation group run one at a time, chained through the  *)
(* tail promise of the group.  The code is split at its three awaits: the  *)
(* predecessor's tail, fn(), and the settle delay.                         *)
(*                                                                         *)
(* A call stands for its tail promise: it is resolved once the call is     *)
(* "out".  A call may be made again when nothing waits on its old promise. *)
(***************************************************************************)
EXTENDS Sequences

CONSTANTS
    Calls,           \* the concurrent calls of serializeRefresh
    Providers,
    Groups,          \* the values of ROTATION_LOCK_GROUP
    RotationGroup,   \* rotationGroupFor: Providers -> Groups \cup {NoGroup}
    NoGroup,         \* a provider whose refresh tokens do not rotate
    NoCall,          \* no entry in groupTail / Promise.resolve()
    Spacing          \* getRefreshSpacingMs() > 0

ASSUME SerializerAssumption ==
    /\ RotationGroup \in [Providers -> Groups \cup {NoGroup}]
    /\ NoGroup \notin Groups
    /\ NoCall \notin Calls
    /\ Spacing \in BOOLEAN

VARIABLES
    pc,         \* where each call is
    lane,       \* the group of its provider
    prevTail,   \* the promise a waiting call awaits
    groupTail   \* the last promise of each group's chain

vars == <<pc, lane, prevTail, groupTail>>

Stages == {"out", "waiting", "refreshing", "settling"}

TypeOK ==
    /\ pc \in [Calls -> Stages]
    /\ lane \in [Calls -> Groups \cup {NoGroup}]
    /\ prevTail \in [Calls -> Calls \cup {NoCall}]
    /\ groupTail \in [Groups -> Calls \cup {NoCall}]

Live(c, g)   == pc[c] # "out" /\ lane[c] = g
Active(c)    == pc[c] \in {"refreshing", "settling"}
Resolved(p)  == p # NoCall => pc[p] = "out"
Awaited(c)   == \E d \in Calls : pc[d] = "waiting" /\ prevTail[d] = c

Init ==
    /\ pc = [c \in Calls |-> "out"]
    /\ lane = [c \in Calls |-> NoGroup]
    /\ prevTail = [c \in Calls |-> NoCall]
    /\ groupTail = [g \in Groups |-> NoCall]

(* No lane: fn() is called at once. *)
RefreshUnserialized(c, p) ==
    /\ pc[c] = "out" /\ ~Awaited(c)
    /\ RotationGroup[p] = NoGroup
    /\ pc' = [pc EXCEPT ![c] = "refreshing"]
    /\ lane' = [lane EXCEPT ![c] = NoGroup]
    /\ UNCHANGED <<prevTail, groupTail>>

(* Mutant: the tail is only set when the group has no lane yet. *)
ChainedOnce(c, g) ==
    [groupTail EXCEPT ![g] = IF groupTail[g] = NoCall THEN c ELSE groupTail[g]]

(* groupTail.set(group, myTail) *)
Chained(c, g) == [groupTail EXCEPT ![g] = c]

Enqueue(c, p) ==
    LET g == RotationGroup[p] IN
    /\ pc[c] = "out" /\ ~Awaited(c)
    /\ g # NoGroup
    /\ pc' = [pc EXCEPT ![c] = "waiting"]
    /\ lane' = [lane EXCEPT ![c] = g]
    /\ prevTail' = [prevTail EXCEPT ![c] = groupTail[g]]
    /\ groupTail' = Chained(c, g)

(* await prevTail, then fn(). *)
MyTurn(c) ==
    /\ pc[c] = "waiting"
    /\ Resolved(prevTail[c])
    /\ pc' = [pc EXCEPT ![c] = "refreshing"]
    /\ prevTail' = [prevTail EXCEPT ![c] = NoCall]
    /\ UNCHANGED <<lane, groupTail>>

(* Mutant: the test of the lane is the wrong way round. *)
NoSuccessor(c) == groupTail[lane[c]] = c

HasSuccessor(c) == groupTail[lane[c]] # c

(* Mutant: the lane is forgotten by whoever leaves it. *)
Forgotten(c) == [groupTail EXCEPT ![lane[c]] = NoCall]

(* Mutant: the entry is blanked instead of deleted, so the key stays. *)
Blanked(c) ==
    [groupTail EXCEPT ![lane[c]] = IF groupTail[lane[c]] = c THEN NoGroup ELSE groupTail[lane[c]]]

(* The lane is garbage-collected when nobody chained after c. *)
Collected(c) ==
    [groupTail EXCEPT ![lane[c]] = IF groupTail[lane[c]] = c THEN NoCall ELSE groupTail[lane[c]]]

(* Mutant: the promise is released in the branch that collects the lane. *)
ReleaseLast(c) ==
    /\ groupTail[lane[c]] = c
    /\ pc' = [pc EXCEPT ![c] = "out"]
    /\ groupTail' = Collected(c)
    /\ UNCHANGED <<lane, prevTail>>

(* releaseMine() and the collection, one synchronous stretch. *)
Release(c) ==
    /\ pc' = [pc EXCEPT ![c] = "out"]
    /\ groupTail' = Collected(c)
    /\ UNCHANGED <<lane, prevTail>>

(* fn() settles, with tokens or with an error: the finally block is the    *)
(* same.                                                                   *)
EndUnserialized(c) ==
    /\ pc[c] = "refreshing" /\ lane[c] = NoGroup
    /\ pc' = [pc EXCEPT ![c] = "out"]
    /\ UNCHANGED <<lane, prevTail, groupTail>>

End(c) ==
    /\ pc[c] = "refreshing" /\ lane[c] # NoGroup
    /\ ~(HasSuccessor(c) /\ Spacing)
    /\ Release(c)

EndAndSettle(c) ==
    /\ pc[c] = "refreshing" /\ lane[c] # NoGroup
    /\ HasSuccessor(c) /\ Spacing
    /\ pc' = [pc EXCEPT ![c] = "settling"]
    /\ UNCHANGED <<lane, prevTail, groupTail>>

Settled(c) == pc[c] = "settling" /\ Release(c)

Arrive(c) == \E p \in Providers : RefreshUnserialized(c, p) \/ Enqueue(c, p)

Next ==
    \E c \in Calls :
        \/ Arrive(c)
        \/ MyTurn(c)
        \/ EndUnserialized(c)
        \/ End(c)
        \/ EndAndSettle(c)
        \/ Settled(c)

Spec == Init /\ [][Next]_vars

(* A resolved promise runs its continuation, a timer fires, and a refresh  *)
(* request ends: undici's own timeouts bound it, the code adds none.       *)
Fairness ==
    \A c \in Calls :
        WF_vars(MyTurn(c)) /\ WF_vars(End(c) \/ EndAndSettle(c)) /\ WF_vars(Settled(c))

FairSpec == Spec /\ Fairness

-----------------------------------------------------------------------------
(* Two siblings of one rotation group never refresh at the same time, and  *)
(* none refreshes while another's rotation settles: the serializer's       *)
(* purpose, whatever order calls arrive, fail and collect the lane in.     *)
MutualExclusion ==
    \A c, d \in Calls :
        Active(c) /\ Active(d) /\ lane[c] = lane[d] /\ lane[c] # NoGroup => c = d

(* The lane of a group is in groupTail exactly while a call of the group   *)
(* is waiting, refreshing or settling: it never leaks, and it is never     *)
(* collected under a call that a newcomer would then not wait for.  It     *)
(* follows from ChainInvariant.                                            *)
LaneIffLive ==
    \A g \in Groups : groupTail[g] # NoCall <=> \E c \in Calls : Live(c, g)

(* With spacing on, a refresh that ends while a sibling waits behind it    *)
(* keeps the lane for the settle delay: no queued sibling presents its     *)
(* token right after a rotation.                                           *)
QueuedSiblingWaitsForGap ==
    [][\A c \in Calls :
          Spacing /\ pc[c] = "refreshing" /\ pc'[c] = "out"
             => ~\E d \in Calls : pc[d] = "waiting" /\ lane[d] = lane[c]]_vars

(* The inductive invariant: each group's live calls form one chain.  Its   *)
(* head is the call whose predecessor is resolved, no two calls wait for   *)
(* the same promise, the tail is a live call nobody waits for, and no      *)
(* waiting calls wait for each other in a circle.                          *)
IsHead(c, g) == Live(c, g) /\ (pc[c] = "waiting" => Resolved(prevTail[c]))

OneHead ==
    \A g \in Groups : \A c, d \in Calls : IsHead(c, g) /\ IsHead(d, g) => c = d

OneFollower ==
    \A c, d \in Calls :
        (/\ pc[c] = "waiting" /\ pc[d] = "waiting"
         /\ prevTail[c] = prevTail[d] /\ prevTail[c] # NoCall) => c = d

FollowsInLane ==
    \A c \in Calls :
        /\ pc[c] \in {"waiting", "settling"} => lane[c] \in Groups
        /\ pc[c] = "waiting" /\ ~Resolved(prevTail[c]) => lane[prevTail[c]] = lane[c]

TailIsLast ==
    \A g \in Groups :
        /\ groupTail[g] = NoCall => \A c \in Calls : ~Live(c, g)
        /\ groupTail[g] # NoCall => Live(groupTail[g], g) /\ ~Awaited(groupTail[g])

Grounded ==
    \A S \in SUBSET {c \in Calls : pc[c] = "waiting"} :
        S # {} => \E c \in S : prevTail[c] \notin S

ChainInvariant == OneHead /\ OneFollower /\ FollowsInLane /\ TailIsLast /\ Grounded

-----------------------------------------------------------------------------
(* The abstract line of a group, read off the chain of promises.           *)
LineUpTo[c \in Calls] ==
    IF pc[c] = "waiting" /\ ~Resolved(prevTail[c])
    THEN Append(LineUpTo[prevTail[c]], c)
    ELSE <<c>>

Line(g) == IF groupTail[g] = NoCall THEN <<>> ELSE LineUpTo[groupTail[g]]

Lines  == [g \in Groups |-> Line(g)]
Served == {c \in Calls : lane[c] # NoGroup /\ Active(c)}

Lane == INSTANCE RefreshLane WITH line <- Lines, active <- Served

(* The promise chain implements the line: calls of a group are served one  *)
(* at a time and in the order they came, and, with the fairness above,     *)
(* every one of them is served even when those before it fail.             *)
ImplementsLane == Lane!FairSpec
=============================================================================
