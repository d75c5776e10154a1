---------------------- MODULE RefreshSerializer_proofs ----------------------
(***************************************************************************)
(* For any number of calls, providers and rotation groups: the chain of    *)
(* promises is one line per group, so two siblings never refresh at once,  *)
(* a lane exists exactly while it is used, and the settle delay is kept    *)
(* before every queued sibling; and the chain implements the abstract line *)
(* of RefreshLane, step by step.                                           *)
(***************************************************************************)
EXTENDS RefreshSerializer, TLAPS

IInv == TypeOK /\ ChainInvariant

USE SerializerAssumption

LEMMA InitChain == Init => IInv
  BY DEF Init, IInv, TypeOK, ChainInvariant, OneHead, OneFollower, FollowsInLane,
         TailIsLast, Grounded, IsHead, Live, Stages

LEMMA TypeStep == TypeOK /\ [Next]_vars => TypeOK'
<1> SUFFICES ASSUME TypeOK, [Next]_vars PROVE TypeOK'
  OBVIOUS
<1> USE DEF TypeOK, Stages
<1>1. CASE UNCHANGED vars
  BY <1>1 DEF vars
<1>2. ASSUME NEW c \in Calls, Arrive(c) PROVE TypeOK'
  BY <1>2 DEF Arrive, RefreshUnserialized, Enqueue, Chained
<1>3. ASSUME NEW c \in Calls, MyTurn(c) \/ EndAndSettle(c) \/ EndUnserialized(c) PROVE TypeOK'
  BY <1>3 DEF MyTurn, EndAndSettle, EndUnserialized
<1>4. ASSUME NEW c \in Calls, Release(c) PROVE TypeOK'
  BY <1>4 DEF Release, Collected
<1> QED
  BY <1>1, <1>2, <1>3, <1>4 DEF Next, End, Settled

(* A call outside every lane changes no chain. *)
LEMMA UnserializedKeepsChain ==
  ASSUME IInv, NEW c \in Calls,
         \/ \E p \in Providers : RefreshUnserialized(c, p)
         \/ EndUnserialized(c)
  PROVE  ChainInvariant'
<1> USE DEF RefreshUnserialized, EndUnserialized, IInv, TypeOK, ChainInvariant, Stages
<1>0. ~Awaited(c)
  BY DEF Awaited, FollowsInLane, Resolved
<1>1. OneHead'
  <2> SUFFICES ASSUME NEW g \in Groups, NEW d \in Calls, IsHead(d, g)'
               PROVE  IsHead(d, g)
    BY DEF OneHead
  <2> QED
    BY <1>0 DEF IsHead, Live, Resolved, Awaited
<1>2. OneFollower'
  BY DEF OneFollower
<1>3. FollowsInLane'
  BY <1>0 DEF FollowsInLane, Resolved, Awaited
<1>4. TailIsLast'
  BY DEF TailIsLast, Live, Awaited
<1>5. Grounded'
  BY DEF Grounded
<1> QED
  BY <1>1, <1>2, <1>3, <1>4, <1>5

(* A newcomer is chained behind the tail: it is the head only of an empty lane. *)
LEMMA EnqueueKeepsChain ==
  ASSUME IInv, NEW c \in Calls, NEW p \in Providers, Enqueue(c, p)
  PROVE  ChainInvariant'
<1> DEFINE g == RotationGroup[p]
<1> USE DEF Enqueue, Chained, IInv, TypeOK, ChainInvariant, Stages
<1>0. g \in Groups /\ groupTail[g] # c
  BY DEF TailIsLast, Live
<1>1. OneHead'
  BY <1>0 DEF OneHead, IsHead, Live, Resolved, Awaited, TailIsLast
<1>2. OneFollower'
  BY <1>0 DEF OneFollower, TailIsLast, Awaited, FollowsInLane, Resolved
<1>3. FollowsInLane'
  BY <1>0 DEF FollowsInLane, Resolved, Awaited, TailIsLast, Live
<1>4. TailIsLast'
  BY <1>0 DEF TailIsLast, Live, Awaited
<1>5. Grounded'
  <2> SUFFICES ASSUME NEW S \in SUBSET {d \in Calls : pc'[d] = "waiting"}, S # {}
               PROVE  \E d \in S : prevTail'[d] \notin S
    BY DEF Grounded
  <2>1. CASE S = {c}
    BY <2>1, <1>0
  <2>2. CASE S # {c}
    <3>1. S \ {c} # {} /\ S \ {c} \in SUBSET {d \in Calls : pc[d] = "waiting"}
      BY <2>2
    <3>2. PICK d \in S \ {c} : prevTail[d] \notin S \ {c}
      BY <3>1 DEF Grounded
    <3>3. prevTail[d] # c /\ prevTail'[d] = prevTail[d]
      BY <3>2, <3>1 DEF Awaited
    <3> QED
      BY <3>2, <3>3
  <2> QED
    BY <2>1, <2>2
<1> QED
  BY <1>1, <1>2, <1>3, <1>4, <1>5

(* The head of a chain stays its head when it starts or settles. *)
LEMMA HeadStaysHead ==
  ASSUME IInv, NEW c \in Calls, MyTurn(c) \/ EndAndSettle(c)
  PROVE  ChainInvariant'
<1> USE DEF MyTurn, EndAndSettle, IInv, TypeOK, ChainInvariant, Stages
<1>1. OneHead'
  BY DEF OneHead, IsHead, Live, Resolved
<1>2. OneFollower'
  BY DEF OneFollower
<1>3. FollowsInLane'
  BY DEF FollowsInLane, Resolved
<1>4. TailIsLast'
  BY DEF TailIsLast, Live, Awaited
<1>5. Grounded'
  BY DEF Grounded
<1> QED
  BY <1>1, <1>2, <1>3, <1>4, <1>5

(* A tail that is not waiting has its lane for itself. *)
LEMMA TailAlone ==
  ASSUME IInv, NEW c \in Calls, Active(c), lane[c] \in Groups, groupTail[lane[c]] = c
  PROVE  \A d \in Calls : Live(d, lane[c]) => d = c
<1> DEFINE S == {d \in Calls : Live(d, lane[c]) /\ d # c}
<1> USE DEF IInv, TypeOK, ChainInvariant
<1>1. IsHead(c, lane[c])
  BY DEF IsHead, Live, Active
<1>2. ASSUME NEW d \in S
      PROVE  pc[d] = "waiting" /\ prevTail[d] \in S
  <2>1. ~IsHead(d, lane[c])
    BY <1>1 DEF OneHead
  <2>2. pc[d] = "waiting" /\ ~Resolved(prevTail[d])
    BY <2>1 DEF IsHead
  <2>3. prevTail[d] \in Calls /\ Live(prevTail[d], lane[c])
    BY <2>2 DEF FollowsInLane, Resolved, Live
  <2>4. prevTail[d] # c
    BY <2>2 DEF TailIsLast, Awaited
  <2> QED
    BY <2>2, <2>3, <2>4
<1>3. S = {}
  <2>1. S \in SUBSET {d \in Calls : pc[d] = "waiting"}
    BY <1>2
  <2>2. \A d \in S : prevTail[d] \in S
    BY <1>2
  <2> QED
    BY <2>1, <2>2 DEF Grounded
<1> QED
  BY <1>3

(* Whoever waits for the leaving head becomes the head. *)
LEMMA ReleaseKeepsChain ==
  ASSUME IInv, NEW c \in Calls, Active(c), lane[c] \in Groups, Release(c)
  PROVE  ChainInvariant'
<1> USE DEF Release, Collected, IInv, TypeOK, ChainInvariant, Stages
<1>0. IsHead(c, lane[c])
  BY DEF IsHead, Live, Active
<1>1. OneHead'
  <2> SUFFICES ASSUME NEW g \in Groups, NEW d \in Calls, NEW e \in Calls,
                      IsHead(d, g)', IsHead(e, g)'
               PROVE  d = e
    BY DEF OneHead
  <2>1. d # c /\ e # c /\ Live(d, g) /\ Live(e, g)
    BY DEF IsHead, Live
  <2>2. IsHead(d, g) \/ (pc[d] = "waiting" /\ prevTail[d] = c)
    BY <2>1 DEF IsHead, Live, Resolved
  <2>3. IsHead(e, g) \/ (pc[e] = "waiting" /\ prevTail[e] = c)
    BY <2>1 DEF IsHead, Live, Resolved
  <2>4. CASE g = lane[c]
    BY <2>1, <2>2, <2>3, <2>4, <1>0 DEF OneHead, OneFollower
  <2>5. CASE g # lane[c]
    <3>1. \A f \in Calls : pc[f] = "waiting" /\ prevTail[f] = c => ~Live(f, g)
      BY <2>5 DEF FollowsInLane, Resolved, Live, Active
    <3> QED
      BY <3>1, <2>1, <2>2, <2>3 DEF OneHead
  <2> QED
    BY <2>4, <2>5
<1>2. OneFollower'
  BY DEF OneFollower, Active
<1>3. FollowsInLane'
  BY DEF FollowsInLane, Resolved, Active
<1>4. TailIsLast'
  <2>1. CASE groupTail[lane[c]] = c
    BY <2>1, TailAlone DEF TailIsLast, Live, Awaited, Active
  <2>2. CASE groupTail[lane[c]] # c
    BY <2>2 DEF TailIsLast, Live, Awaited, Active
  <2> QED
    BY <2>1, <2>2
<1>5. Grounded'
  BY DEF Grounded, Active
<1> QED
  BY <1>1, <1>2, <1>3, <1>4, <1>5

LEMMA ChainStep == IInv /\ [Next]_vars => IInv'
<1> SUFFICES ASSUME IInv, [Next]_vars PROVE ChainInvariant'
  BY TypeStep DEF IInv
<1>1. CASE UNCHANGED vars
  BY <1>1 DEF vars, IInv, ChainInvariant, OneHead, OneFollower, FollowsInLane, TailIsLast,
              Grounded, IsHead, Live, Resolved, Awaited
<1>2. ASSUME NEW c \in Calls, Arrive(c) PROVE ChainInvariant'
  BY <1>2, EnqueueKeepsChain, UnserializedKeepsChain DEF Arrive
<1>3. ASSUME NEW c \in Calls, MyTurn(c) \/ EndAndSettle(c) PROVE ChainInvariant'
  BY <1>3, HeadStaysHead
<1>4. ASSUME NEW c \in Calls, EndUnserialized(c) PROVE ChainInvariant'
  BY <1>4, UnserializedKeepsChain
<1>5. ASSUME NEW c \in Calls, End(c) PROVE ChainInvariant'
  <2>1. Active(c) /\ lane[c] \in Groups /\ Release(c)
    BY <1>5 DEF End, Active, IInv, TypeOK
  <2> QED
    BY <2>1, ReleaseKeepsChain
<1>6. ASSUME NEW c \in Calls, Settled(c) PROVE ChainInvariant'
  <2>1. Active(c) /\ lane[c] \in Groups /\ Release(c)
    BY <1>6 DEF Settled, Active, IInv, ChainInvariant, FollowsInLane
  <2> QED
    BY <2>1, ReleaseKeepsChain
<1> QED
  BY <1>1, <1>2, <1>3, <1>4, <1>5, <1>6 DEF Next

LEMMA InvAlways == Spec => []IInv
  BY InitChain, ChainStep, PTL DEF Spec

(* The live calls of every group form one line, in every reachable state. *)
THEOREM ChainAlways == Spec => []ChainInvariant
<1>1. IInv => ChainInvariant
  BY DEF IInv
<1> QED
  BY <1>1, InvAlways, PTL

(* Calls, lanes and tails keep their types, whoever arrives and ends. *)
THEOREM TypeCorrect == Spec => []TypeOK
<1>1. IInv => TypeOK
  BY DEF IInv, ChainInvariant
<1> QED
  BY <1>1, InvAlways, PTL

(* No two siblings refresh, or settle, at the same time. *)
THEOREM RefreshesExclude == Spec => []MutualExclusion
<1>1. IInv => MutualExclusion
  BY DEF IInv, ChainInvariant, TypeOK, OneHead, IsHead, Live, Active, MutualExclusion
<1> QED
  BY <1>1, InvAlways, PTL

(* A lane exists exactly while a call of its group is under way. *)
THEOREM LanesLive == Spec => []LaneIffLive
<1>1. IInv => LaneIffLive
  BY DEF IInv, ChainInvariant, TypeOK, TailIsLast, LaneIffLive
<1> QED
  BY <1>1, InvAlways, PTL

(* A call that gives up the lane without the settle delay leaves nobody waiting behind it. *)
THEOREM GapKept == Spec => QueuedSiblingWaitsForGap
<1>1. ASSUME IInv, [Next]_vars, NEW c \in Calls, Spacing, pc[c] = "refreshing", pc'[c] = "out",
             NEW d \in Calls, pc[d] = "waiting", lane[d] = lane[c]
      PROVE  FALSE
  <2>1. lane[c] \in Groups
    BY <1>1 DEF IInv, ChainInvariant, FollowsInLane
  <2>2. End(c)
    BY <1>1, <2>1 DEF Next, Arrive, RefreshUnserialized, Enqueue, MyTurn, EndUnserialized,
                      EndAndSettle, Settled, End, Release, vars, IInv, TypeOK
  <2>3. groupTail[lane[c]] = c
    BY <1>1, <2>2 DEF End, HasSuccessor
  <2>4. Active(c) /\ Live(d, lane[c])
    BY <1>1 DEF Active, Live
  <2> QED
    BY <1>1, <2>1, <2>3, <2>4, TailAlone
<1>2. IInv /\ [Next]_vars =>
        [\A c \in Calls :
            Spacing /\ pc[c] = "refreshing" /\ pc'[c] = "out"
               => ~\E d \in Calls : pc[d] = "waiting" /\ lane[d] = lane[c]]_vars
  BY <1>1
<1> QED
  BY <1>2, InvAlways, PTL DEF Spec, QueuedSiblingWaitsForGap

-----------------------------------------------------------------------------
(***************************************************************************)
(* The line of a call, for any stages p and predecessors t.  LineUpTo is a *)
(* recursive definition: that it has a solution is kept as an invariant,   *)
(* and that it has only one follows from Grounded.                         *)
(***************************************************************************)
Behind(c, p, t) == p[c] = "waiting" /\ t[c] # NoCall /\ p[t[c]] # "out"

IsLineUp(f, p, t) ==
    f = [c \in Calls |-> IF Behind(c, p, t) THEN Append(f[t[c]], c) ELSE <<c>>]

LinedUp == \E f : IsLineUp(f, pc, prevTail)

LEMMA LineUpIs ==
  ASSUME NEW f, IsLineUp(f, pc, prevTail)
  PROVE  IsLineUp(LineUpTo, pc, prevTail)
BY DEF IsLineUp, LineUpTo, Behind, Resolved

LEMMA LineUpIsNext ==
  ASSUME NEW f, IsLineUp(f, pc', prevTail')
  PROVE  IsLineUp(LineUpTo', pc', prevTail')
BY DEF IsLineUp, LineUpTo, Behind, Resolved

(* Chains without a circle have one reading. *)
LEMMA LineUpUnique ==
  ASSUME NEW p \in [Calls -> Stages], NEW t \in [Calls -> Calls \cup {NoCall}],
         \A S \in SUBSET {c \in Calls : p[c] = "waiting"} :
             S # {} => \E c \in S : t[c] \notin S,
         NEW f, IsLineUp(f, p, t), NEW h, IsLineUp(h, p, t)
  PROVE  f = h
<1> DEFINE S == {c \in Calls : p[c] = "waiting" /\ f[c] # h[c]}
           e(k, c) == IF Behind(c, p, t) THEN Append(k[t[c]], c) ELSE <<c>>
<1>0. f = [c \in Calls |-> e(f, c)] /\ h = [c \in Calls |-> e(h, c)]
  BY DEF IsLineUp
<1>1. ASSUME NEW c \in Calls, f[c] # h[c]
      PROVE  c \in S /\ t[c] \in S
  <2>1. f[c] = e(f, c) /\ h[c] = e(h, c)
    BY <1>0
  <2>2. Behind(c, p, t) /\ f[t[c]] # h[t[c]]
    BY <1>1, <2>1
  <2>3. p[c] = "waiting" /\ t[c] \in Calls
    BY <2>2 DEF Behind
  <2>4. p[t[c]] = "waiting"
    <3>1. f[t[c]] = e(f, t[c]) /\ h[t[c]] = e(h, t[c])
      BY <1>0, <2>3
    <3>2. Behind(t[c], p, t)
      BY <3>1, <2>2
    <3> QED
      BY <3>2 DEF Behind
  <2> QED
    BY <1>1, <2>2, <2>3, <2>4
<1>2. S = {}
  <2>1. S \in SUBSET {c \in Calls : p[c] = "waiting"} /\ \A c \in S : t[c] \in S
    BY <1>1
  <2> QED
    BY <2>1
<1>3. \A c \in Calls : f[c] = h[c]
  BY <1>1, <1>2
<1> QED
  BY <1>0, <1>3

(* What the line of a call is made of: live calls of its group, the head first. *)
LEMMA LineUpMembers ==
  ASSUME IInv, NEW f, IsLineUp(f, pc, prevTail)
  PROVE  /\ \A c \in Calls : f[c] \in Seq(Calls) /\ f[c] # <<>>
         /\ \A g \in Groups : \A c \in Calls : Live(c, g) =>
               /\ IsHead(f[c][1], g)
               /\ \A i \in DOMAIN f[c] : Live(f[c][i], g)
<1> DEFINE Good(c) ==
        /\ f[c] \in Seq(Calls) /\ f[c] # <<>>
        /\ \A g \in Groups : Live(c, g) =>
               /\ IsHead(f[c][1], g)
               /\ \A i \in DOMAIN f[c] : Live(f[c][i], g)
<1>1. ASSUME NEW c \in Calls, ~Behind(c, pc, prevTail)
      PROVE  Good(c)
  <2>1. f[c] = <<c>>
    BY <1>1 DEF IsLineUp
  <2>2. \A g \in Groups : Live(c, g) => IsHead(c, g)
    BY <1>1 DEF IsHead, Behind, Resolved
  <2> QED
    BY <2>1, <2>2
<1>2. ASSUME NEW c \in Calls, Behind(c, pc, prevTail), Good(prevTail[c])
      PROVE  Good(c)
  <2>1. /\ prevTail[c] \in Calls /\ lane[prevTail[c]] = lane[c]
        /\ pc[prevTail[c]] # "out" /\ lane[c] \in Groups
    BY <1>2 DEF Behind, IInv, TypeOK, ChainInvariant, FollowsInLane, Resolved
  <2>2. f[c] = Append(f[prevTail[c]], c)
    BY <1>2 DEF IsLineUp
  <2>3. /\ f[c] \in Seq(Calls) /\ f[c] # <<>>
        /\ f[c][1] = f[prevTail[c]][1]
        /\ \A i \in DOMAIN f[c] : f[c][i] = c \/ \E j \in DOMAIN f[prevTail[c]] : f[c][i] = f[prevTail[c]][j]
    BY <1>2, <2>2
  <2>4. \A g \in Groups : Live(c, g) => Live(prevTail[c], g)
    BY <2>1 DEF Live
  <2> QED
    BY <1>2, <2>3, <2>4
<1> HIDE DEF Good
<1> DEFINE S == {c \in Calls : pc[c] = "waiting" /\ ~Good(c)}
<1>3. \A c \in Calls : ~Good(c) => pc[c] = "waiting" /\ prevTail[c] \in Calls /\ ~Good(prevTail[c])
  BY <1>1, <1>2 DEF Behind, IInv, TypeOK
<1>4. S = {}
  <2>1. \A c \in S : prevTail[c] \in S
    BY <1>3
  <2>2. S \in SUBSET {c \in Calls : pc[c] = "waiting"}
    OBVIOUS
  <2> QED
    BY <2>1, <2>2 DEF IInv, ChainInvariant, Grounded
<1>5. \A c \in Calls : Good(c)
  BY <1>3, <1>4
<1> QED
  BY <1>5 DEF Good

LEMMA LineUpAt ==
  ASSUME NEW p, NEW t, NEW f, IsLineUp(f, p, t), NEW c \in Calls
  PROVE  f[c] = IF Behind(c, p, t) THEN Append(f[t[c]], c) ELSE <<c>>
BY DEF IsLineUp

(* A newcomer's line is that of the tail, and itself. *)
LEMMA EnqueueLineUp ==
  ASSUME IInv, NEW f, IsLineUp(f, pc, prevTail),
         NEW c \in Calls, NEW p \in Providers, Enqueue(c, p)
  PROVE  LET tail == groupTail[RotationGroup[p]] IN
         IsLineUp([f EXCEPT ![c] = IF tail = NoCall THEN <<c>> ELSE Append(f[tail], c)],
                  pc', prevTail')
<1> DEFINE tail == groupTail[RotationGroup[p]]
           h == [f EXCEPT ![c] = IF tail = NoCall THEN <<c>> ELSE Append(f[tail], c)]
<1>1. /\ RotationGroup[p] \in Groups /\ tail \in Calls \cup {NoCall}
      /\ tail # NoCall => pc[tail] # "out" /\ tail # c
      /\ pc[c] = "out" /\ ~Awaited(c)
      /\ pc' = [pc EXCEPT ![c] = "waiting"] /\ prevTail' = [prevTail EXCEPT ![c] = tail]
      /\ pc \in [Calls -> Stages] /\ prevTail \in [Calls -> Calls \cup {NoCall}]
  BY DEF Enqueue, IInv, TypeOK, ChainInvariant, TailIsLast, Live
<1>2. f = [d \in Calls |-> IF Behind(d, pc, prevTail) THEN Append(f[prevTail[d]], d) ELSE <<d>>]
  BY DEF IsLineUp
<1> HIDE DEF tail
<1>3. h = [d \in Calls |-> IF d = c THEN IF tail = NoCall THEN <<c>> ELSE Append(f[tail], c)
                           ELSE f[d]]
  BY <1>2
<1> HIDE DEF h
<1>4. ASSUME NEW d \in Calls
      PROVE  h[d] = IF Behind(d, pc', prevTail') THEN Append(h[prevTail'[d]], d) ELSE <<d>>
  <2>1. CASE d = c
    <3>1. Behind(c, pc', prevTail') <=> tail # NoCall
      BY <1>1 DEF Behind, Stages
    <3>2. tail # NoCall => h[tail] = f[tail]
      BY <1>1, <1>3
    <3> QED
      BY <2>1, <3>1, <3>2, <1>1, <1>3
  <2>2. CASE d # c
    <3>1. Behind(d, pc', prevTail') <=> Behind(d, pc, prevTail)
      BY <2>2, <1>1 DEF Behind, Awaited
    <3>2. Behind(d, pc, prevTail) => /\ prevTail'[d] = prevTail[d] /\ prevTail[d] \in Calls
                                     /\ prevTail[d] # c
      BY <2>2, <1>1 DEF Behind, Awaited
    <3>3. h[d] = f[d]
      BY <2>2, <1>3
    <3>4. Behind(d, pc, prevTail) => h[prevTail'[d]] = f[prevTail[d]]
      BY <3>2, <1>3
    <3> QED
      BY <3>1, <3>3, <3>4, LineUpAt
  <2> QED
    BY <2>1, <2>2
<1>5. h = [d \in Calls |-> h[d]]
  BY <1>3
<1>6. IsLineUp(h, pc', prevTail')
  BY <1>4, <1>5 DEF IsLineUp
<1> QED
  BY <1>6 DEF h, tail

LEMMA TailOfAppend ==
  ASSUME NEW S, NEW s \in Seq(S), s # <<>>, NEW e \in S
  PROVE  /\ Tail(Append(s, e)) = Append(Tail(s), e)
         /\ Append(s, e)[1] = s[1]
OBVIOUS

(* A head that leaves is taken off every line it led. *)
LEMMA ReleaseLineUp ==
  ASSUME IInv, NEW f, IsLineUp(f, pc, prevTail),
         NEW c \in Calls, Active(c), Release(c)
  PROVE  IsLineUp([d \in Calls |-> IF d # c /\ f[d][1] = c THEN Tail(f[d]) ELSE f[d]],
                  pc', prevTail')
<1> DEFINE h == [d \in Calls |-> IF d # c /\ f[d][1] = c THEN Tail(f[d]) ELSE f[d]]
<1>1. /\ pc' = [pc EXCEPT ![c] = "out"] /\ prevTail' = prevTail
      /\ pc \in [Calls -> Stages] /\ prevTail \in [Calls -> Calls \cup {NoCall}]
      /\ pc[c] # "waiting"
  BY DEF Release, IInv, TypeOK, Active
<1>2. \A d \in Calls : f[d] \in Seq(Calls) /\ f[d] # <<>>
  BY LineUpMembers
<1>3. ASSUME NEW d \in Calls
      PROVE  h[d] = IF Behind(d, pc', prevTail') THEN Append(h[prevTail'[d]], d) ELSE <<d>>
  <2>1. CASE ~Behind(d, pc, prevTail)
    <3>1. f[d] = <<d>>
      BY <2>1, LineUpAt
    <3>2. ~Behind(d, pc', prevTail')
      BY <2>1, <1>1 DEF Behind
    <3> QED
      BY <3>1, <3>2
  <2>2. CASE Behind(d, pc, prevTail)
    <3>0. d # c /\ prevTail[d] \in Calls
      BY <2>2, <1>1 DEF Behind
    <3>1. /\ f[d] = Append(f[prevTail[d]], d)
          /\ h[d] = IF f[d][1] = c THEN Tail(f[d]) ELSE f[d]
      BY <2>2, <3>0, LineUpAt
    <3>2. CASE prevTail[d] = c
      <4>0. ~Behind(c, pc, prevTail)
        BY <1>1 DEF Behind
      <4>1. f[c] = <<c>>
        BY <4>0, LineUpAt
      <4>2. h[d] = <<d>>
        <5>1. f[d] = Append(<<c>>, d) /\ <<c>> \in Seq(Calls) /\ <<c>> # <<>>
          BY <3>1, <3>2, <4>1
        <5>2. f[d][1] = c /\ Tail(f[d]) = Append(Tail(<<c>>), d)
          BY <5>1, TailOfAppend
        <5>3. Tail(<<c>>) = <<>>
          OBVIOUS
        <5>4. Append(<<>>, d) = <<d>>
          OBVIOUS
        <5> QED
          BY <5>2, <5>3, <5>4, <3>1
      <4>3. ~Behind(d, pc', prevTail')
        BY <3>2, <1>1 DEF Behind
      <4> QED
        BY <4>2, <4>3
    <3>3. CASE prevTail[d] # c
      <4>1. Behind(d, pc', prevTail')
        BY <2>2, <3>0, <3>3, <1>1 DEF Behind
      <4>2. f[d][1] = f[prevTail[d]][1] /\ Tail(f[d]) = Append(Tail(f[prevTail[d]]), d)
        BY <3>0, <3>1, <1>2, TailOfAppend
      <4>3. h[prevTail[d]] = IF f[prevTail[d]][1] = c THEN Tail(f[prevTail[d]])
                             ELSE f[prevTail[d]]
        BY <3>0, <3>3
      <4> QED
        BY <4>1, <4>2, <4>3, <3>1, <1>1
    <3> QED
      BY <3>2, <3>3
  <2> QED
    BY <2>1, <2>2
<1> QED
  BY <1>3 DEF IsLineUp

(* No other step changes who waits behind whom. *)
LEMMA OtherLineUp ==
  ASSUME IInv, NEW f, IsLineUp(f, pc, prevTail),
         \/ UNCHANGED vars
         \/ \E c \in Calls :
               \/ \E p \in Providers : RefreshUnserialized(c, p)
               \/ EndUnserialized(c) \/ MyTurn(c) \/ EndAndSettle(c)
  PROVE  IsLineUp(f, pc', prevTail')
<1> SUFFICES ASSUME NEW d \in Calls
             PROVE  /\ Behind(d, pc', prevTail') <=> Behind(d, pc, prevTail)
                    /\ Behind(d, pc, prevTail) => prevTail'[d] = prevTail[d]
  BY DEF IsLineUp
<1> USE DEF IInv, TypeOK, Stages, Behind
<1>1. CASE UNCHANGED vars
  BY <1>1 DEF vars
<1>2. ASSUME NEW c \in Calls,
             (\E p \in Providers : RefreshUnserialized(c, p)) \/ EndUnserialized(c)
      PROVE  /\ Behind(d, pc', prevTail') <=> Behind(d, pc, prevTail)
             /\ Behind(d, pc, prevTail) => prevTail'[d] = prevTail[d]
  <2>1. ~Awaited(c)
    BY <1>2 DEF RefreshUnserialized, EndUnserialized, Awaited, ChainInvariant, FollowsInLane, Resolved
  <2> QED
    BY <1>2, <2>1 DEF RefreshUnserialized, EndUnserialized, Awaited
<1>3. ASSUME NEW c \in Calls, MyTurn(c) \/ EndAndSettle(c)
      PROVE  /\ Behind(d, pc', prevTail') <=> Behind(d, pc, prevTail)
             /\ Behind(d, pc, prevTail) => prevTail'[d] = prevTail[d]
  BY <1>3 DEF MyTurn, EndAndSettle, Resolved
<1> QED
  BY <1>1, <1>2, <1>3

LEMMA LinedUpInit == Init => LinedUp
<1> DEFINE f == [c \in Calls |-> <<c>>]
<1>1. Init => IsLineUp(f, pc, prevTail)
  BY DEF Init, IsLineUp, Behind
<1> QED
  BY <1>1 DEF LinedUp

LEMMA StepKinds ==
  ASSUME IInv, [Next]_vars
  PROVE  \/ UNCHANGED vars
         \/ \E c \in Calls :
               \/ \E p \in Providers : RefreshUnserialized(c, p)
               \/ EndUnserialized(c) \/ MyTurn(c) \/ EndAndSettle(c)
         \/ \E c \in Calls, p \in Providers : Enqueue(c, p)
         \/ \E c \in Calls : Active(c) /\ lane[c] \in Groups /\ Release(c)
<1>1. \A c \in Calls : End(c) \/ Settled(c) => Active(c) /\ lane[c] \in Groups /\ Release(c)
  BY DEF End, Settled, Active, IInv, TypeOK, ChainInvariant, FollowsInLane
<1> QED
  BY <1>1 DEF Next, Arrive

LEMMA LinedUpStep == IInv /\ LinedUp /\ [Next]_vars => LinedUp'
<1> SUFFICES ASSUME IInv, [Next]_vars, NEW f, IsLineUp(f, pc, prevTail)
             PROVE  \E h : IsLineUp(h, pc', prevTail')
  BY DEF LinedUp
<1> QED
  BY StepKinds, EnqueueLineUp, ReleaseLineUp, OtherLineUp

LEMMA LinedUpAlways == Spec => []LinedUp
  BY LinedUpInit, LinedUpStep, InvAlways, PTL DEF Spec

(* LineUpTo after a step, from any reading of the chain after it. *)
LEMMA LineUpNextIs ==
  ASSUME IInv', NEW h, IsLineUp(h, pc', prevTail')
  PROVE  LineUpTo' = h
<1>1. IsLineUp(LineUpTo', pc', prevTail')
  BY LineUpIsNext
<1>2. /\ pc' \in [Calls -> Stages] /\ prevTail' \in [Calls -> Calls \cup {NoCall}]
      /\ \A S \in SUBSET {c \in Calls : pc'[c] = "waiting"} :
             S # {} => \E c \in S : prevTail'[c] \notin S
  BY DEF IInv, TypeOK, ChainInvariant, Grounded
<1> QED
  BY <1>1, <1>2, LineUpUnique

LineInv == IInv /\ LinedUp

(* The line of a group is that of its tail: live calls of the group, the head first. *)
LEMMA LinesAre ==
  ASSUME LineInv
  PROVE  /\ Lines = [g \in Groups |-> Line(g)]
         /\ \A g \in Groups : groupTail[g] = NoCall => Line(g) = <<>>
         /\ \A g \in Groups : groupTail[g] # NoCall =>
               /\ groupTail[g] \in Calls /\ Live(groupTail[g], g)
               /\ Line(g) = LineUpTo[groupTail[g]]
               /\ Line(g) \in Seq(Calls) /\ Line(g) # <<>>
               /\ IsHead(Line(g)[1], g)
               /\ \A i \in DOMAIN Line(g) : Live(Line(g)[i], g)
<1>1. IsLineUp(LineUpTo, pc, prevTail)
  BY LineUpIs DEF LineInv, LinedUp
<1>2. \A g \in Groups : groupTail[g] # NoCall =>
         groupTail[g] \in Calls /\ Live(groupTail[g], g)
  BY DEF LineInv, IInv, TypeOK, ChainInvariant, TailIsLast
<1>3. /\ \A c \in Calls : LineUpTo[c] \in Seq(Calls) /\ LineUpTo[c] # <<>>
      /\ \A g \in Groups : \A c \in Calls : Live(c, g) =>
               /\ IsHead(LineUpTo[c][1], g)
               /\ \A i \in DOMAIN LineUpTo[c] : Live(LineUpTo[c][i], g)
  BY <1>1, LineUpMembers DEF LineInv
<1> QED
  BY <1>2, <1>3 DEF Lines, Line

(* A call that joins goes to the end of its group's line, and of no other. *)
LEMMA EnqueueJoins ==
  ASSUME LineInv, LineInv', NEW c \in Calls, NEW p \in Providers, Enqueue(c, p)
  PROVE  Lane!Join(c, RotationGroup[p])
<1> DEFINE g == RotationGroup[p]
           tail == groupTail[g]
           h == [LineUpTo EXCEPT ![c] = IF tail = NoCall THEN <<c>> ELSE Append(LineUpTo[tail], c)]
<1>1. IsLineUp(LineUpTo, pc, prevTail)
  BY LineUpIs DEF LineInv, LinedUp
<1>2. LineUpTo' = h
  BY <1>1, EnqueueLineUp, LineUpNextIs DEF LineInv
<1>3. /\ g \in Groups /\ pc[c] = "out" /\ pc' = [pc EXCEPT ![c] = "waiting"]
      /\ lane' = [lane EXCEPT ![c] = g] /\ groupTail' = [groupTail EXCEPT ![g] = c]
      /\ TypeOK
  BY DEF Enqueue, Chained, LineInv, IInv, TypeOK
<1> HIDE DEF g
<1>4. ASSUME NEW k \in Groups, NEW i \in DOMAIN Line(k), Line(k)[i] = c
      PROVE  FALSE
  BY <1>3, <1>4, LinesAre DEF Live
<1>5. Line(g)' = Append(Line(g), c)
  <2>1. LineUpTo'[c] = IF tail = NoCall THEN <<c>> ELSE Append(LineUpTo[tail], c)
    <3>1. LineUpTo = [d \in Calls |-> LineUpTo[d]]
      BY <1>1 DEF IsLineUp
    <3> HIDE DEF tail
    <3> QED
      BY <1>2, <3>1
  <2>2. Line(g)' = LineUpTo'[c]
    BY <1>3 DEF Line, TypeOK
  <2>3. tail = NoCall => Line(g) = <<>>
    BY DEF Line
  <2>4. tail # NoCall => Line(g) = LineUpTo[tail]
    BY DEF Line
  <2>5. Append(<<>>, c) = <<c>>
    OBVIOUS
  <2> QED
    BY <2>1, <2>2, <2>3, <2>4, <2>5
<1>6. ASSUME NEW k \in Groups, k # g
      PROVE  Line(k)' = Line(k)
  <2>1. groupTail'[k] = groupTail[k]
    BY <1>3, <1>6 DEF TypeOK
  <2>2. groupTail[k] # NoCall => groupTail[k] \in Calls /\ groupTail[k] # c
    BY <1>3, LinesAre DEF Live
  <2>3. groupTail[k] # NoCall => LineUpTo'[groupTail[k]] = LineUpTo[groupTail[k]]
    BY <1>2, <2>2
  <2> QED
    BY <2>1, <2>3 DEF Line
<1>7. Lines' = [Lines EXCEPT ![g] = Append(@, c)]
  <2>1. Lines' = [k \in Groups |-> Line(k)']
    BY DEF Lines
  <2>2. Lines = [k \in Groups |-> Line(k)]
    BY DEF Lines
  <2> QED
    BY <2>1, <2>2, <1>3, <1>5, <1>6
<1>8. Served' = Served
  BY <1>3 DEF Served, Active, TypeOK
<1>9. \A k \in Groups : ~Lane!InLine(c, k)
  BY <1>4 DEF Lane!InLine, Lines
<1> QED
  BY <1>7, <1>8, <1>9 DEF Lane!Join, g

(* Who heads the lane is the first of its line. *)
LEMMA HeadIsFirst ==
  ASSUME LineInv, NEW g \in Groups, NEW c \in Calls, IsHead(c, g)
  PROVE  Lane!First(c, g)
<1>1. groupTail[g] # NoCall
  BY DEF LineInv, IInv, ChainInvariant, TailIsLast, IsHead
<1>2. /\ Line(g) \in Seq(Calls) /\ Line(g) # <<>>
      /\ IsHead(Line(g)[1], g)
  BY <1>1, LinesAre
<1>3. Line(g)[1] \in Calls /\ Head(Line(g)) = Line(g)[1]
  BY <1>2
<1>4. Line(g)[1] = c
  BY <1>2, <1>3 DEF LineInv, IInv, ChainInvariant, OneHead
<1> QED
  BY <1>2, <1>3, <1>4 DEF Lane!First, Lines

(* A step that changes no chain leaves every line as it is. *)
LEMMA OthersKeepLines ==
  ASSUME LineInv, LineInv', UNCHANGED groupTail,
         \/ UNCHANGED vars
         \/ \E c \in Calls :
               \/ \E p \in Providers : RefreshUnserialized(c, p)
               \/ EndUnserialized(c) \/ MyTurn(c) \/ EndAndSettle(c)
  PROVE  Lines' = Lines
<1>1. IsLineUp(LineUpTo, pc, prevTail)
  BY LineUpIs DEF LineInv, LinedUp
<1>2. LineUpTo' = LineUpTo
  BY <1>1, OtherLineUp, LineUpNextIs DEF LineInv
<1> QED
  BY <1>2 DEF Lines, Line

(* The first of a line begins. *)
LEMMA MyTurnBegins ==
  ASSUME LineInv, LineInv', NEW c \in Calls, MyTurn(c)
  PROVE  Lane!Begin(c, lane[c])
<1>1. lane[c] \in Groups /\ IsHead(c, lane[c])
  BY DEF MyTurn, LineInv, IInv, ChainInvariant, FollowsInLane, IsHead, Live
<1>2. Lane!First(c, lane[c])
  BY <1>1, HeadIsFirst
<1>3. Lines' = Lines
  BY OthersKeepLines DEF MyTurn
<1>4. c \notin Served /\ Served' = Served \cup {c}
  BY <1>1 DEF MyTurn, Served, Active, LineInv, IInv, TypeOK
<1> QED
  BY <1>2, <1>3, <1>4 DEF Lane!Begin

(* The first of a line leaves it, and nobody else moves. *)
LEMMA ReleaseLeaves ==
  ASSUME LineInv, LineInv', NEW c \in Calls, NEW g \in Groups, lane[c] = g, Active(c), Release(c)
  PROVE  Lane!Leave(c, g)
<1> DEFINE h == [d \in Calls |-> IF d # c /\ LineUpTo[d][1] = c THEN Tail(LineUpTo[d])
                                 ELSE LineUpTo[d]]
<1>1. IsLineUp(LineUpTo, pc, prevTail)
  BY LineUpIs DEF LineInv, LinedUp
<1>2. LineUpTo' = h
  <2>1. IsLineUp(h, pc', prevTail')
    BY <1>1, ReleaseLineUp DEF LineInv
  <2> HIDE DEF h
  <2> QED
    BY <2>1, LineUpNextIs DEF LineInv
<1>3. /\ pc' = [pc EXCEPT ![c] = "out"] /\ lane' = lane
      /\ groupTail' = [groupTail EXCEPT ![g] = IF groupTail[g] = c THEN NoCall ELSE groupTail[g]]
      /\ TypeOK
  BY DEF Release, Collected, LineInv, IInv
<1>4. IsHead(c, g) /\ Live(c, g)
  BY DEF IsHead, Live, Active
<1>5. Lane!First(c, g)
  BY <1>4, HeadIsFirst
<1>6. groupTail[g] # NoCall /\ groupTail[g] \in Calls /\ Line(g) = LineUpTo[groupTail[g]]
  BY <1>4, LinesAre DEF LineInv, IInv, ChainInvariant, TailIsLast
<1>7. Line(g)[1] = c /\ Line(g) \in Seq(Calls) /\ Line(g) # <<>>
  BY <1>5, <1>6, LinesAre DEF Lane!First, Lines
<1>8. Line(g)' = Tail(Line(g))
  <2>1. CASE groupTail[g] = c
    <3>0. ~Behind(c, pc, prevTail)
      BY DEF Behind, Active
    <3>1. LineUpTo[c] = <<c>>
      BY <1>1, <3>0, LineUpAt
    <3>2. Line(g)' = <<>>
      BY <2>1, <1>3 DEF Line, TypeOK
    <3>3. Tail(<<c>>) = <<>>
      OBVIOUS
    <3> QED
      BY <2>1, <3>1, <3>2, <3>3, <1>6
  <2>2. CASE groupTail[g] # c
    <3>1. groupTail'[g] = groupTail[g]
      BY <2>2, <1>3 DEF TypeOK
    <3>2. Line(g)' = LineUpTo'[groupTail[g]]
      BY <3>1, <1>6 DEF Line
    <3>3. LineUpTo[groupTail[g]][1] = c
      BY <1>6, <1>7
    <3> QED
      BY <2>2, <3>2, <3>3, <1>2, <1>6
  <2> QED
    BY <2>1, <2>2
<1>9. ASSUME NEW k \in Groups, k # g
      PROVE  Line(k)' = Line(k)
  <2>1. groupTail'[k] = groupTail[k]
    BY <1>3, <1>9 DEF TypeOK
  <2>2. groupTail[k] # NoCall =>
           groupTail[k] \in Calls /\ LineUpTo[groupTail[k]][1] # c
    BY <1>9, LinesAre DEF IsHead, Live
  <2>3. groupTail[k] # NoCall => LineUpTo'[groupTail[k]] = LineUpTo[groupTail[k]]
    BY <1>2, <2>2
  <2> QED
    BY <2>1, <2>3 DEF Line
<1>10. Lines' = [Lines EXCEPT ![g] = Tail(@)]
  <2>1. Lines' = [k \in Groups |-> Line(k)'] /\ Lines = [k \in Groups |-> Line(k)]
    BY DEF Lines
  <2> QED
    BY <2>1, <1>8, <1>9
<1>11. c \in Served /\ Served' = Served \ {c}
  BY <1>3 DEF Served, Active, TypeOK
<1> QED
  BY <1>5, <1>10, <1>11 DEF Lane!Leave

LEMMA LaneStep == LineInv /\ LineInv' /\ [Next]_vars => [Lane!Next]_(Lane!vars)
<1> SUFFICES ASSUME LineInv, LineInv', [Next]_vars
             PROVE  [Lane!Next]_(Lane!vars)
  OBVIOUS
<1>1. ASSUME NEW c \in Calls, NEW p \in Providers, Enqueue(c, p)
      PROVE  Lane!Next
  <2>1. RotationGroup[p] \in Groups
    BY <1>1 DEF Enqueue
  <2> QED
    BY <1>1, <2>1, EnqueueJoins DEF Lane!Next
<1>2. ASSUME NEW c \in Calls, MyTurn(c)
      PROVE  Lane!Next
  <2>1. lane[c] \in Groups
    BY <1>2 DEF MyTurn, LineInv, IInv, ChainInvariant, FollowsInLane
  <2> QED
    BY <1>2, <2>1, MyTurnBegins DEF Lane!Next
<1>3. ASSUME NEW c \in Calls, Active(c), lane[c] \in Groups, Release(c)
      PROVE  Lane!Next
  BY <1>3, ReleaseLeaves DEF Lane!Next
<1>4. ASSUME \/ UNCHANGED vars
             \/ \E c \in Calls :
                   \/ \E p \in Providers : RefreshUnserialized(c, p)
                   \/ EndUnserialized(c) \/ EndAndSettle(c)
      PROVE  UNCHANGED Lane!vars
  <2>1. UNCHANGED groupTail
    BY <1>4 DEF vars, RefreshUnserialized, EndUnserialized, EndAndSettle
  <2>2. Lines' = Lines
    BY <1>4, <2>1, OthersKeepLines
  <2>3. Served' = Served
    BY <1>4 DEF vars, RefreshUnserialized, EndUnserialized, EndAndSettle, Served, Active,
                LineInv, IInv, TypeOK
  <2> QED
    BY <2>2, <2>3 DEF Lane!vars
<1> QED
  BY <1>1, <1>2, <1>3, <1>4, StepKinds DEF LineInv

LEMMA LaneInit == Init => Lane!Init
  BY DEF Init, Lane!Init, Lines, Line, Served, Active

(* The promise chain implements the abstract line, step by step: whatever order calls *)
(* arrive, fail and collect the lane in, each group is served one call at a time and  *)
(* first come first served.                                                          *)
THEOREM LaneImplemented == Spec => Lane!Spec
<1>1. Spec => []LineInv
  BY InvAlways, LinedUpAlways, PTL DEF LineInv
<1> QED
  BY <1>1, LaneInit, LaneStep, PTL DEF Spec, Lane!Spec
=============================================================================
