------------------------- MODULE RoundRobin_proofs -------------------------
(***************************************************************************)
(* For any number of requests and targets, any caps, cooldowns and queue   *)
(* depth: the slots of every target are sound although gates are deleted   *)
(* and made again, and a target's turns are earned by its predecessor.     *)
(***************************************************************************)
EXTENDS RoundRobin, FiniteSetTheorems, TLAPS

HoldersIn(j, t) == {r \in Requests : j[r].pc \in Holding /\ j[r].target = t}
WaitersIn(j, t) == {r \in Requests : j[r].pc = "queued" /\ j[r].target = t}

(* A queue holds the waiters of requests j, once each. *)
QueueMatches(q, j, t) ==
    /\ Members(q) = WaitersIn(j, t)
    /\ \A m, n \in DOMAIN q : q[m] = q[n] => m = n

GateMatches(g, j, t) ==
    /\ g.running = Cardinality(HoldersIn(j, t))
    /\ QueueMatches(g.queue, j, t)

(* Somebody waits only behind a holder or a cooldown, at a gate with a cap. *)
Reasoned(g) == g.queue # <<>> => g.max >= 1 /\ (g.running > 0 \/ g.limited # None)

(* A cooldown that nobody has cleared has a timer that will. *)
Timed(g, T) == g.limited # None => \E x \in T : x >= g.limited

(* A request on its way through the targets has one to visit. *)
Underway(j) == j.pc \notin {"idle", "ended"} => j.left >= 1

SlotsType ==
    /\ gate \in [Targets -> Gate]
    /\ timers \in [Targets -> SUBSET Nat]
    /\ request \in [Requests -> Request]

SlotsInv ==
    /\ SlotsType
    /\ \A r \in Requests : Underway(request[r])
    /\ \A t \in Targets : /\ GateMatches(gate[t], request, t)
                          /\ Reasoned(gate[t]) /\ Timed(gate[t], timers[t])

(* The turn the counter shows has been earned and not yet been had. *)
RotationInv ==
    /\ counter \in Targets
    /\ sticky \in [target : Targets, count : 1..StickyLimit - 1] \cup {None}
    /\ earned \in [Targets -> Int]
    /\ \A t \in Targets : earned[t] >= 0
    /\ earned[counter] >= 1

IInv == SlotsInv /\ RotationInv

USE RoundRobinAssumption, FiniteRequests

LEMMA AfterIsTarget == \A t \in Targets : After(t) \in Targets
  BY DEF Targets, After

LEMMA HoldersFinite ==
  ASSUME NEW j, NEW t
  PROVE  IsFiniteSet(HoldersIn(j, t)) /\ Cardinality(HoldersIn(j, t)) \in Nat
<1>1. HoldersIn(j, t) \subseteq Requests
  BY DEF HoldersIn
<1> QED
  BY <1>1, FS_Subset, FS_CardinalityType

(* A set listed once each by 1..k has k elements. *)
LEMMA ListedOnce ==
  ASSUME NEW q \in Seq(Requests), \A m, n \in DOMAIN q : q[m] = q[n] => m = n,
         NEW k \in 0..Len(q), NEW W, W = {q[i] : i \in 1..k}
  PROVE  IsFiniteSet(W) /\ Cardinality(W) = k
<1> DEFINE f == [i \in 1..k |-> q[i]]
<1>1. f \in Bijection(1..k, W)
  BY DEF Bijection, Injection, Surjection, IsInjective
<1>2. ExistsBijection(1..k, W)
  BY <1>1 DEF ExistsBijection
<1>3. IsFiniteSet(1..k) /\ Cardinality(1..k) = k
  BY FS_Interval
<1> QED
  BY <1>2, <1>3, FS_Bijection

-----------------------------------------------------------------------------
(* What a step makes of a request. *)

LEMMA GrantedIs ==
  ASSUME NEW j \in Request
  PROVE  /\ Granted(j) \in Request
         /\ Granted(j).pc \in Holding /\ Granted(j).target = j.target
         /\ Granted(j).left = j.left
<1>1. CASE j.attempts < MaxAttempts
  <2>1. Granted(j) = [j EXCEPT !.pc = "calling", !.attempts = @ + 1]
    BY <1>1 DEF Granted
  <2>2. j.attempts + 1 \in 0..MaxAttempts
    BY <1>1 DEF Request
  <2> QED
    BY <2>1, <2>2 DEF Request, Holding
<1>2. CASE ~(j.attempts < MaxAttempts)
  BY <1>2 DEF Granted, Request, Holding
<1> QED
  BY <1>1, <1>2

LEMMA AnsweredIs == Answered \in Request /\ Answered.pc = "ended"
<1>1. 0 \in Targets
  BY DEF Targets
<1> QED
  BY <1>1 DEF Answered, Fresh, Request

LEMMA OnwardIs ==
  ASSUME NEW j \in Request, j.left >= 1
  PROVE  /\ Onward(j) \in Request
         /\ Onward(j).pc \in {"next", "ended"}
         /\ Underway(Onward(j))
<1>1. CASE j.left = 1
  BY <1>1, AnsweredIs DEF Onward, Underway
<1>2. CASE j.left # 1
  <2>1. Onward(j) = [j EXCEPT !.pc = "next", !.target = After(@), !.left = @ - 1, !.retry = 0]
    BY <1>2 DEF Onward
  <2>2. j.left - 1 \in 0..N /\ j.left - 1 >= 1 /\ After(j.target) \in Targets
    BY <1>2, AfterIsTarget DEF Request
  <2>3. Onward(j) = [pc |-> "next", target |-> After(j.target), left |-> j.left - 1,
                     retry |-> 0, attempts |-> j.attempts]
    <3>1. j = [pc |-> j.pc, target |-> j.target, left |-> j.left,
               retry |-> j.retry, attempts |-> j.attempts]
      BY DEF Request
    <3>2. DOMAIN j = {"pc", "target", "left", "retry", "attempts"}
      BY <3>1
    <3> QED
      BY <2>1, <3>2
  <2>4. 0 \in 0..MaxRetries /\ j.attempts \in 0..MaxAttempts
    BY DEF Request
  <2> DEFINE l == j.left - 1
             a == After(j.target)
  <2>5. /\ [pc |-> "next", target |-> a, left |-> l, retry |-> 0, attempts |-> j.attempts] \in Request
        /\ l >= 1
    <3> HIDE DEF l, a
    <3> QED
      BY <2>2, <2>4 DEF Request, l, a
  <2> QED
    BY <2>3, <2>5 DEF Underway
<1> QED
  BY <1>1, <1>2

-----------------------------------------------------------------------------
(* Writing gate t leaves the other targets as they are if their holders    *)
(* and waiters are, and a gate deleted has nobody.                         *)
LEMMA WriteKeeps ==
  ASSUME SlotsType, NEW t \in Targets, NEW g \in Gate, NEW T \in SUBSET Nat,
         Write(t, g, T), request' \in [Requests -> Request],
         \A r \in Requests : Underway(request'[r]),
         GateMatches(g, request', t), Reasoned(g), Timed(g, T),
         \A u \in Targets \ {t} : /\ GateMatches(gate[u], request', u)
                                  /\ Reasoned(gate[u]) /\ Timed(gate[u], timers[u])
  PROVE  SlotsInv'
<1>1. NoGate \in Gate
  BY DEF NoGate, Gate
<1>2. Kept(g) \in Gate
  BY <1>1 DEF Kept
<1>3. gate' = [gate EXCEPT ![t] = Kept(g)]
      /\ timers' = [timers EXCEPT ![t] = IF Kept(g) = NoGate THEN {} ELSE T]
  BY DEF Write
<1>4. SlotsType'
  BY <1>2, <1>3 DEF SlotsType
<1>5. GateMatches(Kept(g), request', t) /\ Reasoned(Kept(g))
  BY DEF Kept, NoGate, GateMatches, Reasoned
<1>6. Timed(gate'[t], timers'[t])
  <2>1. CASE Kept(g) = NoGate
    BY <2>1, <1>3 DEF SlotsType, Timed, NoGate
  <2>2. CASE Kept(g) # NoGate
    BY <2>2, <1>3 DEF SlotsType, Kept
  <2> QED
    BY <2>1, <2>2
<1>7. ASSUME NEW u \in Targets
      PROVE  GateMatches(gate'[u], request', u) /\ Reasoned(gate'[u]) /\ Timed(gate'[u], timers'[u])
  <2>1. CASE u = t
    BY <2>1, <1>3, <1>5, <1>6 DEF SlotsType
  <2>2. CASE u # t
    BY <2>2, <1>3 DEF SlotsType
  <2> QED
    BY <2>1, <2>2
<1> QED
  BY <1>4, <1>7 DEF SlotsInv, GateMatches, QueueMatches, HoldersIn, WaitersIn

-----------------------------------------------------------------------------
LEMMA AdmittedBounds ==
  ASSUME NEW g \in Gate
  PROVE  /\ Admitted(g) \in 0..Len(g.queue)
         /\ Admitted(g) # Len(g.queue) => Limited(g) \/ g.running + Admitted(g) >= g.max
  BY DEF Gate, Admitted

LEMMA DrainedIs ==
  ASSUME NEW g \in Gate
  PROVE  /\ Drained(g) \in Gate
         /\ Drained(g).running = g.running + Admitted(g)
         /\ Drained(g).max = g.max
         /\ Drained(g).queue = SubSeq(g.queue, Admitted(g) + 1, Len(g.queue))
         /\ Drained(g).limited \in {g.limited, None}
         /\ Limited(g) => Drained(g).limited = g.limited
<1> DEFINE k == Admitted(g)
           h == IF g.queue # <<>> /\ g.running < g.max THEN Looked(g) ELSE g
<1>1. k \in 0..Len(g.queue) /\ g.queue \in Seq(Requests) /\ g.running \in Nat
  BY AdmittedBounds DEF Gate
<1>2. /\ h \in Gate /\ h.running = g.running /\ h.max = g.max /\ h.queue = g.queue
      /\ h.limited \in {g.limited, None}
      /\ Limited(g) => h.limited = g.limited
  BY DEF Looked, Limited, Gate
<1>3. Drained(g) = [h EXCEPT !.running = @ + k, !.queue = SubSeq(@, k + 1, Len(@))]
  BY DEF Drained
<1> HIDE DEF k, h
<1>4. g.running + k \in Nat /\ SubSeq(g.queue, k + 1, Len(g.queue)) \in Seq(Requests)
  BY <1>1
<1>5. /\ Drained(g).running = g.running + k
      /\ Drained(g).max = g.max /\ Drained(g).limited = h.limited
      /\ Drained(g).queue = SubSeq(g.queue, k + 1, Len(g.queue))
      /\ Drained(g) \in Gate
  BY <1>2, <1>3, <1>4 DEF Gate
<1> QED
  BY <1>2, <1>5 DEF k

(* The first k waiters of the queue become holders, the rest go on waiting. *)
LEMMA WakeMoves ==
  ASSUME NEW t \in Targets, NEW j \in [Requests -> Request], NEW q \in Seq(Requests),
         QueueMatches(q, j, t), NEW k \in 0..Len(q),
         NEW W, W = Members(SubSeq(q, 1, k)),
         NEW i, i = [r \in Requests |-> IF r \in W THEN Granted(j[r]) ELSE j[r]]
  PROVE  /\ i \in [Requests -> Request]
         /\ \A r \in Requests : Underway(j[r]) => Underway(i[r])
         /\ QueueMatches(SubSeq(q, k + 1, Len(q)), i, t)
         /\ Cardinality(HoldersIn(i, t)) = Cardinality(HoldersIn(j, t)) + k
         /\ \A u \in Targets \ {t} : /\ HoldersIn(i, u) = HoldersIn(j, u)
                                      /\ WaitersIn(i, u) = WaitersIn(j, u)
<1>2. /\ SubSeq(q, 1, k) \in Seq(Requests) /\ Len(SubSeq(q, 1, k)) = k
      /\ \A m \in 1..k : SubSeq(q, 1, k)[m] = q[m]
  OBVIOUS
<1>3. W = {q[m] : m \in 1..k}
  <2> DEFINE s == SubSeq(q, 1, k)
  <2>1. DOMAIN s = 1..k /\ \A m \in 1..k : s[m] = q[m]
    BY <1>2
  <2> HIDE DEF s
  <2>2. Members(s) = {q[m] : m \in 1..k}
    BY <2>1 DEF Members
  <2> QED
    BY <2>2 DEF s
<1> DEFINE p == SubSeq(q, k + 1, Len(q))
<1>4. /\ p \in Seq(Requests) /\ Len(p) = Len(q) - k
      /\ \A m \in 1..(Len(q) - k) : p[m] = q[m + k]
  OBVIOUS
<1>5. IsFiniteSet(W) /\ Cardinality(W) = k
  BY <1>3, ListedOnce DEF QueueMatches
<1>6. \A r \in W : r \in Requests /\ j[r].pc = "queued" /\ j[r].target = t
  BY <1>3 DEF QueueMatches, Members, WaitersIn
<1>7. \A r \in Requests :
        /\ i[r] \in Request /\ i[r].target = j[r].target /\ i[r].left = j[r].left
        /\ r \in W => i[r].pc \in Holding
        /\ r \notin W => i[r] = j[r]
  BY <1>6, GrantedIs
<1>8. i \in [Requests -> Request]
  BY <1>7
<1>9. \A r \in Requests : Underway(j[r]) => Underway(i[r])
  <2>1. ASSUME NEW r \in Requests, Underway(j[r]) PROVE Underway(i[r])
    BY <2>1, <1>6, <1>7 DEF Underway
  <2> QED
    BY <2>1
<1>10. "queued" \notin Holding
  BY DEF Holding
<1>11. \A u \in Targets \ {t} : HoldersIn(i, u) = HoldersIn(j, u) /\ WaitersIn(i, u) = WaitersIn(j, u)
  BY <1>6, <1>7 DEF HoldersIn, WaitersIn
<1>12. /\ HoldersIn(i, t) = HoldersIn(j, t) \cup W
       /\ HoldersIn(j, t) \cap W = {}
       /\ WaitersIn(i, t) = WaitersIn(j, t) \ W
  BY <1>6, <1>7, <1>10 DEF HoldersIn, WaitersIn
<1>13. Cardinality(HoldersIn(i, t)) = Cardinality(HoldersIn(j, t)) + k
  <2>1. IsFiniteSet(HoldersIn(j, t)) /\ Cardinality(HoldersIn(j, t)) \in Nat
    BY HoldersFinite
  <2>2. Cardinality(HoldersIn(j, t) \cup W)
          = Cardinality(HoldersIn(j, t)) + Cardinality(W) - Cardinality(HoldersIn(j, t) \cap W)
    BY <2>1, <1>5, FS_Union
  <2>3. Cardinality(HoldersIn(j, t) \cap W) = 0
    BY <1>12, FS_EmptySet
  <2>4. k \in Nat
    OBVIOUS
  <2> DEFINE c == Cardinality(HoldersIn(j, t))
             d == Cardinality(HoldersIn(j, t) \cup W)
             e == Cardinality(HoldersIn(j, t) \cap W)
             w == Cardinality(W)
  <2>5. d = c + k
    <3>1. c \in Nat /\ d = c + w - e /\ e = 0 /\ w = k
      BY <2>1, <2>2, <2>3, <1>5
    <3> HIDE DEF c, d, e, w
    <3> QED
      BY <2>4, <3>1
  <2> QED
    BY <2>5, <1>12
<1>14. \A m, n \in DOMAIN p : p[m] = p[n] => m = n
  <2> SUFFICES ASSUME NEW m \in DOMAIN p, NEW n \in DOMAIN p, p[m] = p[n]
               PROVE  m = n
    OBVIOUS
  <2>1. /\ m \in 1..(Len(q) - k) /\ n \in 1..(Len(q) - k)
        /\ m + k \in DOMAIN q /\ n + k \in DOMAIN q
    BY <1>4
  <2>2. q[m + k] = q[n + k]
    BY <2>1, <1>4
  <2>3. m + k = n + k
    BY <2>1, <2>2 DEF QueueMatches
  <2> QED
    BY <2>1, <2>3
<1>15. Members(p) = WaitersIn(j, t) \ W
  <2> HIDE DEF p
  <2>1. ASSUME NEW r \in Members(p)
        PROVE  r \in WaitersIn(j, t) \ W
    <3>1. PICK m \in 1..(Len(q) - k) : r = q[m + k]
      BY <2>1, <1>4 DEF Members
    <3>2. m + k \in DOMAIN q /\ m + k > k
      BY <3>1
    <3>3. r \notin W
      BY <3>1, <3>2, <1>3 DEF QueueMatches
    <3> QED
      BY <3>1, <3>2, <3>3 DEF QueueMatches, Members
  <2>2. ASSUME NEW r \in WaitersIn(j, t) \ W
        PROVE  r \in Members(p)
    <3>1. PICK m \in 1..Len(q) : r = q[m]
      BY <2>2 DEF QueueMatches, Members
    <3>2. m > k
      BY <2>2, <3>1, <1>3
    <3>3. m - k \in 1..(Len(q) - k) /\ p[m - k] = r
      BY <3>1, <3>2, <1>4
    <3> QED
      BY <3>3, <1>4 DEF Members
  <2> QED
    BY <2>1, <2>2
<1> QED
  BY <1>8, <1>9, <1>11, <1>12, <1>13, <1>14, <1>15 DEF QueueMatches

(* drainQueue keeps the slots sound if its caller left them so. *)
LEMMA DrainKeeps ==
  ASSUME SlotsType, NEW t \in Targets, NEW g \in Gate, NEW T \in SUBSET Nat,
         NEW j \in [Requests -> Request], Drain(t, g, T, j),
         \A r \in Requests : Underway(j[r]),
         GateMatches(g, j, t), g.queue # <<>> => g.max >= 1, Timed(g, T),
         \A u \in Targets \ {t} : /\ GateMatches(gate[u], j, u)
                                  /\ Reasoned(gate[u]) /\ Timed(gate[u], timers[u])
  PROVE  SlotsInv'
<1> DEFINE k == Admitted(g)
           W == Members(SubSeq(g.queue, 1, k))
<1>1. /\ Write(t, Drained(g), T)
      /\ request' = [r \in Requests |-> IF r \in W THEN Granted(j[r]) ELSE j[r]]
  BY DEF Drain
<1>2. /\ k \in 0..Len(g.queue) /\ g.queue \in Seq(Requests)
      /\ g.running \in Nat /\ g.max \in Nat
      /\ k # Len(g.queue) => Limited(g) \/ g.running + k >= g.max
  BY AdmittedBounds DEF Gate
<1>3. /\ Drained(g) \in Gate
      /\ Drained(g).running = g.running + k
      /\ Drained(g).max = g.max
      /\ Drained(g).queue = SubSeq(g.queue, k + 1, Len(g.queue))
      /\ Drained(g).limited \in {g.limited, None}
      /\ Limited(g) => Drained(g).limited = g.limited
  BY DrainedIs
<1> HIDE DEF k, W
<1>4. /\ request' \in [Requests -> Request]
      /\ \A r \in Requests : Underway(request'[r])
      /\ QueueMatches(SubSeq(g.queue, k + 1, Len(g.queue)), request', t)
      /\ Cardinality(HoldersIn(request', t)) = Cardinality(HoldersIn(j, t)) + k
      /\ \A u \in Targets \ {t} : /\ HoldersIn(request', u) = HoldersIn(j, u)
                                   /\ WaitersIn(request', u) = WaitersIn(j, u)
  BY <1>1, <1>2, WakeMoves DEF W, GateMatches
<1>5. GateMatches(Drained(g), request', t)
  BY <1>3, <1>4 DEF GateMatches
<1>6. Reasoned(Drained(g))
  <2>1. ASSUME Drained(g).queue # <<>>
        PROVE  g.max >= 1 /\ (g.running + k > 0 \/ Drained(g).limited # None)
    <3>1. k # Len(g.queue) /\ g.queue # <<>>
      BY <2>1, <1>2, <1>3
    <3> QED
      BY <3>1, <1>2, <1>3 DEF Limited
  <2> QED
    BY <2>1, <1>3 DEF Reasoned
<1>7. Timed(Drained(g), T)
  BY <1>3 DEF Timed
<1>8. \A u \in Targets \ {t} : /\ GateMatches(gate[u], request', u)
                               /\ Reasoned(gate[u]) /\ Timed(gate[u], timers[u])
  BY <1>4 DEF GateMatches, QueueMatches
<1> QED
  BY <1>1, <1>3, <1>4, <1>5, <1>6, <1>7, <1>8, WriteKeeps

(* A gate that is rewritten and not deleted. *)
LEMMA GateKeeps ==
  ASSUME SlotsType, NEW t \in Targets, NEW g \in Gate, NEW T \in SUBSET Nat,
         gate' = [gate EXCEPT ![t] = g], timers' = [timers EXCEPT ![t] = T],
         request' \in [Requests -> Request], \A r \in Requests : Underway(request'[r]),
         GateMatches(g, request', t), Reasoned(g), Timed(g, T),
         \A u \in Targets \ {t} : /\ GateMatches(gate[u], request', u)
                                  /\ Reasoned(gate[u]) /\ Timed(gate[u], timers[u])
  PROVE  SlotsInv'
<1>1. SlotsType'
  BY DEF SlotsType
<1>2. ASSUME NEW u \in Targets
      PROVE  GateMatches(gate'[u], request', u) /\ Reasoned(gate'[u]) /\ Timed(gate'[u], timers'[u])
  <2>1. CASE u = t
    BY <2>1 DEF SlotsType
  <2>2. CASE u # t
    BY <2>2 DEF SlotsType
  <2> QED
    BY <2>1, <2>2
<1> QED
  BY <1>1, <1>2 DEF SlotsInv, GateMatches, QueueMatches, HoldersIn, WaitersIn

(* A step on which no slot and no place in a queue changes hands. *)
LEMMA QuietKeeps ==
  ASSUME SlotsInv, request' \in [Requests -> Request],
         \A r \in Requests : Underway(request'[r]),
         \A u \in Targets : /\ HoldersIn(request', u) = HoldersIn(request, u)
                            /\ WaitersIn(request', u) = WaitersIn(request, u),
         gate' \in [Targets -> Gate], timers' \in [Targets -> SUBSET Nat],
         \A u \in Targets : /\ gate'[u].running = gate[u].running
                            /\ gate'[u].queue = gate[u].queue
                            /\ Reasoned(gate'[u]) /\ Timed(gate'[u], timers'[u])
  PROVE  SlotsInv'
<1>1. SlotsType'
  BY DEF SlotsType
<1>2. ASSUME NEW u \in Targets PROVE GateMatches(gate'[u], request', u)
  BY DEF SlotsInv, GateMatches, QueueMatches
<1> QED
  BY <1>1, <1>2 DEF SlotsInv, GateMatches, QueueMatches, HoldersIn, WaitersIn

(* Request r neither takes, keeps nor awaits a slot. *)
LEMMA SlotlessSame ==
  ASSUME NEW j \in [Requests -> Request], NEW r \in Requests, NEW k \in Request,
         j[r].pc \notin Holding \cup {"queued"}, k.pc \notin Holding \cup {"queued"},
         NEW a,
         a[r] = k, \A s \in Requests \ {r} : a[s] = j[s]
  PROVE  \A u \in Targets : HoldersIn(a, u) = HoldersIn(j, u) /\ WaitersIn(a, u) = WaitersIn(j, u)
<1> QED
  BY DEF HoldersIn, WaitersIn

(* Request r gives up its slot. *)
LEMMA OneHolderFewer ==
  ASSUME NEW j \in [Requests -> Request], NEW r \in Requests, j[r].pc \in Holding,
         NEW k \in Request, k.pc \in {"next", "ended"}, NEW a,
         a[r] = k, \A s \in Requests \ {r} : a[s] = j[s]
  PROVE  /\ Cardinality(HoldersIn(a, j[r].target)) = Cardinality(HoldersIn(j, j[r].target)) - 1
         /\ \A u \in Targets \ {j[r].target} : HoldersIn(a, u) = HoldersIn(j, u)
         /\ \A u \in Targets : WaitersIn(a, u) = WaitersIn(j, u)
<1> DEFINE t == j[r].target
<1>1. \A s \in Requests : s # r => a[s] = j[s]
  OBVIOUS
<1>2. a[r] = k /\ k.pc \notin Holding /\ j[r].pc # "queued" /\ k.pc # "queued"
  BY DEF Holding
<1>3. HoldersIn(a, t) = HoldersIn(j, t) \ {r} /\ r \in HoldersIn(j, t)
  BY <1>1, <1>2 DEF HoldersIn
<1>4. /\ \A u \in Targets \ {t} : HoldersIn(a, u) = HoldersIn(j, u)
      /\ \A u \in Targets : WaitersIn(a, u) = WaitersIn(j, u)
  BY <1>1, <1>2 DEF HoldersIn, WaitersIn
<1>5. Cardinality(HoldersIn(a, t)) = Cardinality(HoldersIn(j, t)) - 1
  <2> DEFINE S == HoldersIn(j, t)
             D == HoldersIn(a, t)
  <2>1. IsFiniteSet(S) /\ r \in S /\ D = S \ {r}
    BY <1>3, HoldersFinite
  <2> HIDE DEF S, D
  <2>2. Cardinality(S \ {r}) = Cardinality(S) - 1
    BY <2>1, FS_RemoveElement
  <2>3. Cardinality(D) = Cardinality(S) - 1
    BY <2>1, <2>2
  <2> QED
    BY <2>3 DEF S, D
<1> QED
  BY <1>4, <1>5

(* Request r takes a slot of its target. *)
LEMMA OneHolderMore ==
  ASSUME NEW j \in [Requests -> Request], NEW r \in Requests, j[r].pc = "next",
         NEW k \in Request, k.pc \in Holding, k.target = j[r].target,
         NEW a,
         a[r] = k, \A s \in Requests \ {r} : a[s] = j[s]
  PROVE  /\ Cardinality(HoldersIn(a, j[r].target)) = Cardinality(HoldersIn(j, j[r].target)) + 1
         /\ \A u \in Targets \ {j[r].target} : HoldersIn(a, u) = HoldersIn(j, u)
         /\ \A u \in Targets : WaitersIn(a, u) = WaitersIn(j, u)
<1> DEFINE t == j[r].target
<1>1. \A s \in Requests : s # r => a[s] = j[s]
  OBVIOUS
<1>2. a[r] = k /\ j[r].pc \notin Holding /\ j[r].pc # "queued" /\ k.pc # "queued"
  BY DEF Holding
<1>3. HoldersIn(a, t) = HoldersIn(j, t) \cup {r} /\ r \notin HoldersIn(j, t)
  BY <1>1, <1>2 DEF HoldersIn
<1>4. /\ \A u \in Targets \ {t} : HoldersIn(a, u) = HoldersIn(j, u)
      /\ \A u \in Targets : WaitersIn(a, u) = WaitersIn(j, u)
  BY <1>1, <1>2 DEF HoldersIn, WaitersIn
<1>5. Cardinality(HoldersIn(a, t)) = Cardinality(HoldersIn(j, t)) + 1
  BY <1>3, HoldersFinite, FS_AddElement
<1> QED
  BY <1>4, <1>5

-----------------------------------------------------------------------------
LEMMA InitHolds == Init => IInv
<1> SUFFICES ASSUME Init PROVE IInv
  OBVIOUS
<1>1. \A r \in Requests : request[r] = Fresh
  BY DEF Init
<1>2. Fresh \in Request /\ Fresh.pc = "idle" /\ Underway(Fresh)
  BY DEF Fresh, Request, Targets, Underway
<1>3. NoGate \in Gate /\ NoGate.running = 0 /\ NoGate.queue = <<>> /\ NoGate.limited = None
  BY DEF NoGate, Gate
<1>4. SlotsType
  BY <1>1, <1>2, <1>3 DEF Init, SlotsType
<1>5. ASSUME NEW t \in Targets
      PROVE  GateMatches(gate[t], request, t) /\ Reasoned(gate[t]) /\ Timed(gate[t], timers[t])
  <2>1. HoldersIn(request, t) = {} /\ WaitersIn(request, t) = {}
    BY <1>1, <1>2 DEF HoldersIn, WaitersIn, Holding
  <2>2. Cardinality(HoldersIn(request, t)) = 0
    BY <2>1, FS_EmptySet
  <2>3. gate[t] = NoGate
    BY DEF Init
  <2>4. Members(<<>>) = {} /\ \A m, n \in DOMAIN <<>> : <<>>[m] = <<>>[n] => m = n
    BY DEF Members
  <2>5. QueueMatches(NoGate.queue, request, t)
    BY <2>1, <2>4, <1>3 DEF QueueMatches
  <2> QED
    BY <2>2, <2>3, <2>5, <1>3 DEF GateMatches, Reasoned, Timed
<1>6. RotationInv
  <2>1. 0 \in Targets
    BY DEF Targets
  <2> QED
    BY <2>1 DEF Init, RotationInv
<1> QED
  BY <1>1, <1>2, <1>4, <1>5, <1>6 DEF IInv, SlotsInv

(* What the invariant says of the gate a request stands at. *)
LEMMA AtTarget ==
  ASSUME SlotsInv, NEW r \in Requests
  PROVE  /\ request[r] \in Request /\ request[r].target \in Targets
         /\ gate[request[r].target] \in Gate
         /\ timers[request[r].target] \in SUBSET Nat
         /\ GateMatches(gate[request[r].target], request, request[r].target)
         /\ Reasoned(gate[request[r].target])
         /\ Timed(gate[request[r].target], timers[request[r].target])
         /\ request[r].pc \in Holding \cup {"next", "queued"} => request[r].left >= 1
<1>1. request[r] \in Request /\ request[r].target \in Targets
  BY DEF SlotsInv, SlotsType, Request
<1> QED
  BY <1>1 DEF SlotsInv, SlotsType, Underway, Holding

(* Every release leaves the slots sound, whatever else is written with it. *)
LEMMA ReleaseKeeps ==
  ASSUME SlotsInv, NEW r \in Requests, request[r].pc \in Holding,
         NEW k \in Request, k.pc \in {"next", "ended"}, Underway(k),
         NEW t, t = request[r].target, NEW g \in Gate, NEW T \in SUBSET Nat,
         g.running = gate[t].running, g.queue = gate[t].queue,
         g.queue # <<>> => g.max >= 1, Timed(g, T),
         Release(r, k, g, T)
  PROVE  SlotsInv'
<1> DEFINE j == [request EXCEPT ![r] = k]
           h == [g EXCEPT !.running = @ - 1]
<1>1. /\ t \in Targets /\ gate[t] \in Gate /\ GateMatches(gate[t], request, t)
      /\ SlotsType /\ request \in [Requests -> Request]
  BY AtTarget DEF SlotsInv, SlotsType
<1>2. /\ Cardinality(HoldersIn(j, t)) = Cardinality(HoldersIn(request, t)) - 1
      /\ \A u \in Targets \ {t} : HoldersIn(j, u) = HoldersIn(request, u)
      /\ \A u \in Targets : WaitersIn(j, u) = WaitersIn(request, u)
  <2>1. j[r] = k /\ \A s \in Requests \ {r} : j[s] = request[s]
    BY <1>1
  <2> HIDE DEF j
  <2>2. /\ Cardinality(HoldersIn(j, request[r].target))
              = Cardinality(HoldersIn(request, request[r].target)) - 1
        /\ \A u \in Targets \ {request[r].target} : HoldersIn(j, u) = HoldersIn(request, u)
        /\ \A u \in Targets : WaitersIn(j, u) = WaitersIn(request, u)
    BY <1>1, <2>1, OneHolderFewer
  <2> QED
    BY <2>2
<1>3. j \in [Requests -> Request] /\ \A s \in Requests : Underway(j[s])
  <2>1. \A s \in Requests : j[s] = IF s = r THEN k ELSE request[s]
    BY <1>1
  <2>2. \A s \in Requests : Underway(request[s])
    BY DEF SlotsInv
  <2> HIDE DEF j
  <2>3. \A s \in Requests : Underway(j[s])
    BY <2>1, <2>2
  <2> QED
    BY <1>1, <2>3 DEF j
<1>4. Drain(t, h, T, j)
  BY DEF Release
<1> HIDE DEF j
<1>5. /\ h \in Gate /\ h.running = Cardinality(HoldersIn(j, t))
      /\ h.queue = g.queue /\ h.max = g.max /\ h.limited = g.limited
  <2>1. g.running - 1 = Cardinality(HoldersIn(j, t))
    BY <1>1, <1>2 DEF GateMatches
  <2>2. g.running - 1 \in Nat
    BY <2>1, HoldersFinite
  <2> QED
    BY <2>1, <2>2 DEF Gate
<1> HIDE DEF h
<1>6. GateMatches(h, j, t) /\ (h.queue # <<>> => h.max >= 1) /\ Timed(h, T)
  BY <1>1, <1>2, <1>5 DEF GateMatches, QueueMatches, Timed
<1>7. \A u \in Targets \ {t} : /\ GateMatches(gate[u], j, u)
                               /\ Reasoned(gate[u]) /\ Timed(gate[u], timers[u])
  BY <1>2 DEF SlotsInv, GateMatches, QueueMatches
<1> QED
  BY <1>1, <1>3, <1>4, <1>5, <1>6, <1>7, DrainKeeps

-----------------------------------------------------------------------------
(* The actions, one by one. *)

LEMMA StartKeeps ==
  ASSUME IInv, NEW r \in Requests, Start(r)
  PROVE  IInv'
<1>1. PICK first \in {TurnOf(r, sticky')} \cup Pins :
         request' = [request EXCEPT ![r] = [pc |-> "next", target |-> first, left |-> N,
                                            retry |-> 0, attempts |-> 0]]
  BY DEF Start
<1>2. /\ counter \in Targets /\ sticky \in [target : Targets, count : 1..StickyLimit - 1] \cup {None}
      /\ earned \in [Targets -> Int] /\ earned[counter] >= 1
      /\ \A t \in Targets : earned[t] >= 0
      /\ request \in [Requests -> Request] /\ SlotsInv
  BY DEF IInv, RotationInv, SlotsInv, SlotsType
<1>3. sticky' \in {sticky, None} /\ request[r].pc = "idle" /\ gate' = gate /\ timers' = timers
  BY DEF Start, gateVars
<1>4. first \in Targets
  <2>1. CASE first \in Pins
    BY <2>1 DEF Targets
  <2>2. CASE first = TurnOf(r, sticky')
    BY <2>2, <1>2, <1>3 DEF TurnOf
  <2> QED
    BY <1>1, <2>1, <2>2
<1> DEFINE k == [pc |-> "next", target |-> first, left |-> N, retry |-> 0, attempts |-> 0]
<1>5. k \in Request /\ k.pc = "next" /\ Underway(k)
  BY <1>4 DEF Request, Underway
<1>6. request' = [request EXCEPT ![r] = k]
  BY <1>1
<1> HIDE DEF k
<1>7. SlotsInv'
  <2>1. /\ request'[r] = k /\ \A s \in Requests \ {r} : request'[s] = request[s]
        /\ request' \in [Requests -> Request]
    BY <1>2, <1>5, <1>6
  <2>2. \A u \in Targets : /\ HoldersIn(request', u) = HoldersIn(request, u)
                           /\ WaitersIn(request', u) = WaitersIn(request, u)
    BY <1>2, <1>3, <1>5, <2>1, SlotlessSame DEF Holding
  <2>3. \A s \in Requests : Underway(request'[s])
    BY <1>2, <1>5, <2>1 DEF SlotsInv
  <2> QED
    BY <1>2, <1>3, <2>1, <2>2, <2>3, QuietKeeps DEF SlotsInv, SlotsType
<1>8. RotationInv'
  <2>1. CASE /\ counter' = After(counter)
             /\ earned' = [[earned EXCEPT ![counter] = @ - 1] EXCEPT ![After(counter)] = @ + 1]
    <3>1. After(counter) \in Targets
      BY <1>2, AfterIsTarget
    <3> DEFINE c == counter
               d == After(counter)
    <3>2. \A t \in Targets : /\ t # d => earned'[t] = IF t = c THEN earned[t] - 1 ELSE earned[t]
                             /\ t = d => earned'[t] = (IF t = c THEN earned[t] - 1 ELSE earned[t]) + 1
      BY <2>1, <1>2, <3>1
    <3>3. earned' \in [Targets -> Int]
      BY <2>1, <1>2, <3>1
    <3> HIDE DEF d
    <3>4. \A t \in Targets : earned'[t] >= 0
      BY <1>2, <3>2
    <3>5. d \in Targets /\ counter' = d
      BY <2>1, <3>1 DEF d
    <3>6. earned'[d] >= 1
      BY <1>2, <3>2, <3>5
    <3> QED
      BY <1>2, <1>3, <3>3, <3>4, <3>5, <3>6 DEF RotationInv
  <2>2. CASE UNCHANGED <<counter, earned>>
    BY <2>2, <1>2, <1>3 DEF RotationInv
  <2> QED
    BY <2>1, <2>2 DEF Start
<1> QED
  BY <1>7, <1>8 DEF IInv

LEMMA RotationStays == IInv /\ UNCHANGED rotation => RotationInv'
  BY DEF IInv, RotationInv, rotation

LEMMA SkipKeeps ==
  ASSUME SlotsInv, NEW r \in Requests, Skip(r)
  PROVE  SlotsInv'
<1>1. /\ request[r].pc = "next" /\ request' = [request EXCEPT ![r] = Onward(request[r])]
      /\ gate' = gate /\ timers' = timers /\ request \in [Requests -> Request]
  BY DEF Skip, gateVars, SlotsInv, SlotsType
<1>2. request[r] \in Request /\ request[r].left >= 1
  BY <1>1, AtTarget
<1> DEFINE k == Onward(request[r])
<1>3. k \in Request /\ k.pc \in {"next", "ended"} /\ Underway(k)
  BY <1>2, OnwardIs
<1> HIDE DEF k
<1>4. /\ request'[r] = k /\ \A s \in Requests \ {r} : request'[s] = request[s]
      /\ request' \in [Requests -> Request]
  BY <1>1, <1>3 DEF k
<1>5. \A u \in Targets : /\ HoldersIn(request', u) = HoldersIn(request, u)
                         /\ WaitersIn(request', u) = WaitersIn(request, u)
  <2>1. request[r].pc \notin Holding \cup {"queued"} /\ k.pc \notin Holding \cup {"queued"}
    BY <1>1, <1>3 DEF Holding
  <2>2. k \in Request /\ request \in [Requests -> Request]
    BY <1>1, <1>3
  <2> QED
    BY <2>1, <2>2, <1>4, SlotlessSame
<1>6. \A s \in Requests : Underway(request'[s])
  BY <1>3, <1>4 DEF SlotsInv
<1> QED
  BY <1>1, <1>4, <1>5, <1>6, QuietKeeps DEF SlotsInv, SlotsType

LEMMA CapIs ==
  ASSUME NEW g \in Gate, NEW c \in Nat, NEW h, h = [g EXCEPT !.max = c]
  PROVE  /\ h \in Gate /\ h.max = c
         /\ h.running = g.running /\ h.queue = g.queue /\ h.limited = g.limited
  BY DEF Gate

LEMMA QueueIs ==
  ASSUME NEW g \in Gate, NEW q \in Seq(Requests), NEW h, h = [g EXCEPT !.queue = q]
  PROVE  /\ h \in Gate /\ h.queue = q
         /\ h.running = g.running /\ h.max = g.max /\ h.limited = g.limited
  BY DEF Gate

(* The gate of a request that enters acquire. *)
LEMMA EnteredIs ==
  ASSUME SlotsInv, NEW r \in Requests, NEW cap \in Caps, NEW t, t = request[r].target,
         NEW g, g = Entered(r, cap)
  PROVE  /\ g \in Gate /\ g.max = cap /\ g.max >= 1
         /\ g.running = gate[t].running /\ g.queue = gate[t].queue /\ g.limited = gate[t].limited
         /\ GateMatches(g, request, t) /\ Reasoned(g) /\ Timed(g, timers[t])
<1>1. /\ gate[t] \in Gate /\ GateMatches(gate[t], request, t)
      /\ Reasoned(gate[t]) /\ Timed(gate[t], timers[t])
  BY AtTarget
<1>2. g = [gate[t] EXCEPT !.max = cap] /\ cap \in Nat \ {0}
  BY DEF Entered
<1>3. /\ g \in Gate /\ g.max = cap
      /\ g.running = gate[t].running /\ g.queue = gate[t].queue /\ g.limited = gate[t].limited
  <2> DEFINE o == gate[t]
  <2>1. o \in Gate /\ cap \in Nat /\ g = [o EXCEPT !.max = cap]
    BY <1>1, <1>2
  <2> HIDE DEF o
  <2>2. /\ g \in Gate /\ g.max = cap
        /\ g.running = o.running /\ g.queue = o.queue /\ g.limited = o.limited
    BY <2>1, CapIs
  <2> QED
    BY <2>2 DEF o
<1> QED
  BY <1>1, <1>2, <1>3 DEF GateMatches, Reasoned, Timed

LEMMA AcquireNowKeeps ==
  ASSUME SlotsInv, NEW r \in Requests, NEW cap \in Caps, AcquireNow(r, cap)
  PROVE  SlotsInv'
<1> DEFINE t == request[r].target
           g == Entered(r, cap)
           h == [Looked(g) EXCEPT !.running = @ + 1]
           k == Granted(request[r])
<1>1. /\ request[r].pc = "next" /\ gate' = [gate EXCEPT ![t] = h]
      /\ request' = [request EXCEPT ![r] = k]
      /\ timers' = timers /\ request \in [Requests -> Request]
  BY DEF AcquireNow, SlotsInv, SlotsType
<1>2. /\ g \in Gate /\ g.max >= 1 /\ GateMatches(g, request, t) /\ Timed(g, timers[t])
  BY EnteredIs
<1>3. k \in Request /\ k.pc \in Holding /\ k.target = t /\ request[r].left >= 1 /\ k.left >= 1
      /\ t \in Targets /\ timers[t] \in SUBSET Nat
  BY <1>1, AtTarget, GrantedIs
<1> HIDE DEF k, g
<1>4. /\ h \in Gate /\ h.running = g.running + 1 /\ h.max = g.max /\ h.queue = g.queue
      /\ h.limited \in {g.limited, None}
  <2>1. /\ Looked(g) \in Gate /\ Looked(g).running = g.running /\ Looked(g).max = g.max
        /\ Looked(g).queue = g.queue /\ Looked(g).limited \in {g.limited, None}
    BY <1>2 DEF Looked, Gate
  <2>2. g.running \in Nat
    BY <1>2 DEF Gate
  <2> QED
    BY <2>1, <2>2 DEF Gate
<1> HIDE DEF h
<1>5. /\ request'[r] = k /\ \A s \in Requests \ {r} : request'[s] = request[s]
      /\ request' \in [Requests -> Request]
  BY <1>1, <1>3
<1>6. /\ Cardinality(HoldersIn(request', t)) = Cardinality(HoldersIn(request, t)) + 1
      /\ \A u \in Targets \ {t} : HoldersIn(request', u) = HoldersIn(request, u)
      /\ \A u \in Targets : WaitersIn(request', u) = WaitersIn(request, u)
  <2>1. /\ request \in [Requests -> Request] /\ request[r].pc = "next"
        /\ k \in Request /\ k.pc \in Holding /\ k.target = request[r].target
    BY <1>1, <1>3
  <2> QED
    BY <2>1, <1>5, OneHolderMore
<1>7. GateMatches(h, request', t)
  BY <1>2, <1>3, <1>4, <1>6 DEF GateMatches, QueueMatches
<1>8. Reasoned(h) /\ Timed(h, timers[t])
  <2>1. h.running > 0
    BY <1>2, <1>4 DEF Gate
  <2> QED
    BY <2>1, <1>2, <1>4 DEF Reasoned, Timed
<1>9. \A s \in Requests : Underway(request'[s])
  BY <1>3, <1>5 DEF SlotsInv, Underway
<1>10. \A u \in Targets \ {t} : /\ GateMatches(gate[u], request', u)
                                /\ Reasoned(gate[u]) /\ Timed(gate[u], timers[u])
  BY <1>6 DEF SlotsInv, GateMatches, QueueMatches
<1>11. SlotsType /\ timers' = [timers EXCEPT ![t] = timers[t]]
  BY <1>1 DEF SlotsInv, SlotsType
<1> QED
  <2>1. t \in Targets /\ timers[t] \in SUBSET Nat /\ h \in Gate
        /\ gate' = [gate EXCEPT ![t] = h] /\ request' \in [Requests -> Request]
    BY <1>1, <1>3, <1>4, <1>5
  <2> HIDE DEF t
  <2> QED
    BY <2>1, <1>7, <1>8, <1>9, <1>10, <1>11, GateKeeps

LEMMA AcquireLaterKeeps ==
  ASSUME SlotsInv, NEW r \in Requests, NEW cap \in Caps, AcquireLater(r, cap)
  PROVE  SlotsInv'
<1> DEFINE t == request[r].target
           g == Entered(r, cap)
           h == [g EXCEPT !.queue = Append(@, r)]
           k == [request[r] EXCEPT !.pc = "queued"]
<1>1. /\ request[r].pc = "next" /\ gate' = [gate EXCEPT ![t] = h]
      /\ request' = [request EXCEPT ![r] = k]
      /\ timers' = timers /\ request \in [Requests -> Request]
      /\ g.running >= g.max \/ Limited(g)
  BY DEF AcquireLater, SlotsInv, SlotsType
<1>2. /\ g \in Gate /\ g.max >= 1 /\ GateMatches(g, request, t) /\ Timed(g, timers[t])
  BY EnteredIs
<1>3. k \in Request /\ k.pc = "queued" /\ k.target = t /\ k.left >= 1
      /\ t \in Targets /\ timers[t] \in SUBSET Nat
  BY <1>1, AtTarget DEF Request
<1> HIDE DEF k, g
<1>4. /\ h \in Gate /\ h.running = g.running /\ h.max = g.max /\ h.queue = Append(g.queue, r)
      /\ h.limited = g.limited
  <2> DEFINE q == Append(g.queue, r)
  <2>1. q \in Seq(Requests) /\ h = [g EXCEPT !.queue = q]
    BY <1>2 DEF Gate
  <2> HIDE DEF h, q
  <2>2. /\ h \in Gate /\ h.queue = q
        /\ h.running = g.running /\ h.max = g.max /\ h.limited = g.limited
    BY <2>1, <1>2, QueueIs
  <2> QED
    BY <2>2 DEF q
<1> HIDE DEF h
<1>5. /\ request'[r] = k /\ \A s \in Requests \ {r} : request'[s] = request[s]
      /\ request' \in [Requests -> Request]
  BY <1>1, <1>3
<1>6. /\ \A u \in Targets : HoldersIn(request', u) = HoldersIn(request, u)
      /\ \A u \in Targets \ {t} : WaitersIn(request', u) = WaitersIn(request, u)
      /\ WaitersIn(request', t) = WaitersIn(request, t) \cup {r}
      /\ r \notin WaitersIn(request, t)
  BY <1>1, <1>3, <1>5 DEF HoldersIn, WaitersIn, Holding
<1>7. QueueMatches(h.queue, request', t)
  <2> DEFINE q == g.queue
             p == h.queue
  <2>1. q \in Seq(Requests) /\ Len(q) \in Nat /\ p = Append(q, r)
    BY <1>2, <1>4 DEF Gate
  <2>2. QueueMatches(q, request, t)
    BY <1>2 DEF GateMatches
  <2> HIDE DEF q, p
  <2>3. /\ p[Len(q) + 1] = r /\ \A m \in 1..Len(q) : p[m] = q[m]
        /\ DOMAIN p = 1..(Len(q) + 1) /\ DOMAIN q = 1..Len(q)
    BY <2>1
  <2>4. \A m \in 1..Len(q) : q[m] # r
    BY <1>6, <2>2, <2>3 DEF QueueMatches, Members
  <2>5. Members(p) = Members(q) \cup {r}
    BY <2>1, <2>3 DEF Members
  <2>6. \A m, n \in DOMAIN p : p[m] = p[n] => m = n
    BY <2>1, <2>2, <2>3, <2>4 DEF QueueMatches
  <2> QED
    BY <2>2, <2>5, <2>6, <1>6 DEF QueueMatches, p
<1>8. GateMatches(h, request', t)
  BY <1>2, <1>3, <1>4, <1>6, <1>7 DEF GateMatches
<1>9. Reasoned(h) /\ Timed(h, timers[t])
  BY <1>1, <1>2, <1>4 DEF Reasoned, Timed, Gate, Limited
<1>10. \A s \in Requests : Underway(request'[s])
  BY <1>3, <1>5 DEF SlotsInv, Underway
<1>11. \A u \in Targets \ {t} : /\ GateMatches(gate[u], request', u)
                                /\ Reasoned(gate[u]) /\ Timed(gate[u], timers[u])
  BY <1>6 DEF SlotsInv, GateMatches, QueueMatches
<1>12. SlotsType /\ timers' = [timers EXCEPT ![t] = timers[t]]
  BY <1>1 DEF SlotsInv, SlotsType
<1> QED
  BY <1>1, <1>3, <1>4, <1>5, <1>8, <1>9, <1>10, <1>11, <1>12, GateKeeps

LEMMA AcquireRefusedKeeps ==
  ASSUME SlotsInv, NEW r \in Requests, NEW cap \in Caps, AcquireRefused(r, cap)
  PROVE  SlotsInv'
<1> DEFINE t == request[r].target
           g == Entered(r, cap)
           k == Onward(request[r])
<1>1. /\ request[r].pc = "next" /\ Write(t, g, timers[t])
      /\ request' = [request EXCEPT ![r] = k] /\ request \in [Requests -> Request]
  BY DEF AcquireRefused, SlotsInv, SlotsType
<1>2. /\ g \in Gate /\ GateMatches(g, request, t) /\ Reasoned(g) /\ Timed(g, timers[t])
  BY EnteredIs
<1>3. /\ request[r] \in Request /\ request[r].left >= 1
      /\ t \in Targets /\ timers[t] \in SUBSET Nat
  BY <1>1, AtTarget
<1>4. k \in Request /\ k.pc \in {"next", "ended"} /\ Underway(k)
  BY <1>3, OnwardIs
<1> HIDE DEF k, g
<1>5. /\ request'[r] = k /\ \A s \in Requests \ {r} : request'[s] = request[s]
      /\ request' \in [Requests -> Request]
  BY <1>1, <1>4
<1>6. \A u \in Targets : /\ HoldersIn(request', u) = HoldersIn(request, u)
                         /\ WaitersIn(request', u) = WaitersIn(request, u)
  <2>1. request[r].pc \notin Holding \cup {"queued"} /\ k.pc \notin Holding \cup {"queued"}
    BY <1>1, <1>4 DEF Holding
  <2>2. k \in Request /\ request \in [Requests -> Request]
    BY <1>1, <1>4
  <2> QED
    BY <2>1, <2>2, <1>5, SlotlessSame
<1>7. \A s \in Requests : Underway(request'[s])
  BY <1>4, <1>5 DEF SlotsInv
<1>8. GateMatches(g, request', t)
  BY <1>2, <1>3, <1>6 DEF GateMatches, QueueMatches
<1>9. \A u \in Targets \ {t} : /\ GateMatches(gate[u], request', u)
                               /\ Reasoned(gate[u]) /\ Timed(gate[u], timers[u])
  BY <1>6 DEF SlotsInv, GateMatches, QueueMatches
<1>10. SlotsType
  BY DEF SlotsInv
<1> QED
  <2>1. t \in Targets /\ timers[t] \in SUBSET Nat /\ g \in Gate
        /\ Write(t, g, timers[t]) /\ request' \in [Requests -> Request]
        /\ Reasoned(g) /\ Timed(g, timers[t])
    BY <1>1, <1>2, <1>3, <1>5
  <2> HIDE DEF t
  <2> QED
    BY <2>1, <1>7, <1>8, <1>9, <1>10, WriteKeeps

(* The splice takes exactly r out of the queue. *)
LEMMA WithoutDrops ==
  ASSUME NEW t \in Targets, NEW j \in [Requests -> Request], NEW q \in Seq(Requests),
         QueueMatches(q, j, t), NEW r \in Requests, j[r].pc = "queued", j[r].target = t,
         NEW a, a[r].pc # "queued", \A s \in Requests \ {r} : a[s] = j[s]
  PROVE  /\ Without(q, r) \in Seq(Requests)
         /\ QueueMatches(Without(q, r), a, t)
         /\ q # <<>>
<1> DEFINE p == CHOOSE i \in DOMAIN q : q[i] = r
           w == Without(q, r)
<1>1. Len(q) \in Nat /\ DOMAIN q = 1..Len(q)
  OBVIOUS
<1>2. \E i \in DOMAIN q : q[i] = r
  BY DEF QueueMatches, Members, WaitersIn
<1>3. p \in 1..Len(q) /\ q[p] = r
  BY <1>1, <1>2
<1>4. w = [i \in 1..(Len(q) - 1) |-> IF i < p THEN q[i] ELSE q[i + 1]]
  BY DEF Without
<1> HIDE DEF p, w
<1>5. /\ w \in Seq(Requests) /\ Len(w) = Len(q) - 1 /\ DOMAIN w = 1..(Len(q) - 1)
      /\ \A i \in 1..(Len(q) - 1) : w[i] = IF i < p THEN q[i] ELSE q[i + 1]
  <2>1. \A i \in 1..(Len(q) - 1) : (IF i < p THEN q[i] ELSE q[i + 1]) \in Requests
    BY <1>1
  <2>2. Len(q) - 1 \in Nat
    BY <1>1, <1>3
  <2> QED
    BY <1>4, <2>1, <2>2
<1>6. \A i, n \in DOMAIN w : w[i] = w[n] => i = n
  <2> SUFFICES ASSUME NEW i \in 1..(Len(q) - 1), NEW n \in 1..(Len(q) - 1), w[i] = w[n]
               PROVE  i = n
    BY <1>5
  <2> DEFINE m(x) == IF x < p THEN x ELSE x + 1
  <2>1. m(i) \in DOMAIN q /\ m(n) \in DOMAIN q
    BY <1>1
  <2>2. q[m(i)] = q[m(n)]
    BY <1>5
  <2>3. m(i) = m(n)
    <3> HIDE DEF m
    <3> QED
      BY <2>1, <2>2 DEF QueueMatches
  <2> QED
    BY <2>3, <1>3
<1>7. ASSUME NEW s \in Members(w)
      PROVE  s \in Members(q) \ {r}
  <2>1. PICK i \in 1..(Len(q) - 1) : s = w[i]
    BY <1>5, <1>7 DEF Members
  <2>2. PICK n \in DOMAIN q : s = q[n] /\ n # p
    <3>1. CASE i < p
      BY <3>1, <2>1, <1>5, <1>1
    <3>2. CASE ~(i < p)
      <4>1. i + 1 \in DOMAIN q /\ i + 1 # p /\ s = q[i + 1]
        BY <3>2, <2>1, <1>5, <1>1, <1>3
      <4> QED
        BY <4>1
    <3> QED
      BY <3>1, <3>2
  <2> QED
    BY <2>2, <1>1, <1>3 DEF QueueMatches, Members
<1>8. ASSUME NEW s \in Members(q) \ {r}
      PROVE  s \in Members(w)
  <2>1. PICK n \in 1..Len(q) : s = q[n]
    BY <1>8, <1>1 DEF Members
  <2>2. n # p
    BY <2>1, <1>3
  <2>3. CASE n < p
    <3>1. n \in 1..(Len(q) - 1) /\ w[n] = s
      BY <2>3, <2>1, <1>5, <1>1, <1>3
    <3> QED
      BY <3>1, <1>5 DEF Members
  <2>4. CASE n > p
    <3>1. n - 1 \in 1..(Len(q) - 1) /\ ~(n - 1 < p) /\ (n - 1) + 1 = n
      BY <2>4, <2>1, <1>1, <1>3
    <3>2. w[n - 1] = s
      BY <3>1, <1>5, <2>1
    <3> QED
      BY <3>1, <3>2, <1>5 DEF Members
  <2> QED
    BY <2>2, <2>3, <2>4, <1>3, <1>1
<1>9. WaitersIn(a, t) = WaitersIn(j, t) \ {r}
  BY DEF WaitersIn
<1>10. QueueMatches(w, a, t)
  BY <1>6, <1>7, <1>8, <1>9 DEF QueueMatches
<1>11. q # <<>>
  BY <1>1, <1>3
<1> QED
  BY <1>5, <1>10, <1>11 DEF w

LEMMA TimeOutKeeps ==
  ASSUME SlotsInv, NEW r \in Requests, TimeOut(r)
  PROVE  SlotsInv'
<1> DEFINE t == request[r].target
           o == gate[t]
           q == Without(o.queue, r)
           h == [o EXCEPT !.queue = q]
           k == Onward(request[r])
<1>1. /\ request[r].pc = "queued" /\ gate' = [gate EXCEPT ![t] = h]
      /\ request' = [request EXCEPT ![r] = k]
      /\ timers' = timers /\ request \in [Requests -> Request] /\ SlotsType
  <2>1. /\ gate' = [gate EXCEPT ![t].queue = Without(@, r)]
        /\ gate \in [Targets -> Gate] /\ t \in Targets
    BY AtTarget DEF TimeOut, SlotsInv, SlotsType
  <2> QED
    BY <2>1 DEF TimeOut, SlotsInv, SlotsType
<1>2. /\ request[r] \in Request /\ request[r].left >= 1
      /\ t \in Targets /\ timers[t] \in SUBSET Nat /\ o \in Gate
      /\ GateMatches(o, request, t) /\ Reasoned(o) /\ Timed(o, timers[t])
  BY <1>1, AtTarget
<1>3. k \in Request /\ k.pc \in {"next", "ended"} /\ Underway(k)
  BY <1>2, OnwardIs
<1> HIDE DEF k, h
<1>4. /\ request'[r] = k /\ \A s \in Requests \ {r} : request'[s] = request[s]
      /\ request' \in [Requests -> Request]
  BY <1>1, <1>3
<1>5. q \in Seq(Requests) /\ QueueMatches(q, request', t) /\ o.queue # <<>>
  <2>1. o.queue \in Seq(Requests) /\ QueueMatches(o.queue, request, t)
    BY <1>2 DEF Gate, GateMatches
  <2>2. request[r].pc = "queued" /\ request[r].target = t /\ request'[r].pc # "queued"
        /\ request \in [Requests -> Request] /\ t \in Targets
    BY <1>1, <1>2, <1>3, <1>4
  <2> HIDE DEF o
  <2> QED
    BY <2>1, <2>2, <1>4, WithoutDrops
<1>6. /\ h \in Gate /\ h.queue = q
      /\ h.running = o.running /\ h.max = o.max /\ h.limited = o.limited
  <2>1. h = [o EXCEPT !.queue = q]
    BY DEF h
  <2> HIDE DEF o, q
  <2> QED
    BY <2>1, <1>2, <1>5, QueueIs
<1> HIDE DEF q
<1>7. /\ \A u \in Targets : HoldersIn(request', u) = HoldersIn(request, u)
      /\ \A u \in Targets \ {t} : WaitersIn(request', u) = WaitersIn(request, u)
  BY <1>1, <1>3, <1>4 DEF HoldersIn, WaitersIn, Holding
<1>8. GateMatches(h, request', t) /\ Reasoned(h) /\ Timed(h, timers[t])
  <2> HIDE DEF o, t
  <2>1. HoldersIn(request', t) = HoldersIn(request, t)
    BY <1>2, <1>7
  <2> QED
    BY <2>1, <1>2, <1>5, <1>6 DEF GateMatches, Reasoned, Timed
<1>9. \A s \in Requests : Underway(request'[s])
  BY <1>3, <1>4 DEF SlotsInv
<1>10. \A u \in Targets \ {t} : /\ GateMatches(gate[u], request', u)
                                /\ Reasoned(gate[u]) /\ Timed(gate[u], timers[u])
  BY <1>7 DEF SlotsInv, GateMatches, QueueMatches
<1>11. timers' = [timers EXCEPT ![t] = timers[t]]
  BY <1>1 DEF SlotsType
<1> HIDE DEF t
<1> QED
  BY <1>1, <1>2, <1>4, <1>6, <1>8, <1>9, <1>10, <1>11, GateKeeps

LEMMA AnswerReleaseKeeps ==
  ASSUME SlotsInv, NEW r \in Requests, request[r].pc \in Holding,
         NEW t, t = request[r].target, Release(r, Answered, gate[t], timers[t])
  PROVE  SlotsInv'
<1>1. /\ gate[t] \in Gate /\ timers[t] \in SUBSET Nat
      /\ Reasoned(gate[t]) /\ Timed(gate[t], timers[t])
  BY AtTarget
<1>2. Answered \in Request /\ Answered.pc \in {"next", "ended"} /\ Underway(Answered)
  BY AnsweredIs DEF Underway
<1> QED
  BY <1>1, <1>2, ReleaseKeeps DEF Reasoned

LEMMA OnwardReleaseKeeps ==
  ASSUME SlotsInv, NEW r \in Requests, request[r].pc \in Holding,
         NEW t, t = request[r].target, NEW g \in Gate, NEW T \in SUBSET Nat,
         g.running = gate[t].running, g.queue = gate[t].queue,
         g.queue # <<>> => g.max >= 1, Timed(g, T),
         Release(r, Onward(request[r]), g, T)
  PROVE  SlotsInv'
<1> DEFINE k == Onward(request[r])
<1>1. k \in Request /\ k.pc \in {"next", "ended"} /\ Underway(k)
  BY AtTarget, OnwardIs
<1>2. Release(r, k, g, T)
  OBVIOUS
<1> HIDE DEF k
<1> QED
  BY <1>1, <1>2, ReleaseKeeps

(* What a failure makes of the gate and its timers. *)
LEMMA MarkedIs ==
  ASSUME NEW o \in Gate, NEW S \in SUBSET Nat, Reasoned(o), Timed(o, S),
         NEW cool \in Cooldowns \cup {None},
         NEW g, g = (IF cool = None THEN o ELSE Marked(o, cool)),
         NEW T, T = (IF cool = None THEN S ELSE S \cup {cool})
  PROVE  /\ g \in Gate /\ T \in SUBSET Nat
         /\ g.running = o.running /\ g.queue = o.queue
         /\ Reasoned(g) /\ Timed(g, T)
<1>1. CASE cool = None
  BY <1>1
<1>2. CASE cool # None
  <2>1. cool \in Nat /\ cool # None /\ T = S \cup {cool} /\ g = Marked(o, cool)
    BY <1>2
  <2>2. /\ g \in Gate /\ g.max = DefaultMax /\ g.limited = cool
        /\ g.running = o.running /\ g.queue = o.queue
    <3>1. g = [o EXCEPT !.max = DefaultMax, !.limited = cool]
      BY <2>1 DEF Marked
    <3> QED
      BY <2>1, <3>1 DEF Gate
  <2>3. Reasoned(g)
    BY <2>1, <2>2 DEF Reasoned
  <2>4. Timed(g, T)
    BY <2>1, <2>2 DEF Timed
  <2> QED
    BY <2>1, <2>2, <2>3, <2>4
<1> QED
  BY <1>1, <1>2

(* A holder that keeps its slot, its gate marked perhaps. *)
LEMMA StaysKeeps ==
  ASSUME SlotsInv, NEW r \in Requests, request[r].pc \in Holding,
         NEW t, t = request[r].target, NEW g \in Gate, NEW T \in SUBSET Nat,
         g.running = gate[t].running, g.queue = gate[t].queue, Reasoned(g), Timed(g, T),
         NEW k \in Request, k.pc \in Holding, k.target = t, k.left = request[r].left,
         gate' = [gate EXCEPT ![t] = g], timers' = [timers EXCEPT ![t] = T],
         request' = [request EXCEPT ![r] = k]
  PROVE  SlotsInv'
<1>1. /\ t \in Targets /\ request[r].left >= 1 /\ SlotsType /\ GateMatches(gate[t], request, t)
      /\ request \in [Requests -> Request]
  BY AtTarget DEF SlotsInv, SlotsType
<1>2. /\ request'[r] = k /\ \A s \in Requests \ {r} : request'[s] = request[s]
      /\ request' \in [Requests -> Request]
  BY <1>1
<1>3. \A u \in Targets : /\ HoldersIn(request', u) = HoldersIn(request, u)
                         /\ WaitersIn(request', u) = WaitersIn(request, u)
  <2>1. request[r].pc # "queued" /\ k.pc # "queued"
    BY DEF Holding
  <2> QED
    BY <2>1, <1>2 DEF HoldersIn, WaitersIn
<1>4. \A s \in Requests : Underway(request'[s])
  BY <1>1, <1>2 DEF SlotsInv, Underway
<1>5. GateMatches(g, request', t)
  BY <1>1, <1>3 DEF GateMatches, QueueMatches
<1>6. \A u \in Targets \ {t} : /\ GateMatches(gate[u], request', u)
                               /\ Reasoned(gate[u]) /\ Timed(gate[u], timers[u])
  BY <1>3 DEF SlotsInv, GateMatches, QueueMatches
<1> QED
  BY <1>1, <1>2, <1>4, <1>5, <1>6, GateKeeps

LEMMA FailKeeps ==
  ASSUME SlotsInv, NEW r \in Requests, NEW cool \in Cooldowns \cup {None},
         NEW again \in BOOLEAN, NEW waits \in BOOLEAN, Fail(r, cool, again, waits)
  PROVE  SlotsInv'
<1> DEFINE j == request[r]
           t == j.target
           g == IF cool = None THEN gate[t] ELSE Marked(gate[t], cool)
           T == IF cool = None THEN timers[t] ELSE timers[t] \cup {cool}
           Stays(k) == /\ gate' = [gate EXCEPT ![t] = g]
                       /\ timers' = [timers EXCEPT ![t] = T]
                       /\ request' = [request EXCEPT ![r] = k]
           again1 == [j EXCEPT !.retry = @ + 1, !.attempts = @ + 1]
           later1 == [j EXCEPT !.pc = "wait", !.retry = 0]
<1>1. /\ j.pc = "calling"
      /\ \/ j.retry < MaxRetries /\ j.attempts < MaxAttempts /\ Stays(again1)
         \/ Release(r, Answered, g, T)
         \/ Stays(later1)
         \/ Release(r, Onward(j), g, T)
  BY DEF Fail
<1>2. /\ j \in Request /\ t \in Targets /\ gate[t] \in Gate /\ timers[t] \in SUBSET Nat
      /\ Reasoned(gate[t]) /\ Timed(gate[t], timers[t]) /\ j.pc \in Holding
  BY <1>1, AtTarget DEF Holding
<1>3. /\ g \in Gate /\ T \in SUBSET Nat
      /\ g.running = gate[t].running /\ g.queue = gate[t].queue
      /\ Reasoned(g) /\ Timed(g, T)
  <2> DEFINE o == gate[t]
             S == timers[t]
  <2>1. o \in Gate /\ S \in SUBSET Nat /\ Reasoned(o) /\ Timed(o, S)
    BY <1>2
  <2>2. /\ g = (IF cool = None THEN o ELSE Marked(o, cool))
        /\ T = (IF cool = None THEN S ELSE S \cup {cool})
    OBVIOUS
  <2> HIDE DEF o, S, g, T
  <2>3. g \in Gate /\ g.running = o.running /\ g.queue = o.queue
    BY <2>1, <2>2, MarkedIs
  <2>4. T \in SUBSET Nat /\ Reasoned(g) /\ Timed(g, T)
    BY <2>1, <2>2, MarkedIs
  <2> QED
    BY <2>3, <2>4 DEF o
<1>4. g.queue # <<>> => g.max >= 1
  BY <1>3 DEF Reasoned
<1> HIDE DEF g, T
<1>5. CASE j.retry < MaxRetries /\ j.attempts < MaxAttempts /\ Stays(again1)
  <2>1. j.retry + 1 \in 0..MaxRetries /\ j.attempts + 1 \in 0..MaxAttempts
    BY <1>2, <1>5 DEF Request
  <2>2. /\ again1 \in Request /\ again1.pc = "calling" /\ again1.target = t
        /\ again1.left = j.left
    BY <1>1, <1>2, <2>1 DEF Request
  <2>3. again1.pc \in Holding
    BY <2>2 DEF Holding
  <2>4. /\ gate' = [gate EXCEPT ![t] = g] /\ timers' = [timers EXCEPT ![t] = T]
        /\ request' = [request EXCEPT ![r] = again1]
    BY <1>5
  <2> HIDE DEF again1
  <2> QED
    BY <1>2, <1>3, <2>2, <2>3, <2>4, StaysKeeps
<1>6. CASE Release(r, Answered, g, T)
  <2>1. Answered \in Request /\ Answered.pc \in {"next", "ended"} /\ Underway(Answered)
    BY AnsweredIs DEF Underway
  <2> QED
    BY <1>2, <1>3, <1>4, <1>6, <2>1, ReleaseKeeps
<1>7. CASE Stays(later1)
  <2>0. 0 \in 0..MaxRetries /\ "wait" \in Holding
    BY DEF Holding
  <2>1. /\ later1 \in Request /\ later1.pc = "wait" /\ later1.target = t
        /\ later1.left = j.left
    BY <1>2, <2>0 DEF Request
  <2>2. later1.pc \in Holding
    BY <2>1 DEF Holding
  <2>3. /\ gate' = [gate EXCEPT ![t] = g] /\ timers' = [timers EXCEPT ![t] = T]
        /\ request' = [request EXCEPT ![r] = later1]
    BY <1>7
  <2> HIDE DEF later1
  <2> QED
    BY <1>2, <1>3, <2>1, <2>2, <2>3, StaysKeeps
<1>8. CASE Release(r, Onward(j), g, T)
  BY <1>2, <1>3, <1>4, <1>8, OnwardReleaseKeeps
<1> QED
  BY <1>1, <1>5, <1>6, <1>7, <1>8

LEMMA WaitOverKeeps ==
  ASSUME SlotsInv, NEW r \in Requests, WaitOver(r)
  PROVE  SlotsInv'
<1> DEFINE t == request[r].target
<1>1. request[r].pc \in Holding /\ Release(r, Onward(request[r]), gate[t], timers[t])
  BY DEF WaitOver, Holding
<1>2. /\ gate[t] \in Gate /\ timers[t] \in SUBSET Nat
      /\ Reasoned(gate[t]) /\ Timed(gate[t], timers[t])
  BY AtTarget
<1> QED
  BY <1>1, <1>2, OnwardReleaseKeeps DEF Reasoned

(* A success earns the target after t its turn and is all that moves on. *)
LEMMA SucceedRotates ==
  ASSUME IInv, NEW r \in Requests, Succeed(r)
  PROVE  RotationInv'
<1> DEFINE t == request[r].target
           n == IF sticky # None /\ sticky.target = t THEN sticky.count + 1 ELSE 1
           w == After(t)
<1>1. /\ counter \in Targets /\ sticky \in [target : Targets, count : 1..StickyLimit - 1] \cup {None}
      /\ earned \in [Targets -> Int] /\ earned[counter] >= 1
      /\ \A u \in Targets : earned[u] >= 0
  BY DEF IInv, RotationInv
<1>2. t \in Targets /\ w \in Targets
  BY AtTarget, AfterIsTarget DEF IInv
<1>3. earned' = [earned EXCEPT ![w] = @ + 1]
  BY DEF Succeed
<1>4. \/ counter' = w /\ sticky' = sticky
      \/ counter' = w /\ sticky' = None
      \/ n < StickyLimit /\ sticky' = [target |-> t, count |-> n] /\ counter' = counter
  BY DEF Succeed, PointerPast, Batched
<1>5. n < StickyLimit => n \in 1..StickyLimit - 1
  BY <1>1
<1> HIDE DEF t, n, w
<1>6. /\ earned' \in [Targets -> Int] /\ earned'[w] >= 1
      /\ \A u \in Targets : earned'[u] >= earned[u]
  BY <1>1, <1>2, <1>3
<1>7. counter' \in Targets /\ earned'[counter'] >= 1
  <2>1. CASE counter' = w
    BY <2>1, <1>2, <1>6
  <2>2. CASE counter' = counter
    BY <2>2, <1>1, <1>6
  <2> QED
    BY <2>1, <2>2, <1>4
<1>8. sticky' \in [target : Targets, count : 1..StickyLimit - 1] \cup {None}
  BY <1>1, <1>2, <1>4, <1>5
<1>9. \A u \in Targets : earned'[u] >= 0
  BY <1>1, <1>6
<1> QED
  BY <1>6, <1>7, <1>8, <1>9 DEF RotationInv

LEMMA TimerFiresKeeps ==
  ASSUME SlotsInv, NEW t \in Targets, TimerFires(t)
  PROVE  SlotsInv'
<1>1. /\ SlotsType /\ request \in [Requests -> Request] /\ gate[t] \in Gate
      /\ timers[t] \in SUBSET Nat /\ gate \in [Targets -> Gate]
      /\ GateMatches(gate[t], request, t) /\ Reasoned(gate[t]) /\ Timed(gate[t], timers[t])
      /\ \A r \in Requests : Underway(request[r])
      /\ \A u \in Targets : /\ GateMatches(gate[u], request, u)
                             /\ Reasoned(gate[u]) /\ Timed(gate[u], timers[u])
  BY DEF SlotsInv, SlotsType
<1>2. CASE Drain(t, [gate[t] EXCEPT !.limited = None], timers[t] \ {0}, request)
  <2> DEFINE g == [gate[t] EXCEPT !.limited = None]
  <2>1. /\ g \in Gate /\ g.running = gate[t].running /\ g.queue = gate[t].queue
        /\ g.max = gate[t].max /\ g.limited = None
    <3> DEFINE o == gate[t]
    <3>1. o \in Gate /\ g = [o EXCEPT !.limited = None]
      BY <1>1
    <3> HIDE DEF o
    <3>2. /\ g \in Gate /\ g.running = o.running /\ g.queue = o.queue
          /\ g.max = o.max /\ g.limited = None
      BY <3>1 DEF Gate
    <3> QED
      BY <3>2 DEF o
  <2>2. Drain(t, g, timers[t] \ {0}, request)
    BY <1>2
  <2> HIDE DEF g
  <2>3. GateMatches(g, request, t) /\ (g.queue # <<>> => g.max >= 1) /\ Timed(g, timers[t] \ {0})
    BY <1>1, <2>1 DEF GateMatches, Reasoned, Timed
  <2>4. timers[t] \ {0} \in SUBSET Nat
    BY <1>1
  <2> QED
    BY <1>1, <2>1, <2>2, <2>3, <2>4, DrainKeeps
<1>3. CASE /\ gate[t].limited # 0
           /\ timers' = [timers EXCEPT ![t] = @ \ {0}]
           /\ UNCHANGED <<gate, request>>
  <2>1. timers' \in [Targets -> SUBSET Nat]
    BY <1>1, <1>3 DEF SlotsType
  <2>2. Timed(gate[t], timers[t] \ {0})
    BY <1>1, <1>3 DEF Timed, Gate
  <2>3. \A u \in Targets : Timed(gate[u], timers'[u])
    BY <1>1, <1>3, <2>2 DEF SlotsType
  <2> QED
    BY <1>1, <1>3, <2>1, <2>3, QuietKeeps
<1> QED
  BY <1>2, <1>3 DEF TimerFires

LEMMA StrayFiresKeeps ==
  ASSUME SlotsInv, NEW t \in Targets, StrayFires(t)
  PROVE  SlotsInv'
<1>1. /\ SlotsType /\ request \in [Requests -> Request] /\ gate[t] \in Gate
      /\ timers[t] \in SUBSET Nat
      /\ \A r \in Requests : Underway(request[r])
      /\ \A u \in Targets : /\ GateMatches(gate[u], request, u)
                             /\ Reasoned(gate[u]) /\ Timed(gate[u], timers[u])
  BY DEF SlotsInv, SlotsType
<1>2. Drain(t, gate[t], timers[t], request)
  BY DEF StrayFires
<1>3. gate[t].queue # <<>> => gate[t].max >= 1
  BY <1>1 DEF Reasoned
<1> QED
  BY <1>1, <1>2, <1>3, DrainKeeps

LEMMA TickKeeps ==
  ASSUME SlotsInv, Tick
  PROVE  SlotsInv'
<1>1. /\ \A t \in Targets : 0 \notin timers[t]
      /\ timers' = [t \in Targets |-> {x - 1 : x \in timers[t]}]
      /\ gate' = [t \in Targets |->
                    IF Limited(gate[t]) THEN [gate[t] EXCEPT !.limited = @ - 1] ELSE gate[t]]
      /\ request' = request
      /\ gate \in [Targets -> Gate] /\ timers \in [Targets -> SUBSET Nat]
      /\ request \in [Requests -> Request]
  BY DEF Tick, SlotsInv, SlotsType
<1>2. ASSUME NEW t \in Targets
      PROVE  timers'[t] \in SUBSET Nat
  <2>1. \A x \in timers[t] : x \in Nat /\ x # 0 /\ x - 1 \in Nat
    BY <1>1
  <2> QED
    BY <1>1, <2>1
<1>3. ASSUME NEW t \in Targets
      PROVE  /\ gate'[t] \in Gate /\ gate'[t].running = gate[t].running
             /\ gate'[t].queue = gate[t].queue /\ gate'[t].max = gate[t].max
             /\ gate[t].limited = None => gate'[t].limited = None
             /\ gate[t].limited # None =>
                  /\ gate[t].limited \in Nat /\ gate'[t].limited \in Nat
                  /\ gate'[t].limited = gate[t].limited - 1 \/ gate'[t].limited = 0
  <2> DEFINE o == gate[t]
             g == gate'[t]
  <2>1. o \in Gate /\ g = IF Limited(o) THEN [o EXCEPT !.limited = @ - 1] ELSE o
    BY <1>1
  <2> HIDE DEF o, g
  <2>2. CASE Limited(o)
    <3>1. o.limited \in Nat /\ o.limited - 1 \in Nat
      BY <2>1, <2>2 DEF Limited, Gate
    <3>2. /\ g \in Gate /\ g.running = o.running /\ g.queue = o.queue /\ g.max = o.max
          /\ g.limited = o.limited - 1
      BY <2>1, <2>2, <3>1 DEF Gate
    <3> QED
      BY <2>2, <3>1, <3>2 DEF Limited, o, g
  <2>3. CASE ~Limited(o)
    <3>1. g = o /\ o \in Gate /\ (o.limited = None \/ o.limited = 0)
      BY <2>1, <2>3 DEF Limited
    <3>2. /\ g \in Gate /\ g.running = o.running /\ g.queue = o.queue /\ g.max = o.max
          /\ o.limited = None => g.limited = None
          /\ o.limited # None =>
               /\ o.limited \in Nat /\ g.limited \in Nat
               /\ g.limited = o.limited - 1 \/ g.limited = 0
      <4>1. CASE o.limited = None
        BY <4>1, <3>1
      <4>2. CASE o.limited = 0
        BY <4>2, <3>1
      <4> QED
        BY <3>1, <4>1, <4>2
    <3> QED
      BY <3>2 DEF o, g
  <2> QED
    BY <2>2, <2>3
<1>4. ASSUME NEW t \in Targets
      PROVE  Reasoned(gate'[t])
  BY <1>3 DEF SlotsInv, Reasoned
<1>5. ASSUME NEW t \in Targets
      PROVE  Timed(gate'[t], timers'[t])
  <2>1. ASSUME gate'[t].limited # None
        PROVE  \E x \in timers'[t] : x >= gate'[t].limited
    <3>1. gate[t].limited # None
      BY <2>1, <1>3
    <3>2. PICK x \in timers[t] : x >= gate[t].limited
      BY <3>1 DEF SlotsInv, Timed
    <3>3. x \in Nat /\ x # 0 /\ x - 1 \in timers'[t]
      BY <1>1, <3>2
    <3>4. x - 1 >= gate'[t].limited
      BY <3>1, <3>2, <3>3, <1>3
    <3> QED
      BY <3>3, <3>4
  <2> QED
    BY <2>1 DEF Timed
<1>6. gate' \in [Targets -> Gate] /\ timers' \in [Targets -> SUBSET Nat]
  <2>1. \A t \in Targets : gate'[t] \in Gate /\ timers'[t] \in SUBSET Nat
    BY <1>2, <1>3
  <2>2. gate' = [t \in Targets |-> gate'[t]] /\ timers' = [t \in Targets |-> timers'[t]]
    BY <1>1
  <2> QED
    BY <2>1, <2>2
<1>7. \A r \in Requests : Underway(request'[r])
  BY <1>1 DEF SlotsInv
<1> QED
  BY <1>1, <1>3, <1>4, <1>5, <1>6, <1>7, QuietKeeps

-----------------------------------------------------------------------------
LEMMA InvStep == IInv /\ [Next]_vars => IInv'
<1> SUFFICES ASSUME IInv, [Next]_vars PROVE IInv'
  OBVIOUS
<1>0. SlotsInv
  BY DEF IInv
<1>1. CASE UNCHANGED vars
  <2>1. gate' = gate /\ timers' = timers /\ request' = request /\ UNCHANGED rotation
    BY <1>1 DEF vars, gateVars, rotation
  <2>2. SlotsInv'
    BY <1>0, <2>1 DEF SlotsInv, SlotsType, GateMatches, QueueMatches, HoldersIn, WaitersIn
  <2> QED
    BY <2>1, <2>2, RotationStays DEF IInv
<1>2. ASSUME NEW r \in Requests, Start(r) PROVE IInv'
  BY <1>2, StartKeeps
<1>3. ASSUME NEW r \in Requests, Skip(r) PROVE IInv'
  BY <1>0, <1>3, SkipKeeps, RotationStays DEF IInv, Skip
<1>4. ASSUME NEW r \in Requests, Acquire(r) PROVE IInv'
  <2>1. PICK cap \in Caps : AcquireNow(r, cap) \/ AcquireLater(r, cap) \/ AcquireRefused(r, cap)
    BY <1>4 DEF Acquire
  <2>2. UNCHANGED rotation
    BY <2>1 DEF AcquireNow, AcquireLater, AcquireRefused, rotation
  <2> QED
    BY <1>0, <2>1, <2>2, AcquireNowKeeps, AcquireLaterKeeps, AcquireRefusedKeeps, RotationStays
       DEF IInv
<1>5. ASSUME NEW r \in Requests, TimeOut(r) PROVE IInv'
  <2>1. UNCHANGED rotation
    BY <1>5 DEF TimeOut, rotation
  <2> QED
    BY <1>0, <1>5, <2>1, TimeOutKeeps, RotationStays DEF IInv
<1>6. ASSUME NEW r \in Requests, GiveUp(r) \/ Disconnect(r) PROVE IInv'
  <2>1. /\ request[r].pc \in Holding /\ UNCHANGED rotation
        /\ Release(r, Answered, gate[request[r].target], timers[request[r].target])
    BY <1>6 DEF GiveUp, Disconnect, Holding
  <2> QED
    BY <1>0, <2>1, AnswerReleaseKeeps, RotationStays DEF IInv
<1>7. ASSUME NEW r \in Requests, Succeed(r) PROVE IInv'
  <2>1. /\ request[r].pc \in Holding
        /\ Release(r, Answered, gate[request[r].target], timers[request[r].target])
    BY <1>7 DEF Succeed, Holding
  <2> QED
    BY <1>0, <1>7, <2>1, AnswerReleaseKeeps, SucceedRotates DEF IInv
<1>8. ASSUME NEW r \in Requests, Failed(r) PROVE IInv'
  <2>1. PICK cool \in Cooldowns \cup {None}, again \in BOOLEAN, waits \in BOOLEAN :
           Fail(r, cool, again, waits)
    BY <1>8 DEF Failed
  <2>2. UNCHANGED rotation
    BY <2>1 DEF Fail
  <2> QED
    BY <1>0, <2>1, <2>2, FailKeeps, RotationStays DEF IInv
<1>9. ASSUME NEW r \in Requests, WaitOver(r) PROVE IInv'
  BY <1>0, <1>9, WaitOverKeeps, RotationStays DEF IInv, WaitOver
<1>10. ASSUME NEW t \in Targets, TimerFires(t) \/ StrayFires(t) PROVE IInv'
  <2>1. UNCHANGED rotation
    BY <1>10 DEF TimerFires, StrayFires
  <2> QED
    BY <1>0, <1>10, <2>1, TimerFiresKeeps, StrayFiresKeeps, RotationStays DEF IInv
<1>11. CASE Tick
  <2>1. UNCHANGED rotation
    BY <1>11 DEF Tick, rotation
  <2> QED
    BY <1>0, <1>11, <2>1, TickKeeps, RotationStays DEF IInv
<1> QED
  BY <1>1, <1>2, <1>3, <1>4, <1>5, <1>6, <1>7, <1>8, <1>9, <1>10, <1>11 DEF Next

LEMMA InvAlways == Spec => []IInv
  BY InitHolds, InvStep, PTL DEF Spec

(* The rotation, the gates, their timers and the requests keep their types. *)
THEOREM TypeCorrect == Spec => []TypeOK
<1>1. IInv => TypeOK
  BY DEF IInv, SlotsInv, SlotsType, RotationInv, TypeOK
<1> QED
  BY <1>1, InvAlways, PTL

(* Gates deleted and made again never lose or invent a slot or a waiter,   *)
(* and nobody waits at a gate that nothing will open.                      *)
THEOREM SlotsSound == Spec => []GatesSound
<1>1. ASSUME IInv PROVE GatesSound
  <2>1. ASSUME NEW t \in Targets
        PROVE  SlotsMatchHolders(t) /\ QueueIsWaiters(t) /\ SomebodyWakes(t)
    <3>1. GateMatches(gate[t], request, t) /\ Reasoned(gate[t]) /\ Timed(gate[t], timers[t])
      BY <1>1 DEF IInv, SlotsInv
    <3> QED
      BY <3>1 DEF GateMatches, QueueMatches, HoldersIn, WaitersIn, Reasoned, Timed,
                  SlotsMatchHolders, QueueIsWaiters, SomebodyWakes, Holders, Waiters
  <2> QED
    BY <2>1 DEF GatesSound
<1> QED
  BY <1>1, InvAlways, PTL

(* A target has no turn that its predecessor has not earned it, in whatever *)
(* order concurrent requests end.                                           *)
THEOREM TurnsEarned == Spec => []TurnsAreEarned
<1>1. IInv => TurnsAreEarned
  BY DEF IInv, RotationInv, TurnsAreEarned
<1> QED
  BY <1>1, InvAlways, PTL

-----------------------------------------------------------------------------
(* What a step gives away, and where it takes the requests.                *)
WithinCap ==
    \A r \in Requests : Gets(r) =>
       gate'[request[r].target].running <= gate'[request[r].target].max
       /\ ~Limited(gate'[request[r].target])

InTurn ==
    \A t \in Targets : \A m, n \in DOMAIN gate[t].queue :
       m < n /\ Gets(gate[t].queue[n]) => Gets(gate[t].queue[m])

Advance ==
    \A r \in Requests : request[r].pc # "idle" =>
       request'[r] = request[r] \/ Nearer(request'[r], request[r])

GoodStep == WithinCap /\ InTurn /\ Advance

LEMMA GrantedNearer ==
  ASSUME NEW j \in Request, j.pc \in {"next", "queued"}
  PROVE  Nearer(Granted(j), j)
<1>1. CASE j.attempts < MaxAttempts
  <2>1. /\ Granted(j).left = j.left /\ Granted(j).attempts = j.attempts + 1
        /\ j.attempts \in Nat
    BY <1>1 DEF Granted, Request
  <2> QED
    BY <1>1, <2>1 DEF Nearer
<1>2. CASE ~(j.attempts < MaxAttempts)
  <2>1. /\ Granted(j).left = j.left /\ Granted(j).attempts = j.attempts
        /\ Granted(j).pc = "spent"
    BY <1>2 DEF Granted, Request
  <2>2. Stage("spent") = 0 /\ Stage(j.pc) \in {2, 3}
    BY DEF Stage
  <2> QED
    BY <2>1, <2>2 DEF Nearer
<1> QED
  BY <1>1, <1>2

LEMMA AnsweredNearer ==
  ASSUME NEW j \in Request, j.left >= 1
  PROVE  Nearer(Answered, j)
BY DEF Answered, Fresh, Nearer, Request

LEMMA OnwardNearer ==
  ASSUME NEW j \in Request, j.left >= 1
  PROVE  Nearer(Onward(j), j)
<1>1. CASE j.left = 1
  BY <1>1, AnsweredNearer DEF Onward
<1>2. CASE j.left # 1
  <2>1. Onward(j).left = j.left - 1
    BY <1>2 DEF Onward, Request
  <2> QED
    BY <2>1 DEF Nearer, Request
<1> QED
  BY <1>1, <1>2

(* A step that gives nobody a slot has only its progress to show.          *)
LEMMA NoneGets ==
  ASSUME SlotsInv, Advance,
         \A r \in Requests : request'[r].pc \in Holding => request[r].pc \in Holding
  PROVE  GoodStep
<1>1. \A r \in Requests : ~Gets(r)
  BY DEF Gets
<1>2. \A t \in Targets : \A n \in DOMAIN gate[t].queue : gate[t].queue[n] \in Requests
  BY DEF SlotsInv, SlotsType, Gate
<1> QED
  BY <1>1, <1>2 DEF GoodStep, WithinCap, InTurn

(* The same when only request r moves.                                     *)
LEMMA OneMoves ==
  ASSUME SlotsInv, NEW r \in Requests, NEW k, request' = [request EXCEPT ![r] = k],
         request[r].pc = "idle" \/ Nearer(k, request[r]),
         k.pc \in Holding => request[r].pc \in Holding
  PROVE  GoodStep
<1>1. \A s \in Requests : request'[s] = IF s = r THEN k ELSE request[s]
  BY DEF SlotsInv, SlotsType
<1>2. Advance
  BY <1>1 DEF Advance
<1> QED
  BY <1>1, <1>2, NoneGets

(* drainQueue gives slots to the first of the queue, as many as are free,  *)
(* if nobody else gets one in the same step.                               *)
LEMMA DrainGood ==
  ASSUME SlotsInv, NEW t \in Targets, NEW g \in Gate, NEW T, NEW j, Drain(t, g, T, j),
         g.queue = gate[t].queue,
         \A r \in Requests : request[r].pc = "queued" => j[r] = request[r],
         \A r \in Requests : j[r].pc \in Holding => request[r].pc \in Holding,
         \A r \in Requests : request[r].pc # "idle" =>
            j[r] = request[r] \/ Nearer(j[r], request[r])
  PROVE  GoodStep
<1> DEFINE q == g.queue
           k == Admitted(g)
           W == {q[m] : m \in 1..k}
<1>1. /\ q \in Seq(Requests) /\ k \in 0..Len(q) /\ QueueMatches(q, request, t)
      /\ g.running \in Nat /\ g.max \in Nat
      /\ gate \in [Targets -> Gate] /\ request \in [Requests -> Request]
  BY AdmittedBounds DEF SlotsInv, SlotsType, GateMatches, Gate
<1>2. request' = [r \in Requests |-> IF r \in W THEN Granted(j[r]) ELSE j[r]]
  <2>1. request' = [r \in Requests |->
                      IF r \in Members(SubSeq(q, 1, k)) THEN Granted(j[r]) ELSE j[r]]
    BY DEF Drain
  <2>2. Members(SubSeq(q, 1, k)) = W
    <3> HIDE DEF q, k
    <3>1. DOMAIN SubSeq(q, 1, k) = 1..k /\ \A m \in 1..k : SubSeq(q, 1, k)[m] = q[m]
      BY <1>1
    <3> DEFINE s == SubSeq(q, 1, k)
    <3>2. DOMAIN s = 1..k /\ \A m \in 1..k : s[m] = q[m]
      BY <3>1
    <3> HIDE DEF s
    <3>3. Members(s) = {q[m] : m \in 1..k}
      BY <3>2 DEF Members
    <3> QED
      BY <3>3 DEF s
  <2> QED
    BY <2>1, <2>2
<1> HIDE DEF q, k
<1>3. \A r \in W : /\ r \in Requests /\ request[r].pc = "queued" /\ request[r].target = t
                   /\ j[r] = request[r]
  BY <1>1 DEF QueueMatches, Members, WaitersIn
<1> HIDE DEF W
<1>4. \A r \in Requests : r \in W => request'[r] = Granted(request[r])
  BY <1>2, <1>3
<1>5. \A r \in Requests : r \notin W => request'[r] = j[r]
  BY <1>2
<1>6. \A r \in Requests : Gets(r) <=> r \in W
  <2>1. ASSUME NEW r \in W  PROVE r \in Requests /\ Gets(r)
    BY <1>1, <1>3, <1>4, <2>1, GrantedIs DEF Gets, Holding
  <2>2. ASSUME NEW r \in Requests, r \notin W  PROVE ~Gets(r)
    BY <1>5, <2>2 DEF Gets
  <2> QED
    BY <2>1, <2>2
<1>7. Advance
  <2>1. ASSUME NEW r \in Requests, r \in W  PROVE Nearer(request'[r], request[r])
    BY <1>1, <1>3, <1>4, <2>1, GrantedNearer
  <2>2. ASSUME NEW r \in Requests, r \notin W, request[r].pc # "idle"
        PROVE  request'[r] = request[r] \/ Nearer(request'[r], request[r])
    BY <1>5, <2>2
  <2> QED
    BY <2>1, <2>2 DEF Advance
<1>8. WithinCap
  <2> SUFFICES ASSUME NEW r \in W
               PROVE  gate'[t].running <= gate'[t].max /\ ~Limited(gate'[t])
    BY <1>3, <1>6 DEF WithinCap
  <2>1. k # 0
    BY <1>1 DEF W
  <2>2. ~Limited(g) /\ g.running + k <= g.max
    BY <1>1, <2>1 DEF k, q, Admitted
  <2>3. /\ Drained(g).running = g.running + k /\ Drained(g).max = g.max
        /\ Drained(g).limited \in {g.limited, None}
    BY DrainedIs DEF k
  <2>4. gate'[t] = Drained(g) \/ gate'[t] = NoGate
    BY <1>1 DEF Drain, Write, Kept
  <2> QED
    BY <2>2, <2>3, <2>4 DEF Limited, NoGate
<1>9. InTurn
  <2> SUFFICES ASSUME NEW u \in Targets, NEW m \in DOMAIN gate[u].queue,
                      NEW n \in DOMAIN gate[u].queue, m < n, Gets(gate[u].queue[n])
               PROVE  Gets(gate[u].queue[m])
    BY DEF InTurn
  <2>1. QueueMatches(gate[u].queue, request, u) /\ gate[u].queue \in Seq(Requests)
    BY DEF SlotsInv, SlotsType, GateMatches, Gate
  <2>2. gate[u].queue[n] \in Requests /\ gate[u].queue[n] \in W
    BY <1>6, <2>1
  <2>3. request[gate[u].queue[n]].target = u
    BY <2>1 DEF QueueMatches, Members, WaitersIn
  <2>4. u = t /\ gate[u].queue = q
    BY <1>3, <2>2, <2>3 DEF q
  <2>5. m \in 1..Len(q) /\ n \in 1..Len(q) /\ Len(q) \in Nat
    BY <1>1, <2>4
  <2>6. PICK i \in 1..k : q[n] = q[i]
    BY <2>2, <2>4 DEF W
  <2>7. n = i
    BY <1>1, <2>5, <2>6 DEF QueueMatches
  <2>8. m \in 1..k
    BY <1>1, <2>5, <2>6, <2>7
  <2>9. q[m] \in W /\ q[m] \in Requests
    BY <1>1, <2>5, <2>8 DEF W
  <2> QED
    BY <1>6, <2>4, <2>9
<1> QED
  BY <1>7, <1>8, <1>9 DEF GoodStep

LEMMA ReleaseGood ==
  ASSUME SlotsInv, NEW r \in Requests, request[r].pc \in Holding,
         NEW k, k.pc \notin Holding, Nearer(k, request[r]),
         NEW t, t = request[r].target, NEW g \in Gate, NEW T,
         g.running = gate[t].running, g.queue = gate[t].queue,
         Release(r, k, g, T)
  PROVE  GoodStep
<1> DEFINE j == [request EXCEPT ![r] = k]
           h == [g EXCEPT !.running = @ - 1]
<1>1. /\ t \in Targets /\ GateMatches(gate[t], request, t)
      /\ request \in [Requests -> Request]
  BY AtTarget DEF SlotsInv, SlotsType
<1>2. g.running \in Nat /\ g.running # 0
  <2>1. IsFiniteSet(HoldersIn(request, t))
    BY HoldersFinite
  <2>2. r \in HoldersIn(request, t)
    BY DEF HoldersIn
  <2>3. Cardinality(HoldersIn(request, t)) # 0
    BY <2>1, <2>2, FS_EmptySet
  <2>4. g.running = Cardinality(HoldersIn(request, t))
    BY <1>1 DEF GateMatches
  <2>5. g.running \in Nat
    BY DEF Gate
  <2> QED
    BY <2>3, <2>4, <2>5
<1>3. h \in Gate /\ h.queue = gate[t].queue
  <2>1. g.running - 1 \in Nat
    BY <1>2
  <2> QED
    BY <2>1 DEF Gate
<1>4. Drain(t, h, T, j)
  BY DEF Release
<1>5. \A s \in Requests : j[s] = IF s = r THEN k ELSE request[s]
  BY <1>1
<1> HIDE DEF j, h
<1>6. request[r].pc # "queued"
  BY DEF Holding
<1> QED
  BY <1>1, <1>3, <1>4, <1>5, <1>6, DrainGood

LEMMA AnswerReleaseGood ==
  ASSUME SlotsInv, NEW r \in Requests, request[r].pc \in Holding,
         NEW t, t = request[r].target, NEW g \in Gate, NEW T,
         g.running = gate[t].running, g.queue = gate[t].queue,
         Release(r, Answered, g, T)
  PROVE  GoodStep
<1>1. Answered.pc \notin Holding /\ Nearer(Answered, request[r])
  BY AtTarget, AnsweredIs, AnsweredNearer DEF Holding
<1> QED
  BY <1>1, ReleaseGood

LEMMA OnwardReleaseGood ==
  ASSUME SlotsInv, NEW r \in Requests, request[r].pc \in Holding,
         NEW t, t = request[r].target, NEW g \in Gate, NEW T,
         g.running = gate[t].running, g.queue = gate[t].queue,
         Release(r, Onward(request[r]), g, T)
  PROVE  GoodStep
<1> DEFINE k == Onward(request[r])
<1>1. k.pc \notin Holding /\ Nearer(k, request[r]) /\ Release(r, k, g, T)
  BY AtTarget, OnwardIs, OnwardNearer DEF Holding
<1> HIDE DEF k
<1> QED
  BY <1>1, ReleaseGood

LEMMA AcquireGood ==
  ASSUME SlotsInv, NEW r \in Requests, Acquire(r)
  PROVE  GoodStep
<1>1. PICK cap \in Caps : AcquireNow(r, cap) \/ AcquireLater(r, cap) \/ AcquireRefused(r, cap)
  BY DEF Acquire
<1> DEFINE t == request[r].target
           g == Entered(r, cap)
<1>2. /\ g \in Gate /\ g.max = cap /\ g.running = gate[t].running
      /\ g.queue = gate[t].queue /\ g.limited = gate[t].limited
  BY EnteredIs
<1>3. /\ request[r] \in Request /\ t \in Targets /\ request[r].pc = "next" /\ request[r].left >= 1
      /\ gate \in [Targets -> Gate] /\ request \in [Requests -> Request]
  BY <1>1, AtTarget DEF AcquireNow, AcquireLater, AcquireRefused, SlotsInv, SlotsType
<1>4. CASE AcquireRefused(r, cap)
  <2>1. request' = [request EXCEPT ![r] = Onward(request[r])]
    BY <1>4 DEF AcquireRefused
  <2>2. Nearer(Onward(request[r]), request[r]) /\ Onward(request[r]).pc \notin Holding
    BY <1>3, OnwardIs, OnwardNearer DEF Holding
  <2> QED
    BY <2>1, <2>2, OneMoves
<1>5. CASE AcquireLater(r, cap)
  <2> DEFINE k == [request[r] EXCEPT !.pc = "queued"]
  <2>1. request' = [request EXCEPT ![r] = k]
    BY <1>5 DEF AcquireLater
  <2>2. k.pc = "queued" /\ k.left = request[r].left /\ k.attempts = request[r].attempts
    BY <1>3 DEF Request
  <2>3. Stage("queued") = 2 /\ Stage("next") = 3
    BY DEF Stage
  <2>4. Nearer(k, request[r]) /\ k.pc \notin Holding
    BY <1>3, <2>2, <2>3 DEF Nearer, Holding
  <2> HIDE DEF k
  <2> QED
    BY <2>1, <2>4, OneMoves
<1>6. CASE AcquireNow(r, cap)
  <2>1. /\ g.running < g.max /\ ~Limited(g)
        /\ gate' = [gate EXCEPT ![t] = [Looked(g) EXCEPT !.running = @ + 1]]
        /\ request' = [request EXCEPT ![r] = Granted(request[r])]
    BY <1>6 DEF AcquireNow
  <2> HIDE DEF g, t
  <2>2. \A s \in Requests : request'[s] = IF s = r THEN Granted(request[r]) ELSE request[s]
    BY <1>3, <2>1
  <2>3. Advance
    BY <1>3, <2>2, GrantedNearer DEF Advance
  <2>4. \A s \in Requests : Gets(s) => s = r
    BY <2>2 DEF Gets
  <2>5. /\ gate'[t].running = g.running + 1 /\ gate'[t].max = g.max
        /\ ~Limited(gate'[t])
    BY <1>2, <1>3, <2>1 DEF Looked, Limited, Gate
  <2>6. WithinCap
    BY <1>2, <2>1, <2>4, <2>5 DEF WithinCap, Gate, t
  <2>7. \A u \in Targets : \A n \in DOMAIN gate[u].queue :
           gate[u].queue[n] \in Requests /\ gate[u].queue[n] # r
    BY <1>3 DEF SlotsInv, GateMatches, QueueMatches, Members, WaitersIn
  <2>8. InTurn
    BY <2>4, <2>7 DEF InTurn
  <2> QED
    BY <2>3, <2>6, <2>8 DEF GoodStep
<1> QED
  BY <1>1, <1>4, <1>5, <1>6

LEMMA FailGood ==
  ASSUME SlotsInv, NEW r \in Requests, Failed(r)
  PROVE  GoodStep
<1>1. PICK cool \in Cooldowns \cup {None}, again \in BOOLEAN, waits \in BOOLEAN :
         Fail(r, cool, again, waits)
  BY DEF Failed
<1> DEFINE j == request[r]
           t == j.target
           g == IF cool = None THEN gate[t] ELSE Marked(gate[t], cool)
           T == IF cool = None THEN timers[t] ELSE timers[t] \cup {cool}
           again1 == [j EXCEPT !.retry = @ + 1, !.attempts = @ + 1]
           later1 == [j EXCEPT !.pc = "wait", !.retry = 0]
<1>2. /\ j.pc = "calling"
      /\ \/ j.attempts < MaxAttempts /\ request' = [request EXCEPT ![r] = again1]
         \/ Release(r, Answered, g, T)
         \/ request' = [request EXCEPT ![r] = later1]
         \/ Release(r, Onward(j), g, T)
  BY <1>1 DEF Fail
<1>3. /\ j \in Request /\ gate[t] \in Gate /\ timers[t] \in SUBSET Nat
      /\ Reasoned(gate[t]) /\ Timed(gate[t], timers[t]) /\ j.pc \in Holding
  BY <1>2, AtTarget DEF Holding
<1>4. g \in Gate /\ g.running = gate[t].running /\ g.queue = gate[t].queue
  <2> DEFINE o == gate[t]
             S == timers[t]
  <2>1. o \in Gate /\ S \in SUBSET Nat /\ Reasoned(o) /\ Timed(o, S)
    BY <1>3
  <2>2. /\ g = (IF cool = None THEN o ELSE Marked(o, cool))
        /\ T = (IF cool = None THEN S ELSE S \cup {cool})
    OBVIOUS
  <2> HIDE DEF o, S, g, T
  <2>3. g \in Gate /\ g.running = o.running /\ g.queue = o.queue
    BY <2>1, <2>2, MarkedIs
  <2> QED
    BY <2>3 DEF o
<1> HIDE DEF g, T
<1>5. CASE j.attempts < MaxAttempts /\ request' = [request EXCEPT ![r] = again1]
  <2>1. again1.left = j.left /\ again1.attempts = j.attempts + 1 /\ j.attempts \in Nat
    BY <1>3 DEF Request
  <2>2. Nearer(again1, j)
    BY <1>5, <2>1 DEF Nearer
  <2> HIDE DEF again1
  <2> QED
    BY <1>3, <1>5, <2>2, OneMoves
<1>6. CASE request' = [request EXCEPT ![r] = later1]
  <2>1. later1.left = j.left /\ later1.attempts = j.attempts /\ later1.pc = "wait"
    BY <1>3 DEF Request
  <2>2. Stage("wait") = 0 /\ Stage("calling") = 1
    BY DEF Stage
  <2>3. Nearer(later1, j)
    BY <1>2, <2>1, <2>2 DEF Nearer
  <2> HIDE DEF later1
  <2> QED
    BY <1>3, <1>6, <2>3, OneMoves
<1>7. CASE Release(r, Answered, g, T)
  BY <1>3, <1>4, <1>7, AnswerReleaseGood
<1>8. CASE Release(r, Onward(j), g, T)
  BY <1>3, <1>4, <1>8, OnwardReleaseGood
<1> QED
  BY <1>2, <1>5, <1>6, <1>7, <1>8

LEMMA TimersGood ==
  ASSUME SlotsInv, NEW t \in Targets, TimerFires(t) \/ StrayFires(t)
  PROVE  GoodStep
<1>1. gate[t] \in Gate
  BY DEF SlotsInv, SlotsType
<1>2. ASSUME NEW g \in Gate, NEW T, g.queue = gate[t].queue, Drain(t, g, T, request)
      PROVE  GoodStep
  BY <1>2, DrainGood
<1>3. [gate[t] EXCEPT !.limited = None] \in Gate
      /\ [gate[t] EXCEPT !.limited = None].queue = gate[t].queue
  BY <1>1 DEF Gate
<1>4. CASE request' = request
  BY <1>4, NoneGets DEF Advance
<1> QED
  BY <1>1, <1>2, <1>3, <1>4 DEF TimerFires, StrayFires

LEMMA NextGood ==
  ASSUME IInv, [Next]_vars
  PROVE  GoodStep
<1>0. SlotsInv
  BY DEF IInv
<1>1. CASE request' = request
  BY <1>0, <1>1, NoneGets DEF Advance
<1>2. Tick => request' = request
  BY DEF Tick
<1>3. UNCHANGED vars => request' = request
  BY DEF vars
<1>4. ASSUME NEW r \in Requests, Start(r) PROVE GoodStep
  <2>1. PICK first : request' = [request EXCEPT ![r] = [pc |-> "next", target |-> first, left |-> N,
                                                      retry |-> 0, attempts |-> 0]]
    BY <1>4 DEF Start
  <2> QED
    BY <1>0, <1>4, <2>1, OneMoves DEF Start, Holding
<1>5. ASSUME NEW r \in Requests, Skip(r) \/ TimeOut(r) PROVE GoodStep
  <2>1. /\ request' = [request EXCEPT ![r] = Onward(request[r])]
        /\ request[r].pc \in {"next", "queued"}
    BY <1>5 DEF Skip, TimeOut
  <2>2. Nearer(Onward(request[r]), request[r]) /\ Onward(request[r]).pc \notin Holding
    BY <1>0, <2>1, AtTarget, OnwardIs, OnwardNearer DEF Holding
  <2> QED
    BY <1>0, <2>1, <2>2, OneMoves
<1>6. ASSUME NEW r \in Requests, GiveUp(r) \/ Disconnect(r) \/ Succeed(r) PROVE GoodStep
  <2>1. /\ request[r].pc \in Holding
        /\ Release(r, Answered, gate[request[r].target], timers[request[r].target])
    BY <1>6 DEF GiveUp, Disconnect, Succeed, Holding
  <2> QED
    BY <1>0, <2>1, AtTarget, AnswerReleaseGood
<1>7. ASSUME NEW r \in Requests, WaitOver(r) PROVE GoodStep
  <2>1. /\ request[r].pc \in Holding
        /\ Release(r, Onward(request[r]), gate[request[r].target], timers[request[r].target])
    BY <1>7 DEF WaitOver, Holding
  <2> QED
    BY <1>0, <2>1, AtTarget, OnwardReleaseGood
<1> QED
  BY <1>0, <1>1, <1>2, <1>3, <1>4, <1>5, <1>6, <1>7, AcquireGood, FailGood, TimersGood DEF Next

(* A cap lowered by a later caller or by a mark, a gate made anew with     *)
(* another cap, several waiters let in at once: none of it overbooks a     *)
(* target further, and no slot is given during a cooldown.                 *)
THEOREM CapKept == Spec => SlotsGivenWithinCap
<1>1. IInv /\ [Next]_vars =>
        [\A r \in Requests : Gets(r) =>
            LET g == gate'[request[r].target] IN g.running <= g.max /\ ~Limited(g)]_vars
  BY NextGood DEF GoodStep, WithinCap
<1> QED
  BY <1>1, InvAlways, PTL DEF Spec, SlotsGivenWithinCap

(* The waiters of a target get their slots in the order they came.         *)
THEOREM TurnsInLine == Spec => SlotsGivenInTurn
<1>1. IInv /\ [Next]_vars =>
        [\A t \in Targets : \A m, n \in DOMAIN gate[t].queue :
            m < n /\ Gets(gate[t].queue[n]) => Gets(gate[t].queue[m])]_vars
  BY NextGood DEF GoodStep, InTurn
<1> QED
  BY <1>1, InvAlways, PTL DEF Spec, SlotsGivenInTurn

(* Every step of a request brings it nearer to its answer, so that it ends *)
(* after finitely many, whatever the others do.                            *)
THEOREM LoopsEnd == Spec => RequestsOnlyAdvance
<1>1. IInv /\ [Next]_vars =>
        [\A r \in Requests : request[r].pc # "idle" =>
            request'[r] = request[r] \/ Nearer(request'[r], request[r])]_vars
  BY NextGood DEF GoodStep, Advance
<1> QED
  BY <1>1, InvAlways, PTL DEF Spec, RequestsOnlyAdvance
=============================================================================
