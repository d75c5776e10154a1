---------------------- MODULE AccountSemaphore_proofs ----------------------
(***************************************************************************)
(* For any number of requests, caps and cooldowns: the gate's count is the *)
(* number of requests holding a slot, no step hands out a slot beyond the  *)
(* cap, no waiter and no gate is left with nothing to move it on, waiters  *)
(* are served in order, and with one cap the gate is a fair semaphore.     *)
(***************************************************************************)
EXTENDS AccountSemaphore, FiniteSetTheorems, SequenceTheorems, TLAPS

(* What a request may be: the queue holds the waiters of a, once each. *)
QueueMatches(q, a) ==
    /\ Waiters(q) = {r \in Requests : a[r] = "queued"}
    /\ \A i, j \in DOMAIN q : q[i] = q[j] => i = j

HoldersIn(a) == {r \in Requests : a[r] = "holding"}

NoGateIsEmpty ==
    ~GateExists => running = 0 /\ queue = <<>> /\ blockedUntil = NoBlock /\ ~cleanupTimer

BlockIsTimed == blockedUntil # NoBlock => \E t \in blockTimers : t >= blockedUntil

WaitersHaveReason == queue # <<>> => running > 0 \/ blockedUntil # NoBlock

IdleHasReason ==
    GateExists /\ running = 0 /\ queue = <<>> => cleanupTimer \/ blockedUntil # NoBlock

IInv ==
    /\ TypeOK /\ QueueIsWaiters /\ SlotsMatchHolders
    /\ NoGateIsEmpty /\ BlockIsTimed /\ WaitersHaveReason /\ IdleHasReason

USE SemaphoreAssumption, FiniteRequests

LEMMA HoldersFinite ==
  ASSUME NEW a
  PROVE  IsFiniteSet(HoldersIn(a)) /\ Cardinality(HoldersIn(a)) \in Nat
<1>1. HoldersIn(a) \subseteq Requests
  BY DEF HoldersIn
<1> QED
  BY <1>1, FS_Subset, FS_CardinalityType

(* A set listed once each by 1..k has k elements. *)
LEMMA ListedOnce ==
  ASSUME NEW q \in Seq(Requests), \A i, j \in DOMAIN q : q[i] = q[j] => i = j,
         NEW k \in 0..Len(q), NEW W, W = {q[i] : i \in 1..k}
  PROVE  IsFiniteSet(W) /\ Cardinality(W) = k
<1> DEFINE f == [i \in 1..k |-> q[i]]
<1>1. f \in Bijection(1..k, W)
  BY DEF Bijection, Injection, Surjection, IsInjective
<1>2. ExistsBijection(1..k, W)
  BY <1>1 DEF ExistsBijection
<1>3. IsFiniteSet(1..k) /\ Cardinality(1..k) = k
  BY FS_Interval
<1> QED
  BY <1>2, <1>3, FS_Bijection

(* The count of holders after one more, or one fewer. *)
LEMMA OneMoreHolder ==
  ASSUME NEW a \in [Requests -> {"idle", "queued", "holding"}], NEW r \in Requests,
         a[r] # "holding"
  PROVE  Cardinality(HoldersIn([a EXCEPT ![r] = "holding"])) = Cardinality(HoldersIn(a)) + 1
<1>1. HoldersIn([a EXCEPT ![r] = "holding"]) = HoldersIn(a) \cup {r}
  BY DEF HoldersIn
<1>2. r \notin HoldersIn(a)
  BY DEF HoldersIn
<1> QED
  BY <1>1, <1>2, HoldersFinite, FS_AddElement

LEMMA OneHolderFewer ==
  ASSUME NEW a \in [Requests -> {"idle", "queued", "holding"}], NEW r \in Requests,
         a[r] = "holding"
  PROVE  Cardinality(HoldersIn([a EXCEPT ![r] = "idle"])) = Cardinality(HoldersIn(a)) - 1
<1>1. HoldersIn([a EXCEPT ![r] = "idle"]) = HoldersIn(a) \ {r}
  BY DEF HoldersIn
<1>2. r \in HoldersIn(a)
  BY DEF HoldersIn
<1> QED
  BY <1>1, <1>2, HoldersFinite, FS_RemoveElement

LEMMA AdmissibleBounds ==
  ASSUME TypeOK, NEW n \in Nat, NEW b \in Nat \cup {NoBlock}
  PROVE  /\ Admissible(n, b) \in 0..Len(queue)
         /\ Admissible(n, b) # 0 => n + Admissible(n, b) <= maxConcurrency
         /\ Admissible(n, b) # 0 => ~Blocked(b)
         /\ Admissible(n, b) # Len(queue) => Blocked(b) \/ n + Admissible(n, b) >= maxConcurrency
  BY DEF TypeOK, Admissible

(* drainQueue moves the first k waiters to the holders and keeps the rest. *)
LEMMA DrainMoves ==
  ASSUME TypeOK, NEW n \in Nat, NEW b \in Nat \cup {NoBlock},
         NEW a \in [Requests -> {"idle", "queued", "holding"}],
         QueueMatches(queue, a), Drain(a, n, b)
  PROVE  /\ at' \in [Requests -> {"idle", "queued", "holding"}]
         /\ queue' \in Seq(Requests)
         /\ QueueMatches(queue', at')
         /\ Cardinality(HoldersIn(at')) = Cardinality(HoldersIn(a)) + Admissible(n, b)
         /\ running' = n + Admissible(n, b)
         /\ Len(queue') = Len(queue) - Admissible(n, b)
<1> DEFINE k == Admissible(n, b)
           W == Waiters(SubSeq(queue, 1, k))
<1>0. queue \in Seq(Requests) /\ k \in 0..Len(queue)
  BY AdmissibleBounds DEF TypeOK
<1>1. /\ running' = n + k
      /\ queue' = SubSeq(queue, k + 1, Len(queue))
      /\ at' = [r \in Requests |-> IF r \in W THEN "holding" ELSE a[r]]
  BY DEF Drain
<1> HIDE DEF k
<1>2. /\ SubSeq(queue, 1, k) \in Seq(Requests) /\ Len(SubSeq(queue, 1, k)) = k
      /\ \A i \in 1..k : SubSeq(queue, 1, k)[i] = queue[i]
  BY <1>0
<1>3. W = {queue[i] : i \in 1..k}
  BY <1>2 DEF Waiters
<1>4. /\ queue' \in Seq(Requests) /\ Len(queue') = Len(queue) - k
      /\ \A i \in 1..(Len(queue) - k) : queue'[i] = queue[i + k]
  BY <1>0, <1>1
<1> HIDE DEF W
<1>5. IsFiniteSet(W) /\ Cardinality(W) = k
  BY <1>0, <1>3, ListedOnce DEF QueueMatches
<1>6. \A r \in W : r \in Requests /\ a[r] = "queued"
  BY <1>0, <1>3 DEF QueueMatches, Waiters
<1>7. HoldersIn(at') = HoldersIn(a) \cup W /\ HoldersIn(a) \cap W = {}
  BY <1>1, <1>6 DEF HoldersIn
<1>8. Cardinality(HoldersIn(at')) = Cardinality(HoldersIn(a)) + k
  <2>1. IsFiniteSet(HoldersIn(a)) /\ Cardinality(HoldersIn(a)) \in Nat
    BY HoldersFinite
  <2>2. Cardinality(HoldersIn(a) \cup W)
          = Cardinality(HoldersIn(a)) + Cardinality(W) - Cardinality(HoldersIn(a) \cap W)
    BY <2>1, <1>5, FS_Union
  <2>3. Cardinality(HoldersIn(a) \cap W) = 0
    BY <1>7, FS_EmptySet
  <2> QED
    BY <2>1, <2>2, <2>3, <1>5, <1>7, <1>0
<1>9. QueueMatches(queue', at')
  <2>1. \A i, j \in DOMAIN queue' : queue'[i] = queue'[j] => i = j
    <3> SUFFICES ASSUME NEW i \in DOMAIN queue', NEW j \in DOMAIN queue',
                        queue'[i] = queue'[j]
                 PROVE  i = j
      OBVIOUS
    <3>1. /\ i \in 1..(Len(queue) - k) /\ j \in 1..(Len(queue) - k)
          /\ i + k \in DOMAIN queue /\ j + k \in DOMAIN queue
      BY <1>0, <1>4
    <3>2. queue[i + k] = queue[j + k]
      BY <3>1, <1>4
    <3>3. i + k = j + k
      BY <3>1, <3>2 DEF QueueMatches
    <3> QED
      BY <3>1, <3>3, <1>0
  <2>2. ASSUME NEW r \in Requests, r \in Waiters(queue')
        PROVE  at'[r] = "queued"
    <3>1. PICK i \in 1..(Len(queue) - k) : r = queue[i + k]
      BY <2>2, <1>4 DEF Waiters
    <3>2. r \notin W /\ r \in Waiters(queue)
      BY <1>0, <1>3, <3>1 DEF QueueMatches, Waiters
    <3> QED
      BY <3>2, <1>1 DEF QueueMatches
  <2>3. ASSUME NEW r \in Requests, at'[r] = "queued"
        PROVE  r \in Waiters(queue')
    <3>1. r \notin W /\ r \in Waiters(queue)
      BY <2>3, <1>1 DEF QueueMatches
    <3>2. PICK i \in 1..Len(queue) : r = queue[i]
      BY <3>1, <1>0 DEF Waiters
    <3>3. i > k
      BY <3>1, <3>2, <1>3, <1>0
    <3>4. i - k \in 1..(Len(queue) - k) /\ queue'[i - k] = r
      BY <3>2, <3>3, <1>4, <1>0
    <3> QED
      BY <3>4, <1>4 DEF Waiters
  <2>4. Waiters(queue') \subseteq Requests
    BY <1>4 DEF Waiters
  <2> QED
    BY <2>1, <2>2, <2>3, <2>4 DEF QueueMatches
<1> QED
  BY <1>1, <1>4, <1>8, <1>9 DEF k

LEMMA InvUnfolds ==
  /\ QueueIsWaiters <=> QueueMatches(queue, at)
  /\ SlotsMatchHolders <=> /\ running <= Cardinality(HoldersIn(at))
                           /\ ~Resets => running = Cardinality(HoldersIn(at))
  BY DEF QueueIsWaiters, QueueMatches, SlotsMatchHolders, HoldersIn, Holders

LEMMA InvUnfoldsNext ==
  /\ QueueIsWaiters' <=> QueueMatches(queue', at')
  /\ SlotsMatchHolders' <=> /\ running' <= Cardinality(HoldersIn(at'))
                            /\ ~Resets => running' = Cardinality(HoldersIn(at'))
  BY DEF QueueIsWaiters, QueueMatches, SlotsMatchHolders, HoldersIn, Holders, Waiters

(* Every caller of drainQueue keeps the invariant if its own change does. *)
LEMMA DrainKeepsInv ==
  ASSUME TypeOK, GateExists, UNCHANGED maxConcurrency,
         NEW n \in Nat, NEW b \in Nat \cup {NoBlock},
         NEW a \in [Requests -> {"idle", "queued", "holding"}],
         QueueMatches(queue, a), Drain(a, n, b),
         n <= Cardinality(HoldersIn(a)), ~Resets => n = Cardinality(HoldersIn(a)),
         blockTimers' \subseteq Nat,
         b # NoBlock => \E t \in blockTimers' : t >= b
  PROVE  IInv'
<1> DEFINE k == Admissible(n, b)
<1>1. /\ at' \in [Requests -> {"idle", "queued", "holding"}]
      /\ queue' \in Seq(Requests)
      /\ QueueMatches(queue', at')
      /\ Cardinality(HoldersIn(at')) = Cardinality(HoldersIn(a)) + k
      /\ running' = n + k
      /\ Len(queue') = Len(queue) - k
  BY DrainMoves
<1>2. /\ k \in 0..Len(queue)
      /\ k # Len(queue) => Blocked(b) \/ n + k >= maxConcurrency
  BY AdmissibleBounds
<1>3. /\ blockedUntil' = IF queue # <<>> /\ n < maxConcurrency THEN Looked(b) ELSE b
      /\ cleanupTimer' = (cleanupTimer \/ (n + k = 0 /\ k = Len(queue)))
  BY DEF Drain
<1> HIDE DEF k
<1>4. Cardinality(HoldersIn(a)) \in Nat /\ Len(queue) \in Nat /\ maxConcurrency \in Nat \ {0}
  BY HoldersFinite DEF TypeOK, GateExists
<1>5. TypeOK'
  BY <1>1, <1>2, <1>3, <1>4 DEF TypeOK, Looked
<1>6. QueueIsWaiters' /\ SlotsMatchHolders'
  BY <1>1, <1>2, <1>4, InvUnfoldsNext
<1>7. NoGateIsEmpty'
  BY <1>4 DEF NoGateIsEmpty, GateExists
<1>8. BlockIsTimed'
  BY <1>3 DEF BlockIsTimed, Looked
<1>9. WaitersHaveReason'
  <2>1. ASSUME queue' # <<>> PROVE running' > 0 \/ blockedUntil' # NoBlock
    <3>1. k # Len(queue)
      BY <2>1, <1>1, <1>2, <1>4
    <3>2. CASE Blocked(b)
      BY <3>2, <1>3 DEF Blocked, Looked
    <3>3. CASE n + k >= maxConcurrency
      BY <3>3, <1>1, <1>2, <1>4
    <3> QED
      BY <3>1, <3>2, <3>3, <1>2
  <2> QED
    BY <2>1 DEF WaitersHaveReason
<1>10. IdleHasReason'
  <2>1. ASSUME running' = 0, queue' = <<>> PROVE cleanupTimer'
    <3>1. n + k = 0 /\ k = Len(queue)
      BY <2>1, <1>1, <1>2, <1>4
    <3> QED
      BY <3>1, <1>3
  <2> QED
    BY <2>1 DEF IdleHasReason
<1> QED
  BY <1>5, <1>6, <1>7, <1>8, <1>9, <1>10 DEF IInv

LEMMA InitHolds == Init => IInv
<1> SUFFICES ASSUME Init PROVE IInv
  OBVIOUS
<1>1. HoldersIn(at) = {} /\ Cardinality(HoldersIn(at)) = 0
  BY FS_EmptySet DEF Init, HoldersIn
<1>2. TypeOK
  <2>1. at \in [Requests -> {"idle", "queued", "holding"}]
    BY DEF Init
  <2>2. queue \in Seq(Requests) /\ blockTimers \subseteq Nat
    BY DEF Init
  <2>3. running \in Nat /\ maxConcurrency \in Nat /\ blockedUntil \in Nat \cup {NoBlock}
    BY DEF Init
  <2> QED
    BY <2>1, <2>2, <2>3 DEF Init, TypeOK
<1>5. NoGateIsEmpty /\ BlockIsTimed /\ WaitersHaveReason /\ IdleHasReason
  BY DEF Init, NoGateIsEmpty, BlockIsTimed, WaitersHaveReason, IdleHasReason, GateExists
<1>3. QueueMatches(queue, at)
  BY DEF Init, QueueMatches, Waiters
<1>4. running = 0
  BY DEF Init
<1> QED
  BY <1>1, <1>2, <1>3, <1>4, <1>5, InvUnfolds DEF IInv

LEMMA AcquireNowKeeps ==
  ASSUME IInv, NEW r \in Requests, NEW cap \in Caps, AcquireNow(r, cap)
  PROVE  IInv'
<1> USE DEF AcquireNow, EnsureGate
<1>1. TypeOK'
  <2>1. at' \in [Requests -> {"idle", "queued", "holding"}]
    BY DEF IInv, TypeOK
  <2>2. maxConcurrency' = cap /\ running' = running + 1 /\ cleanupTimer' = FALSE
        /\ running \in Nat /\ cap \in Nat
    BY DEF IInv, TypeOK
  <2>3. blockedUntil' \in Nat \cup {NoBlock}
    BY DEF IInv, TypeOK, Looked
  <2>4. queue' \in Seq(Requests) /\ blockTimers' \subseteq Nat /\ running' \in Nat
    BY <2>2 DEF IInv, TypeOK
  <2> HIDE DEF AcquireNow, EnsureGate
  <2> QED
    BY <2>1, <2>2, <2>3, <2>4 DEF TypeOK
<1>2. QueueMatches(queue', at')
  <2>1. \A s \in Requests : at'[s] = "queued" <=> at[s] = "queued"
    BY DEF IInv, TypeOK
  <2> QED
    BY <2>1, InvUnfolds DEF IInv, QueueMatches
<1>3. Cardinality(HoldersIn(at')) = Cardinality(HoldersIn(at)) + 1
  BY OneMoreHolder DEF IInv, TypeOK
<1>4. QueueIsWaiters' /\ SlotsMatchHolders'
  BY <1>2, <1>3, HoldersFinite, InvUnfolds, InvUnfoldsNext DEF IInv, TypeOK
<1>5. NoGateIsEmpty' /\ BlockIsTimed' /\ WaitersHaveReason' /\ IdleHasReason'
  BY DEF IInv, TypeOK, NoGateIsEmpty, BlockIsTimed, WaitersHaveReason, IdleHasReason,
         GateExists, Looked, Blocked
<1> QED
  BY <1>1, <1>4, <1>5 DEF IInv

LEMMA AcquireLaterKeeps ==
  ASSUME IInv, NEW r \in Requests, NEW cap \in Caps, AcquireLater(r, cap)
  PROVE  IInv'
<1> USE DEF AcquireLater, EnsureGate
<1>1. TypeOK'
  <2>1. at' \in [Requests -> {"idle", "queued", "holding"}]
    BY DEF IInv, TypeOK
  <2>2. queue' \in Seq(Requests)
    BY DEF IInv, TypeOK
  <2>3. maxConcurrency' \in Nat /\ cleanupTimer' \in BOOLEAN
    BY DEF IInv, TypeOK
  <2> QED
    BY <2>1, <2>2, <2>3 DEF IInv, TypeOK
<1>2. QueueMatches(queue', at')
  <2>0. QueueMatches(queue, at) /\ queue \in Seq(Requests) /\ at[r] = "idle"
    BY InvUnfolds DEF IInv, TypeOK
  <2>1. /\ Len(queue') = Len(queue) + 1 /\ queue'[Len(queue) + 1] = r
        /\ \A i \in 1..Len(queue) : queue'[i] = queue[i]
        /\ DOMAIN queue' = 1..(Len(queue) + 1)
    BY <2>0
  <2>2. \A i \in 1..Len(queue) : queue[i] # r
    BY <2>0 DEF QueueMatches, Waiters
  <2>3. Waiters(queue') = Waiters(queue) \cup {r}
    BY <2>0, <2>1 DEF Waiters
  <2>4. {s \in Requests : at'[s] = "queued"} = {s \in Requests : at[s] = "queued"} \cup {r}
    BY DEF IInv, TypeOK
  <2> QED
    BY <2>0, <2>1, <2>2, <2>3, <2>4 DEF QueueMatches
<1>3. HoldersIn(at') = HoldersIn(at)
  BY DEF HoldersIn, IInv, TypeOK
<1>4. QueueIsWaiters' /\ SlotsMatchHolders'
  BY <1>2, <1>3, InvUnfolds, InvUnfoldsNext DEF IInv
<1>5. NoGateIsEmpty' /\ BlockIsTimed' /\ WaitersHaveReason' /\ IdleHasReason'
  BY DEF IInv, TypeOK, NoGateIsEmpty, BlockIsTimed, WaitersHaveReason, IdleHasReason,
         GateExists, Blocked
<1> QED
  BY <1>1, <1>4, <1>5 DEF IInv

LEMMA AcquireRefusedKeeps ==
  ASSUME IInv, NEW r \in Requests, NEW cap \in Caps, AcquireRefused(r, cap)
  PROVE  IInv'
<1> USE DEF AcquireRefused, EnsureGate
<1>1. TypeOK'
  BY DEF IInv, TypeOK
<1>2. QueueIsWaiters' /\ SlotsMatchHolders'
  BY InvUnfolds, InvUnfoldsNext DEF IInv
<1>3. NoGateIsEmpty' /\ BlockIsTimed' /\ WaitersHaveReason' /\ IdleHasReason'
  BY DEF IInv, TypeOK, NoGateIsEmpty, BlockIsTimed, WaitersHaveReason, IdleHasReason,
         GateExists, Blocked
<1> QED
  BY <1>1, <1>2, <1>3 DEF IInv

LEMMA ReleaseKeeps ==
  ASSUME IInv, NEW r \in Requests, Release(r)
  PROVE  IInv'
<1> DEFINE a == [at EXCEPT ![r] = "idle"]
<1>1. /\ a \in [Requests -> {"idle", "queued", "holding"}]
      /\ Cardinality(HoldersIn(a)) = Cardinality(HoldersIn(at)) - 1
      /\ QueueMatches(queue, a)
  <2>1. at[r] = "holding" /\ at \in [Requests -> {"idle", "queued", "holding"}]
    BY DEF Release, IInv, TypeOK
  <2>2. \A s \in Requests : a[s] = "queued" <=> at[s] = "queued"
    BY <2>1
  <2> QED
    BY <2>1, <2>2, OneHolderFewer, InvUnfolds DEF IInv, QueueMatches
<1>2. SlotsLeft \in Nat /\ SlotsLeft <= Cardinality(HoldersIn(a))
      /\ (~Resets => SlotsLeft = Cardinality(HoldersIn(a)))
  <2>1. Cardinality(HoldersIn(a)) \in Nat /\ Cardinality(HoldersIn(at)) \in Nat /\ running \in Nat
    BY HoldersFinite DEF IInv, TypeOK
  <2> QED
    BY <1>1, <2>1, InvUnfolds DEF IInv, SlotsLeft
<1>3. UNCHANGED <<maxConcurrency, blockTimers>>
  BY DEF Release
<1> HIDE DEF a
<1>4. CASE ~GateExists /\ at' = a /\ UNCHANGED <<running, queue, blockedUntil, cleanupTimer>>
  <2>1. TypeOK' /\ NoGateIsEmpty' /\ BlockIsTimed' /\ WaitersHaveReason' /\ IdleHasReason'
    BY <1>1, <1>3, <1>4 DEF IInv, TypeOK, NoGateIsEmpty, BlockIsTimed, WaitersHaveReason,
                            IdleHasReason, GateExists
  <2>2. running = 0
    BY <1>4 DEF IInv, NoGateIsEmpty
  <2>3. QueueIsWaiters' /\ SlotsMatchHolders'
    BY <1>1, <1>2, <1>4, <2>2, HoldersFinite, InvUnfolds, InvUnfoldsNext DEF SlotsLeft
  <2> QED
    BY <2>1, <2>3 DEF IInv
<1>5. CASE GateExists /\ Drain(a, SlotsLeft, blockedUntil)
  <2>1. TypeOK /\ blockedUntil \in Nat \cup {NoBlock} /\ blockTimers' \subseteq Nat
    BY <1>3 DEF IInv, TypeOK
  <2>2. blockedUntil # NoBlock => \E t \in blockTimers' : t >= blockedUntil
    BY <1>3 DEF IInv, BlockIsTimed
  <2> QED
    BY <1>1, <1>2, <1>3, <1>5, <2>1, <2>2, DrainKeepsInv
<1>6. CASE /\ GateExists /\ queue = <<>> /\ at' = a /\ running' = SlotsLeft
           /\ cleanupTimer' = TRUE /\ UNCHANGED <<queue, blockedUntil>>
  <2>1. TypeOK' /\ NoGateIsEmpty' /\ BlockIsTimed' /\ WaitersHaveReason' /\ IdleHasReason'
    BY <1>1, <1>2, <1>3, <1>6 DEF IInv, TypeOK, NoGateIsEmpty, BlockIsTimed, WaitersHaveReason,
                                  IdleHasReason, GateExists
  <2>2. QueueIsWaiters' /\ SlotsMatchHolders'
    BY <1>1, <1>2, <1>6, InvUnfoldsNext
  <2> QED
    BY <2>1, <2>2 DEF IInv
<1> QED
  BY <1>4, <1>5, <1>6 DEF Release, a

(* The splice takes exactly r out of the queue. *)
LEMMA WithoutDrops ==
  ASSUME TypeOK, NEW r \in Requests, at[r] = "queued", QueueMatches(queue, at)
  PROVE  /\ Without(r) \in Seq(Requests)
         /\ QueueMatches(Without(r), [at EXCEPT ![r] = "idle"])
<1> DEFINE p == CHOOSE i \in DOMAIN queue : queue[i] = r
           q == Without(r)
           a == [at EXCEPT ![r] = "idle"]
<1>1. queue \in Seq(Requests) /\ Len(queue) \in Nat /\ DOMAIN queue = 1..Len(queue)
  BY DEF TypeOK
<1>2. \E i \in DOMAIN queue : queue[i] = r
  BY DEF QueueMatches, Waiters
<1>3. p \in 1..Len(queue) /\ queue[p] = r
  BY <1>1, <1>2
<1>4. q = [i \in 1..(Len(queue) - 1) |-> IF i < p THEN queue[i] ELSE queue[i + 1]]
  BY DEF Without
<1> HIDE DEF p, q
<1>5. /\ q \in Seq(Requests) /\ Len(q) = Len(queue) - 1 /\ DOMAIN q = 1..(Len(queue) - 1)
      /\ \A i \in 1..(Len(queue) - 1) : q[i] = IF i < p THEN queue[i] ELSE queue[i + 1]
  <2>1. \A i \in 1..(Len(queue) - 1) : (IF i < p THEN queue[i] ELSE queue[i + 1]) \in Requests
    BY <1>1
  <2>2. Len(queue) - 1 \in Nat
    BY <1>1, <1>3
  <2> QED
    BY <1>4, <2>1, <2>2
<1>6. \A i, j \in DOMAIN q : q[i] = q[j] => i = j
  <2> SUFFICES ASSUME NEW i \in 1..(Len(queue) - 1), NEW j \in 1..(Len(queue) - 1), q[i] = q[j]
               PROVE  i = j
    BY <1>5
  <2> DEFINE m(x) == IF x < p THEN x ELSE x + 1
  <2>1. m(i) \in DOMAIN queue /\ m(j) \in DOMAIN queue
    BY <1>1
  <2>2. queue[m(i)] = queue[m(j)]
    BY <1>5
  <2>3. m(i) = m(j)
    <3> HIDE DEF m
    <3> QED
      BY <2>1, <2>2 DEF QueueMatches
  <2> QED
    BY <2>3, <1>3
<1>7. ASSUME NEW s \in Requests, s \in Waiters(q)
      PROVE  a[s] = "queued"
  <2>1. PICK i \in 1..(Len(queue) - 1) : s = q[i]
    BY <1>5, <1>7 DEF Waiters
  <2>2. PICK j \in DOMAIN queue : s = queue[j] /\ j # p
    <3>1. CASE i < p
      BY <3>1, <2>1, <1>5, <1>1
    <3>2. CASE ~(i < p)
      <4>1. i + 1 \in DOMAIN queue /\ i + 1 # p /\ s = queue[i + 1]
        BY <3>2, <2>1, <1>5, <1>1, <1>3
      <4> QED
        BY <4>1
    <3> QED
      BY <3>1, <3>2
  <2>3. s # r /\ at[s] = "queued"
    BY <2>2, <1>1, <1>3 DEF QueueMatches, Waiters
  <2> QED
    BY <2>3 DEF TypeOK
<1>8. ASSUME NEW s \in Requests, a[s] = "queued"
      PROVE  s \in Waiters(q)
  <2>1. s # r /\ at[s] = "queued"
    BY <1>8 DEF TypeOK
  <2>2. PICK j \in 1..Len(queue) : s = queue[j]
    BY <2>1, <1>1 DEF QueueMatches, Waiters
  <2>3. j # p
    BY <2>1, <2>2, <1>3
  <2>4. CASE j < p
    <3>1. j \in 1..(Len(queue) - 1) /\ q[j] = s
      BY <2>4, <2>2, <1>5, <1>1, <1>3
    <3> QED
      BY <3>1, <1>5 DEF Waiters
  <2>5. CASE j > p
    <3>1. j - 1 \in 1..(Len(queue) - 1) /\ ~(j - 1 < p) /\ (j - 1) + 1 = j
      BY <2>5, <2>2, <1>1, <1>3
    <3>2. q[j - 1] = s
      BY <3>1, <1>5, <2>2
    <3> QED
      BY <3>1, <3>2, <1>5 DEF Waiters
  <2> QED
    BY <2>3, <2>4, <2>5, <1>3, <1>1
<1>9. Waiters(q) \subseteq Requests
  BY <1>5 DEF Waiters
<1>10. QueueMatches(q, a)
  <2> HIDE DEF a
  <2> QED
    BY <1>6, <1>7, <1>8, <1>9 DEF QueueMatches
<1> QED
  BY <1>5, <1>10 DEF q

LEMMA LeaveQueueKeeps ==
  ASSUME IInv, NEW r \in Requests, LeaveQueue(r)
  PROVE  IInv'
<1>1. /\ at[r] = "queued" /\ at' = [at EXCEPT ![r] = "idle"] /\ queue' = Without(r)
      /\ cleanupTimer' = (cleanupTimer \/ (running = 0 /\ queue' = <<>>))
      /\ UNCHANGED <<running, maxConcurrency, blockedUntil, blockTimers>>
  BY DEF LeaveQueue
<1>2. TypeOK /\ QueueMatches(queue, at)
  BY InvUnfolds DEF IInv
<1>3. queue' \in Seq(Requests) /\ QueueMatches(queue', at')
  BY <1>1, <1>2, WithoutDrops
<1>4. HoldersIn(at') = HoldersIn(at)
  BY <1>1, <1>2 DEF HoldersIn, TypeOK
<1>5. QueueIsWaiters' /\ SlotsMatchHolders'
  BY <1>1, <1>3, <1>4, InvUnfolds, InvUnfoldsNext DEF IInv
<1>6. at' \in [Requests -> {"idle", "queued", "holding"}]
  BY <1>1, <1>2 DEF TypeOK
<1>7. TypeOK'
  BY <1>1, <1>2, <1>3, <1>6 DEF TypeOK
<1>8. queue # <<>>
  BY <1>1, <1>2 DEF QueueMatches, Waiters
<1>9. NoGateIsEmpty' /\ BlockIsTimed' /\ WaitersHaveReason' /\ IdleHasReason'
  BY <1>1, <1>8 DEF IInv, NoGateIsEmpty, BlockIsTimed, WaitersHaveReason, IdleHasReason, GateExists
<1> QED
  BY <1>5, <1>7, <1>9 DEF IInv

LEMMA MarkBlockedKeeps ==
  ASSUME IInv, NEW d \in Cooldowns, MarkBlocked(d)
  PROVE  IInv'
<1> USE DEF MarkBlocked
<1>1. TypeOK'
  <2>1. d \in Nat /\ d + 1 \in Nat
    OBVIOUS
  <2>2. blockedUntil' \in Nat /\ blockTimers' \subseteq Nat
    BY <2>1 DEF IInv, TypeOK
  <2>3. maxConcurrency' \in Nat
    BY DEF IInv, TypeOK
  <2> QED
    BY <2>2, <2>3 DEF IInv, TypeOK
<1>2. QueueIsWaiters' /\ SlotsMatchHolders'
  BY InvUnfolds, InvUnfoldsNext DEF IInv
<1>3. NoGateIsEmpty' /\ BlockIsTimed' /\ WaitersHaveReason' /\ IdleHasReason'
  BY DEF IInv, TypeOK, NoGateIsEmpty, BlockIsTimed, WaitersHaveReason, IdleHasReason, GateExists
<1> QED
  BY <1>1, <1>2, <1>3 DEF IInv

LEMMA DrainNowKeeps ==
  ASSUME IInv, GateExists, UNCHANGED maxConcurrency, blockTimers' \subseteq Nat,
         Drain(at, running, NoBlock)
  PROVE  IInv'
<1>1. /\ TypeOK /\ at \in [Requests -> {"idle", "queued", "holding"}] /\ running \in Nat
      /\ QueueMatches(queue, at) /\ running <= Cardinality(HoldersIn(at))
      /\ ~Resets => running = Cardinality(HoldersIn(at))
  BY InvUnfolds DEF IInv, TypeOK
<1> QED
  BY <1>1, DrainKeepsInv

LEMMA BlockTimerFiresKeeps ==
  ASSUME IInv, BlockTimerFires
  PROVE  IInv'
<1>1. /\ 0 \in blockTimers /\ blockTimers' = blockTimers \ {0} /\ UNCHANGED maxConcurrency
      /\ blockTimers' \subseteq Nat
  BY DEF BlockTimerFires, IInv, TypeOK
<1>2. CASE DeadlinePassed /\ Drain(at, running, NoBlock)
  <2>1. GateExists
    BY <1>2 DEF DeadlinePassed, IInv, NoGateIsEmpty
  <2> QED
    BY <1>1, <1>2, <2>1, DrainNowKeeps
<1>3. CASE ~DeadlinePassed /\ UNCHANGED <<at, running, queue, blockedUntil, cleanupTimer>>
  <2>1. TypeOK'
    BY <1>1, <1>3 DEF IInv, TypeOK
  <2>2. QueueIsWaiters' /\ SlotsMatchHolders'
    BY <1>3, InvUnfolds, InvUnfoldsNext DEF IInv
  <2>3. BlockIsTimed'
    BY <1>1, <1>3 DEF IInv, TypeOK, BlockIsTimed, DeadlinePassed
  <2>4. NoGateIsEmpty' /\ WaitersHaveReason' /\ IdleHasReason'
    BY <1>1, <1>3 DEF IInv, NoGateIsEmpty, WaitersHaveReason, IdleHasReason, GateExists
  <2> QED
    BY <2>1, <2>2, <2>3, <2>4 DEF IInv
<1> QED
  BY <1>2, <1>3 DEF BlockTimerFires

LEMMA CleanupTimerFiresKeeps ==
  ASSUME IInv, CleanupTimerFires
  PROVE  IInv'
<1> USE DEF CleanupTimerFires
<1>1. TypeOK'
  BY DEF IInv, TypeOK
<1>2. QueueIsWaiters' /\ SlotsMatchHolders'
  BY InvUnfolds, InvUnfoldsNext DEF IInv
<1>3. NoGateIsEmpty' /\ BlockIsTimed' /\ WaitersHaveReason' /\ IdleHasReason'
  BY DEF IInv, TypeOK, NoGateIsEmpty, BlockIsTimed, WaitersHaveReason, IdleHasReason, GateExists,
         Blocked
<1> QED
  BY <1>1, <1>2, <1>3 DEF IInv

LEMMA ResetKeeps ==
  ASSUME IInv, Reset
  PROVE  IInv'
<1>1. /\ at' = [r \in Requests |-> IF r \in Waiters(queue) THEN "idle" ELSE at[r]]
      /\ running' = 0 /\ maxConcurrency' = 0 /\ queue' = <<>> /\ blockedUntil' = NoBlock
      /\ cleanupTimer' = FALSE /\ UNCHANGED blockTimers /\ Resets
  BY DEF Reset
<1>2. at' \in [Requests -> {"idle", "queued", "holding"}]
  BY <1>1 DEF IInv, TypeOK
<1>3. TypeOK'
  <2>1. queue' \in Seq(Requests) /\ running' \in Nat /\ maxConcurrency' \in Nat
    BY <1>1
  <2> QED
    BY <1>1, <1>2, <2>1 DEF IInv, TypeOK
<1>4. QueueMatches(queue', at')
  BY <1>1, InvUnfolds DEF IInv, TypeOK, QueueMatches, Waiters
<1>5. QueueIsWaiters' /\ SlotsMatchHolders'
  BY <1>1, <1>4, HoldersFinite, InvUnfoldsNext
<1>6. NoGateIsEmpty' /\ BlockIsTimed' /\ WaitersHaveReason' /\ IdleHasReason'
  BY <1>1 DEF NoGateIsEmpty, BlockIsTimed, WaitersHaveReason, IdleHasReason, GateExists
<1> QED
  BY <1>3, <1>5, <1>6 DEF IInv

LEMMA TickKeeps ==
  ASSUME IInv, Tick
  PROVE  IInv'
<1> USE DEF Tick
<1>1. TypeOK'
  <2>1. blockedUntil' \in Nat \cup {NoBlock}
    BY DEF IInv, TypeOK, Blocked
  <2>2. blockTimers' \subseteq Nat
    <3>1. \A t \in blockTimers : t - 1 \in Nat
      BY DEF IInv, TypeOK
    <3> QED
      BY <3>1
  <2> QED
    BY <2>1, <2>2 DEF IInv, TypeOK
<1>2. QueueIsWaiters' /\ SlotsMatchHolders'
  BY InvUnfolds, InvUnfoldsNext DEF IInv
<1>3. BlockIsTimed'
  <2>1. ASSUME blockedUntil' # NoBlock PROVE \E t \in blockTimers' : t >= blockedUntil'
    <3>1. blockedUntil \in Nat /\ blockTimers \subseteq Nat
      BY <2>1 DEF IInv, TypeOK, Blocked
    <3>2. PICK t \in blockTimers : t >= blockedUntil
      BY <3>1 DEF IInv, BlockIsTimed
    <3>3. t - 1 \in blockTimers' /\ t \in Nat /\ t # 0
      BY <3>1, <3>2
    <3>4. t - 1 >= blockedUntil'
      BY <3>1, <3>2, <3>3 DEF Blocked
    <3> QED
      BY <3>3, <3>4
  <2> QED
    BY <2>1 DEF BlockIsTimed
<1>4. NoGateIsEmpty' /\ WaitersHaveReason' /\ IdleHasReason'
  BY DEF IInv, TypeOK, NoGateIsEmpty, WaitersHaveReason, IdleHasReason, GateExists, Blocked
<1> QED
  BY <1>1, <1>2, <1>3, <1>4 DEF IInv

LEMMA InvStep == IInv /\ [Next]_vars => IInv'
<1> SUFFICES ASSUME IInv, [Next]_vars PROVE IInv'
  OBVIOUS
<1>1. CASE UNCHANGED vars
  BY <1>1, InvUnfolds, InvUnfoldsNext
     DEF vars, IInv, TypeOK, NoGateIsEmpty, BlockIsTimed, WaitersHaveReason, IdleHasReason, GateExists
<1>2. ASSUME NEW r \in Requests, Acquire(r) PROVE IInv'
  BY <1>2, AcquireNowKeeps, AcquireLaterKeeps, AcquireRefusedKeeps DEF Acquire
<1>3. ASSUME NEW r \in Requests, Release(r) PROVE IInv'
  BY <1>3, ReleaseKeeps
<1>4. ASSUME NEW r \in Requests, Timeout(r) \/ Abort(r) PROVE IInv'
  BY <1>4, LeaveQueueKeeps DEF Timeout, Abort
<1>5. ASSUME NEW d \in Cooldowns, MarkBlocked(d) PROVE IInv'
  BY <1>5, MarkBlockedKeeps
<1>6. CASE Unblock
  BY <1>6, DrainNowKeeps DEF Unblock, IInv, TypeOK
<1> QED
  BY <1>1, <1>2, <1>3, <1>4, <1>5, <1>6, BlockTimerFiresKeeps, CleanupTimerFiresKeeps,
     ResetKeeps, TickKeeps DEF Next

LEMMA InvAlways == Spec => []IInv
  BY InitHolds, InvStep, PTL DEF Spec

(* The gate, its queue and its timers keep their types. *)
THEOREM TypeCorrect == Spec => []TypeOK
<1>1. IInv => TypeOK
  BY DEF IInv
<1> QED
  BY <1>1, InvAlways, PTL

(* The queue holds exactly the waiting requests, once each. *)
THEOREM QueueCorrect == Spec => []QueueIsWaiters
<1>1. IInv => QueueIsWaiters
  BY DEF IInv
<1> QED
  BY <1>1, InvAlways, PTL

(* The count of running requests is the number of requests holding a slot. *)
THEOREM SlotsCorrect == Spec => []SlotsMatchHolders
<1>1. IInv => SlotsMatchHolders
  BY DEF IInv
<1> QED
  BY <1>1, InvAlways, PTL

(* No waiter is left at a gate that nothing will open. *)
THEOREM NobodyStranded == Spec => []NoStrandedWaiter
<1>1. IInv => NoStrandedWaiter
  BY DEF IInv, WaitersHaveReason, BlockIsTimed, NoStrandedWaiter
<1> QED
  BY <1>1, InvAlways, PTL

(* No unused gate is left with nothing to delete it. *)
THEOREM GatesForgotten == Spec => []IdleGateIsForgotten
<1>1. IInv => IdleGateIsForgotten
  BY DEF IInv, IdleHasReason, BlockIsTimed, IdleGateIsForgotten
<1> QED
  BY <1>1, InvAlways, PTL

(* A drain that lets somebody in fills the gate to its cap at most, counts *)
(* everyone it lets in, and no block is on.                                *)
LEMMA DrainGrants ==
  ASSUME TypeOK, UNCHANGED maxConcurrency, NEW n \in Nat, NEW b \in Nat \cup {NoBlock},
         NEW a \in [Requests -> {"idle", "queued", "holding"}],
         QueueMatches(queue, a), Drain(a, n, b),
         NEW r \in Requests, a[r] # "holding", at'[r] = "holding"
  PROVE  /\ running' <= maxConcurrency'
         /\ ~Blocked(b)
         /\ Cardinality(HoldersIn(at')) - running' = Cardinality(HoldersIn(a)) - n
<1> DEFINE k == Admissible(n, b)
<1>1. k # 0
  <2>1. SUFFICES ASSUME k = 0 PROVE FALSE
    OBVIOUS
  <2>2. SubSeq(queue, 1, 0) \in Seq(Requests) /\ Len(SubSeq(queue, 1, 0)) = 0
    BY DEF TypeOK
  <2>3. Waiters(SubSeq(queue, 1, 0)) = {}
    BY <2>2 DEF Waiters
  <2> QED
    BY <2>1, <2>3 DEF Drain
<1>2. /\ k \in 0..Len(queue) /\ n + k <= maxConcurrency /\ ~Blocked(b)
  BY <1>1, AdmissibleBounds
<1>3. /\ Cardinality(HoldersIn(at')) = Cardinality(HoldersIn(a)) + k
      /\ running' = n + k
  BY DrainMoves
<1>4. Cardinality(HoldersIn(a)) \in Nat /\ Len(queue) \in Nat
  BY HoldersFinite DEF TypeOK
<1> HIDE DEF k
<1> QED
  BY <1>2, <1>3, <1>4

(* What a step that gives r a slot is: an acquire under the cap at a gate  *)
(* that is not blocked, or a drain of one.                                 *)
LEMMA GrantStep ==
  ASSUME IInv, Next, NEW r \in Requests, Granted(r)
  PROVE  /\ running' <= maxConcurrency'
         /\ Uncounted' <= Uncounted
         /\ Blocked(blockedUntil) => Unblock
<1>1. /\ TypeOK /\ QueueMatches(queue, at) /\ running \in Nat /\ maxConcurrency \in Nat
      /\ at \in [Requests -> {"idle", "queued", "holding"}]
      /\ blockedUntil \in Nat \cup {NoBlock}
      /\ running <= Cardinality(HoldersIn(at))
  BY InvUnfolds DEF IInv, TypeOK
<1>2. /\ Cardinality(HoldersIn(at)) \in Nat
      /\ Uncounted = Cardinality(HoldersIn(at)) - running
      /\ Uncounted' = Cardinality(HoldersIn(at')) - running'
  BY HoldersFinite DEF Uncounted, Holders, HoldersIn
<1>3. at[r] # "holding" /\ at'[r] = "holding"
  BY DEF Granted
<1>4. ASSUME NEW s \in Requests, Acquire(s)
      PROVE  running' <= maxConcurrency' /\ Uncounted' <= Uncounted /\ ~Blocked(blockedUntil)
  <2>1. PICK cap \in Caps : AcquireNow(s, cap) \/ AcquireLater(s, cap) \/ AcquireRefused(s, cap)
    BY <1>4 DEF Acquire
  <2>2. AcquireNow(s, cap)
    BY <1>1, <1>3, <2>1 DEF AcquireLater, AcquireRefused
  <2>3. /\ at[s] # "holding" /\ at' = [at EXCEPT ![s] = "holding"]
        /\ running < cap /\ running' = running + 1 /\ maxConcurrency' = cap /\ cap \in Nat
        /\ ~Blocked(blockedUntil)
    BY <2>2 DEF AcquireNow, EnsureGate
  <2>4. Cardinality(HoldersIn(at')) = Cardinality(HoldersIn(at)) + 1
    BY <1>1, <2>3, OneMoreHolder
  <2> QED
    BY <1>1, <1>2, <2>3, <2>4
<1>5. ASSUME NEW s \in Requests, Release(s)
      PROVE  running' <= maxConcurrency' /\ Uncounted' <= Uncounted /\ ~Blocked(blockedUntil)
  <2> DEFINE a == [at EXCEPT ![s] = "idle"]
  <2>1. at[s] = "holding" /\ UNCHANGED maxConcurrency
    BY <1>5 DEF Release
  <2>2. /\ a \in [Requests -> {"idle", "queued", "holding"}]
        /\ Cardinality(HoldersIn(a)) = Cardinality(HoldersIn(at)) - 1
        /\ \A q \in Requests : a[q] = "queued" <=> at[q] = "queued"
        /\ a[r] # "holding"
    BY <1>1, <1>3, <2>1, OneHolderFewer
  <2>3. QueueMatches(queue, a)
    BY <1>1, <2>2 DEF QueueMatches
  <2>4. at' # a
    BY <1>3, <2>2
  <2>5. Drain(a, SlotsLeft, blockedUntil)
    BY <1>5, <2>4 DEF Release
  <2>6. SlotsLeft \in Nat /\ SlotsLeft >= running - 1
    BY <1>1 DEF SlotsLeft
  <2> HIDE DEF a
  <2>7. /\ running' <= maxConcurrency' /\ ~Blocked(blockedUntil)
        /\ Cardinality(HoldersIn(at')) - running' = Cardinality(HoldersIn(a)) - SlotsLeft
    BY <1>1, <1>3, <2>1, <2>2, <2>3, <2>5, <2>6, DrainGrants
  <2>8. Cardinality(HoldersIn(at)) - 1 - SlotsLeft <= Cardinality(HoldersIn(at)) - running
    BY <1>1, <1>2, <2>6
  <2> QED
    BY <1>2, <2>2, <2>7, <2>8
<1>6. ASSUME Drain(at, running, NoBlock), UNCHANGED maxConcurrency
      PROVE  running' <= maxConcurrency' /\ Uncounted' <= Uncounted
  <2>1. /\ running' <= maxConcurrency'
        /\ Cardinality(HoldersIn(at')) - running' = Cardinality(HoldersIn(at)) - running
    BY <1>1, <1>3, <1>6, DrainGrants
  <2> QED
    BY <1>1, <1>2, <2>1
<1>7. CASE Unblock
  BY <1>6, <1>7 DEF Unblock
<1>8. CASE BlockTimerFires
  <2>1. DeadlinePassed /\ Drain(at, running, NoBlock) /\ UNCHANGED maxConcurrency
    BY <1>3, <1>8 DEF BlockTimerFires
  <2> QED
    BY <1>6, <2>1 DEF DeadlinePassed, Blocked
<1>9. ASSUME \/ \E s \in Requests : Timeout(s) \/ Abort(s)
             \/ \E d \in Cooldowns : MarkBlocked(d)
             \/ CleanupTimerFires \/ Reset \/ Tick
      PROVE  FALSE
  BY <1>1, <1>3, <1>9 DEF Timeout, Abort, LeaveQueue, MarkBlocked, CleanupTimerFires, Reset, Tick
<1> QED
  BY <1>4, <1>5, <1>7, <1>8, <1>9 DEF Next

(* Whoever gets a slot, at once or handed on by a release, the gate counts *)
(* it and counts no more than the cap in force, whichever caps callers     *)
(* pass and whatever was reset.                                            *)
THEOREM CapHeld == Spec => GrantsWithinCap
<1>1. IInv /\ [Next]_vars =>
        [\A r \in Requests : Granted(r) =>
            running' <= maxConcurrency' /\ Uncounted' <= Uncounted]_vars
  BY GrantStep
<1> QED
  BY <1>1, InvAlways, PTL DEF Spec, GrantsWithinCap

(* Without reset() the requests that hold a slot, and not only those the   *)
(* gate counts, are within the cap in force whenever one more gets one.    *)
THEOREM HoldersWithinCap ==
  Spec /\ ~Resets =>
    [][\A r \in Requests : Granted(r) => Cardinality(Holders') <= maxConcurrency']_vars
<1>1. ASSUME IInv, IInv', ~Resets, [Next]_vars
      PROVE  [\A r \in Requests : Granted(r) => Cardinality(Holders') <= maxConcurrency']_vars
  <2>1. running' = Cardinality(Holders')
    BY <1>1 DEF IInv, SlotsMatchHolders
  <2> QED
    BY <1>1, <2>1, GrantStep
<1>2. CASE Resets
  BY <1>2
<1>3. CASE ~Resets
  BY <1>1, <1>3, InvAlways, PTL DEF Spec
<1> QED
  BY <1>2, <1>3

(* While a block is on, only markBlocked without a cooldown lets anybody   *)
(* in: no acquire, and no release that could hand its slot on.             *)
THEOREM BlockHeld == Spec => BlockHolds
<1>1. IInv /\ [Next]_vars =>
        [(\E r \in Requests : Granted(r)) /\ Blocked(blockedUntil) => Unblock]_vars
  BY GrantStep
<1> QED
  BY <1>1, InvAlways, PTL DEF Spec, BlockHolds

-----------------------------------------------------------------------------
(***************************************************************************)
(* The gate as a fair semaphore: one cap, no blocks and no resets.         *)
(***************************************************************************)
OneCapNoBlocks == Caps = {TheCap} /\ Cooldowns = {} /\ ~Resets

NeverBlocked == blockedUntil = NoBlock /\ blockTimers = {}

(* Nobody waits while a slot is free. *)
QueueMeansFull ==
    /\ maxConcurrency \in {0, TheCap} /\ running <= TheCap
    /\ queue # <<>> => running = TheCap /\ maxConcurrency = TheCap

FairInv == IInv /\ NeverBlocked /\ QueueMeansFull

LEMMA CapIs ==
  ASSUME OneCapNoBlocks
  PROVE  TheCap \in Nat \ {0} /\ \A cap \in Caps : cap = TheCap
BY DEF OneCapNoBlocks

(* The counts the abstract semaphore looks at. *)
LEMMA SlotsAre ==
  ASSUME OneCapNoBlocks, FairInv
  PROVE  /\ running = Cardinality(Holders) /\ running \in 0..TheCap
         /\ at \in [Requests -> {"idle", "queued", "holding"}] /\ queue \in Seq(Requests)
         /\ \A r \in Requests : at[r] = "queued" <=> Fair!Waiting(r)
         /\ \A r \in Requests : at[r] = "holding" <=> r \in Holders
         /\ \A i, j \in DOMAIN queue : queue[i] = queue[j] => i = j
         /\ maxConcurrency \in Nat
<1>1. \A r \in Requests : at[r] = "queued" <=> r \in Waiters(queue)
  BY DEF FairInv, IInv, QueueIsWaiters
<1>2. \A r \in Requests : r \in Waiters(queue) <=> Fair!Waiting(r)
  BY DEF Waiters, Fair!Waiting
<1>3. running = Cardinality(Holders) /\ running \in 0..TheCap /\ maxConcurrency \in Nat
  BY CapIs DEF FairInv, QueueMeansFull, IInv, TypeOK, SlotsMatchHolders, OneCapNoBlocks
<1> QED
  BY <1>1, <1>2, <1>3 DEF FairInv, IInv, TypeOK, QueueIsWaiters, Holders

(* What drainQueue does at a gate with waiters and one free slot, or with none. *)
LEMMA DrainOne ==
  ASSUME OneCapNoBlocks, FairInv, queue # <<>>, NEW a, Drain(a, TheCap - 1, NoBlock)
  PROVE  /\ queue' = Tail(queue) /\ running' = TheCap /\ blockedUntil' = NoBlock
         /\ at' = [r \in Requests |-> IF r = Head(queue) THEN "holding" ELSE a[r]]
<1>1. queue \in Seq(Requests) /\ Len(queue) \in Nat /\ Len(queue) >= 1 /\ TheCap \in Nat \ {0}
      /\ maxConcurrency = TheCap
  BY CapIs DEF FairInv, IInv, TypeOK, QueueMeansFull
<1>2. Admissible(TheCap - 1, NoBlock) = 1
  BY <1>1 DEF Admissible, Blocked
<1>3. SubSeq(queue, 1 + 1, Len(queue)) = Tail(queue)
  BY <1>1
<1>4. Waiters(SubSeq(queue, 1, 1)) = {Head(queue)}
  <2>1. SubSeq(queue, 1, 1) \in Seq(Requests) /\ Len(SubSeq(queue, 1, 1)) = 1
        /\ SubSeq(queue, 1, 1)[1] = queue[1] /\ Head(queue) = queue[1]
    BY <1>1
  <2> QED
    BY <2>1 DEF Waiters
<1>5. (TheCap - 1) + 1 = TheCap
  BY <1>1
<1> QED
  BY <1>2, <1>3, <1>4, <1>5 DEF Drain, Looked

LEMMA DrainNothing ==
  ASSUME OneCapNoBlocks, FairInv, Drain(at, running, NoBlock)
  PROVE  UNCHANGED <<at, running, queue, blockedUntil>>
<1>1. /\ queue \in Seq(Requests) /\ Len(queue) \in Nat /\ TheCap \in Nat \ {0}
      /\ running \in Nat /\ maxConcurrency \in Nat
      /\ at \in [Requests -> {"idle", "queued", "holding"}]
      /\ queue # <<>> => running = TheCap /\ maxConcurrency = TheCap
      /\ blockedUntil = NoBlock
  BY CapIs DEF FairInv, IInv, TypeOK, QueueMeansFull, NeverBlocked
<1>2. Admissible(running, NoBlock) = 0
  <2>1. CASE queue = <<>>
    BY <1>1, <2>1 DEF Admissible, Blocked
  <2>2. CASE queue # <<>>
    BY <1>1, <2>2 DEF Admissible, Blocked
  <2> QED
    BY <2>1, <2>2
<1>3. SubSeq(queue, 0 + 1, Len(queue)) = queue
  BY <1>1
<1>4. Waiters(SubSeq(queue, 1, 0)) = {}
  BY <1>1 DEF Waiters
<1>5. at' = [r \in Requests |-> IF r \in {} THEN "holding" ELSE at[r]]
  BY <1>2, <1>4 DEF Drain
<1>6. at' = at
  BY <1>1, <1>5
<1> QED
  BY <1>1, <1>2, <1>3, <1>6 DEF Drain, Looked

LEMMA FairInit ==
  ASSUME OneCapNoBlocks, Init
  PROVE  NeverBlocked /\ QueueMeansFull /\ Fair!Init
<1>1. Holders = {}
  BY DEF Init, Holders
<1> QED
  BY <1>1, CapIs DEF Init, NeverBlocked, QueueMeansFull, Fair!Init

(* The abstract module counts with its own instance of FiniteSets. *)
LEMMA SameCount == Fair!Cardinality(Holders) = Cardinality(Holders)
  BY DEF Cardinality, Fair!Cardinality

(* A slot is given at once only when nobody waits. *)
LEMMA AcquireNowAdmits ==
  ASSUME OneCapNoBlocks, FairInv, NEW r \in Requests, NEW cap \in Caps, AcquireNow(r, cap)
  PROVE  /\ Fair!Admit(r)
         /\ NeverBlocked' /\ QueueMeansFull'
<1>1. cap = TheCap /\ TheCap \in Nat \ {0}
  BY CapIs
<1>2. /\ at[r] = "idle" /\ running < TheCap /\ running' = running + 1 /\ maxConcurrency' = TheCap
      /\ at' = [at EXCEPT ![r] = "holding"] /\ UNCHANGED <<queue, blockTimers>>
      /\ blockedUntil' = Looked(blockedUntil)
  BY <1>1 DEF AcquireNow, EnsureGate
<1>3. queue = <<>>
  BY <1>1, <1>2, SlotsAre DEF FairInv, QueueMeansFull
<1>4. Holders' = Holders \cup {r}
  BY <1>2, SlotsAre DEF Holders
<1>5. NeverBlocked' /\ QueueMeansFull'
  BY <1>1, <1>2, <1>3, SlotsAre DEF FairInv, NeverBlocked, QueueMeansFull, Looked
<1>6. r \notin Holders /\ ~Fair!Waiting(r) /\ Cardinality(Holders) < TheCap
  BY <1>2, SlotsAre
<1> QED
  BY <1>2, <1>3, <1>4, <1>5, <1>6, SameCount DEF Fair!Admit

(* A request waits only when every slot is taken. *)
LEMMA AcquireLaterWaits ==
  ASSUME OneCapNoBlocks, FairInv, NEW r \in Requests, NEW cap \in Caps, AcquireLater(r, cap)
  PROVE  /\ Fair!Wait(r)
         /\ NeverBlocked' /\ QueueMeansFull'
<1>1. cap = TheCap /\ TheCap \in Nat \ {0}
  BY CapIs
<1>2. /\ at[r] = "idle" /\ running >= TheCap /\ running' = running /\ maxConcurrency' = TheCap
      /\ at' = [at EXCEPT ![r] = "queued"] /\ UNCHANGED <<blockedUntil, blockTimers>>
      /\ queue' = Append(queue, r)
  BY <1>1 DEF AcquireLater, EnsureGate, FairInv, NeverBlocked, Blocked
<1>3. running = TheCap
  BY <1>1, <1>2, SlotsAre
<1>4. Holders' = Holders
  BY <1>2, SlotsAre DEF Holders
<1>5. NeverBlocked' /\ QueueMeansFull'
  BY <1>1, <1>2, <1>3 DEF FairInv, NeverBlocked, QueueMeansFull
<1>6. r \notin Holders /\ ~Fair!Waiting(r) /\ Cardinality(Holders) = TheCap
  BY <1>2, <1>3, SlotsAre
<1> QED
  BY <1>2, <1>4, <1>5, <1>6, SameCount DEF Fair!Wait

(* A freed slot goes straight to the first waiter. *)
LEMMA ReleasePasses ==
  ASSUME OneCapNoBlocks, FairInv, NEW r \in Requests, Release(r)
  PROVE  /\ Fair!Release(r)
         /\ NeverBlocked' /\ QueueMeansFull'
<1> DEFINE a == [at EXCEPT ![r] = "idle"]
<1>1. /\ at[r] = "holding" /\ r \in Holders /\ UNCHANGED <<maxConcurrency, blockTimers>>
      /\ blockedUntil = NoBlock /\ blockTimers = {}
  BY SlotsAre DEF Release, FairInv, NeverBlocked
<1>2. running > 0 /\ GateExists
  <2>1. IsFiniteSet(Holders) /\ Holders # {}
    BY <1>1, HoldersFinite DEF Holders, HoldersIn
  <2>2. Cardinality(Holders) # 0
    BY <2>1, FS_EmptySet
  <2>3. running \in Nat /\ running # 0
    BY <2>2, SlotsAre
  <2> QED
    BY <2>3 DEF FairInv, IInv, NoGateIsEmpty
<1>3. SlotsLeft = running - 1
  BY <1>2 DEF SlotsLeft
<1>4. CASE queue = <<>>
  <2>1. at' = a /\ running' = running - 1 /\ UNCHANGED <<queue, blockedUntil>>
    BY <1>2, <1>3, <1>4 DEF Release
  <2>2. Holders' = Holders \ {r}
    BY <2>1, SlotsAre DEF Holders
  <2>3. NeverBlocked' /\ QueueMeansFull'
    BY <1>1, <1>2, <1>4, <2>1, SlotsAre, CapIs DEF FairInv, NeverBlocked, QueueMeansFull
  <2> QED
    BY <1>1, <1>4, <2>1, <2>2, <2>3 DEF Fair!Release
<1>5. CASE queue # <<>>
  <2>1. running = TheCap /\ maxConcurrency = TheCap
    BY <1>5 DEF FairInv, QueueMeansFull
  <2>2. Drain(a, TheCap - 1, NoBlock)
    BY <1>1, <1>2, <1>3, <1>5, <2>1 DEF Release
  <2>3. /\ queue' = Tail(queue) /\ running' = TheCap /\ blockedUntil' = NoBlock
        /\ at' = [s \in Requests |-> IF s = Head(queue) THEN "holding" ELSE a[s]]
    BY <1>5, <2>2, DrainOne
  <2>4. Head(queue) \in Requests /\ at[Head(queue)] = "queued"
    <3>1. Head(queue) = queue[1] /\ 1 \in DOMAIN queue /\ Head(queue) \in Requests
      BY <1>5, SlotsAre
    <3> QED
      BY <3>1, SlotsAre DEF Fair!Waiting
  <2>5. Holders' = (Holders \ {r}) \cup {Head(queue)}
    BY <1>1, <2>3, <2>4, SlotsAre DEF Holders
  <2>6. NeverBlocked' /\ QueueMeansFull'
    BY <1>1, <2>1, <2>3, CapIs DEF NeverBlocked, QueueMeansFull
  <2> QED
    BY <1>1, <1>5, <2>3, <2>5, <2>6 DEF Fair!Release
<1> QED
  BY <1>4, <1>5

(* A timeout or an abort takes out the one place its request has. *)
LEMMA LeaveGivesUp ==
  ASSUME OneCapNoBlocks, FairInv, NEW r \in Requests, LeaveQueue(r)
  PROVE  /\ Fair!GiveUp(r)
         /\ NeverBlocked' /\ QueueMeansFull'
<1> DEFINE p == CHOOSE i \in DOMAIN queue : queue[i] = r
<1>1. /\ at[r] = "queued" /\ at' = [at EXCEPT ![r] = "idle"] /\ queue' = Without(r)
      /\ UNCHANGED <<running, maxConcurrency, blockedUntil, blockTimers>>
  BY DEF LeaveQueue
<1>2. \E i \in DOMAIN queue : queue[i] = r
  BY <1>1, SlotsAre DEF Fair!Waiting
<1>3. p \in DOMAIN queue /\ queue[p] = r
  BY <1>2
<1>4. Without(r) = [i \in 1..(Len(queue) - 1) |-> IF i < p THEN queue[i] ELSE queue[i + 1]]
  BY DEF Without
<1> HIDE DEF p
<1>5. queue \in Seq(Requests) /\ Len(queue) \in Nat /\ p \in 1..Len(queue)
  BY <1>3, SlotsAre
<1>6. Without(r) = SubSeq(queue, 1, p - 1) \o SubSeq(queue, p + 1, Len(queue))
  <2> DEFINE s == SubSeq(queue, 1, p - 1)
             t == SubSeq(queue, p + 1, Len(queue))
  <2>1. /\ s \in Seq(Requests) /\ Len(s) = p - 1
        /\ \A i \in 1..(p - 1) : s[i] = queue[i]
    BY <1>5
  <2>2. /\ t \in Seq(Requests) /\ Len(t) = Len(queue) - p
        /\ \A i \in 1..(Len(queue) - p) : t[i] = queue[i + p]
    BY <1>5
  <2> HIDE DEF s, t
  <2>3. /\ s \o t \in Seq(Requests) /\ Len(s \o t) = Len(queue) - 1
        /\ \A i \in 1..(Len(queue) - 1) : (s \o t)[i] = IF i < p THEN s[i] ELSE t[i - (p - 1)]
    <3>1. /\ s \o t \in Seq(Requests) /\ Len(s \o t) = Len(s) + Len(t)
          /\ \A i \in 1..(Len(s) + Len(t)) :
                (s \o t)[i] = IF i <= Len(s) THEN s[i] ELSE t[i - Len(s)]
      BY <2>1, <2>2, ConcatProperties
    <3>2. Len(s) + Len(t) = Len(queue) - 1 /\ \A i \in Nat : i <= Len(s) <=> i < p
      BY <1>5, <2>1, <2>2
    <3> QED
      BY <3>1, <3>2, <2>1
  <2>4. ASSUME NEW i \in 1..(Len(queue) - 1)
        PROVE  (s \o t)[i] = IF i < p THEN queue[i] ELSE queue[i + 1]
    <3>1. CASE i < p
      BY <3>1, <1>5, <2>1, <2>3
    <3>2. CASE ~(i < p)
      <4>1. i - (p - 1) \in 1..(Len(queue) - p) /\ (i - (p - 1)) + p = i + 1
        BY <3>2, <1>5
      <4> QED
        BY <3>2, <4>1, <2>2, <2>3
    <3> QED
      BY <3>1, <3>2
  <2>5. /\ Without(r) \in Seq(Requests) /\ Len(Without(r)) = Len(queue) - 1
        /\ \A i \in 1..(Len(queue) - 1) : Without(r)[i] = IF i < p THEN queue[i] ELSE queue[i + 1]
    <3>1. Without(r) \in Seq(Requests)
      BY <1>1, WithoutDrops, InvUnfolds DEF FairInv, IInv
    <3>2. Len(queue) - 1 \in Nat
      BY <1>5
    <3> QED
      BY <3>1, <3>2, <1>4
  <2>6. s \o t = Without(r)
    BY <2>3, <2>4, <2>5, SeqEqual
  <2> QED
    BY <2>6 DEF s, t
<1>7. Holders' = Holders
  BY <1>1, SlotsAre DEF Holders
<1>8. Fair!GiveUp(r)
  BY <1>1, <1>3, <1>6, <1>7 DEF Fair!GiveUp, Fair!Without
<1>9. queue # <<>>
  BY <1>2
<1> QED
  BY <1>1, <1>8, <1>9 DEF FairInv, NeverBlocked, QueueMeansFull

(* The other steps are the gate's own housekeeping, or cannot happen. *)
LEMMA OthersStutter ==
  ASSUME OneCapNoBlocks, FairInv,
         \/ UNCHANGED vars
         \/ \E r \in Requests, cap \in Caps : AcquireRefused(r, cap)
         \/ \E d \in Cooldowns : MarkBlocked(d)
         \/ Unblock \/ BlockTimerFires \/ CleanupTimerFires \/ Reset \/ Tick
  PROVE  /\ UNCHANGED Fair!vars
         /\ NeverBlocked' /\ QueueMeansFull'
<1> SUFFICES /\ UNCHANGED <<at, queue>>
             /\ NeverBlocked' /\ QueueMeansFull'
  BY DEF Fair!vars, Holders
<1> USE DEF FairInv, NeverBlocked
<1>1. CASE UNCHANGED vars
  BY <1>1 DEF vars, QueueMeansFull
<1>2. ASSUME NEW r \in Requests, NEW cap \in Caps, AcquireRefused(r, cap)
      PROVE  UNCHANGED <<at, queue>> /\ NeverBlocked' /\ QueueMeansFull'
  BY <1>2, CapIs DEF AcquireRefused, EnsureGate, QueueMeansFull
<1>3. CASE Unblock
  BY <1>3, DrainNothing DEF Unblock, QueueMeansFull
<1>4. CASE CleanupTimerFires
  BY <1>4, CapIs DEF CleanupTimerFires, QueueMeansFull
<1> QED
  BY <1>1, <1>2, <1>3, <1>4 DEF OneCapNoBlocks, BlockTimerFires, Reset, Tick, Blocked

LEMMA FairStep ==
  ASSUME OneCapNoBlocks, FairInv, [Next]_vars
  PROVE  NeverBlocked' /\ QueueMeansFull' /\ [Fair!Next]_(Fair!vars)
<1>1. ASSUME NEW r \in Requests, NEW cap \in Caps, AcquireNow(r, cap) \/ AcquireLater(r, cap)
      PROVE  NeverBlocked' /\ QueueMeansFull' /\ Fair!Next
  BY <1>1, AcquireNowAdmits, AcquireLaterWaits DEF Fair!Next
<1>2. ASSUME NEW r \in Requests, Release(r)
      PROVE  NeverBlocked' /\ QueueMeansFull' /\ Fair!Next
  BY <1>2, ReleasePasses DEF Fair!Next
<1>3. ASSUME NEW r \in Requests, LeaveQueue(r)
      PROVE  NeverBlocked' /\ QueueMeansFull' /\ Fair!Next
  BY <1>3, LeaveGivesUp DEF Fair!Next
<1> QED
  BY <1>1, <1>2, <1>3, OthersStutter DEF Next, Acquire, Timeout, Abort

(* With one cap, no blocks and no resets, every step of the gate is a step of the *)
(* fair semaphore or its own housekeeping.                                        *)
THEOREM FairSemaphoreImplemented ==
  ASSUME OneCapNoBlocks
  PROVE  Spec => Fair!Spec
<1>1. Init => NeverBlocked /\ QueueMeansFull /\ Fair!Init
  BY FairInit
<1>2. FairInv /\ [Next]_vars => NeverBlocked' /\ QueueMeansFull' /\ [Fair!Next]_(Fair!vars)
  BY FairStep
<1> QED
  BY <1>1, <1>2, InvAlways, PTL DEF Spec, Fair!Spec, FairInv

-----------------------------------------------------------------------------
(* One step of SlotsInOrder. *)
InOrder ==
    \A i, j \in DOMAIN queue : i < j =>
       /\ at'[queue[j]] = "holding" => at'[queue[i]] = "holding"
       /\ at'[queue[i]] = "queued" /\ at'[queue[j]] = "queued" =>
             \E m, n \in DOMAIN queue' :
                m < n /\ queue'[m] = queue[i] /\ queue'[n] = queue[j]

(* The drain takes a prefix of the queue. *)
LEMMA DrainInOrder ==
  ASSUME IInv, NEW n \in Nat, NEW b \in Nat \cup {NoBlock}, NEW a, Drain(a, n, b),
         \A i \in DOMAIN queue : a[queue[i]] = "queued"
  PROVE  InOrder
<1> DEFINE k == Admissible(n, b)
           W == Waiters(SubSeq(queue, 1, k))
<1>1. /\ queue \in Seq(Requests) /\ Len(queue) \in Nat /\ k \in 0..Len(queue)
      /\ \A i, j \in DOMAIN queue : queue[i] = queue[j] => i = j
  <2>1. TypeOK /\ k \in 0..Len(queue)
    BY AdmissibleBounds DEF IInv
  <2> QED
    BY <2>1 DEF TypeOK, IInv, QueueIsWaiters
<1>2. /\ queue' = SubSeq(queue, k + 1, Len(queue))
      /\ at' = [r \in Requests |-> IF r \in W THEN "holding" ELSE a[r]]
  BY DEF Drain
<1> HIDE DEF k
<1>3. W = {queue[i] : i \in 1..k}
  <2>1. /\ Len(SubSeq(queue, 1, k)) = k /\ SubSeq(queue, 1, k) \in Seq(Requests)
        /\ \A i \in 1..k : SubSeq(queue, 1, k)[i] = queue[i]
    BY <1>1
  <2> QED
    BY <2>1 DEF Waiters
<1>4. /\ DOMAIN queue' = 1..(Len(queue) - k)
      /\ \A i \in 1..(Len(queue) - k) : queue'[i] = queue[i + k]
  BY <1>1, <1>2
<1> HIDE DEF W
<1>5. \A i \in DOMAIN queue : i \in 1..Len(queue) /\ queue[i] \in Requests
  BY <1>1
<1>6. ASSUME NEW i \in DOMAIN queue
      PROVE  at'[queue[i]] = IF i <= k THEN "holding" ELSE "queued"
  <2>1. queue[i] \in W <=> i <= k
    BY <1>1, <1>3, <1>5
  <2> QED
    BY <2>1, <1>2, <1>5
<1> SUFFICES ASSUME NEW i \in DOMAIN queue, NEW j \in DOMAIN queue, i < j
             PROVE  /\ at'[queue[j]] = "holding" => at'[queue[i]] = "holding"
                    /\ at'[queue[i]] = "queued" /\ at'[queue[j]] = "queued" =>
                          \E m, l \in DOMAIN queue' :
                             m < l /\ queue'[m] = queue[i] /\ queue'[l] = queue[j]
  BY DEF InOrder
<1>7. i \in 1..Len(queue) /\ j \in 1..Len(queue) /\ k \in Nat /\ Len(queue) \in Nat
  BY <1>1
<1>8. ASSUME i > k, j > k
      PROVE  \E m, l \in DOMAIN queue' :
                m < l /\ queue'[m] = queue[i] /\ queue'[l] = queue[j]
  <2>1. i - k \in 1..(Len(queue) - k) /\ j - k \in 1..(Len(queue) - k) /\ i - k < j - k
    BY <1>7, <1>8
  <2>2. queue'[i - k] = queue[i] /\ queue'[j - k] = queue[j]
    BY <1>4, <1>7, <2>1
  <2> QED
    BY <1>4, <2>1, <2>2
<1> QED
  BY <1>6, <1>7, <1>8

(* Who leaves the queue closes it up behind. *)
LEMMA LeaveInOrder ==
  ASSUME IInv, NEW r \in Requests, LeaveQueue(r)
  PROVE  InOrder
<1> DEFINE p == CHOOSE i \in DOMAIN queue : queue[i] = r
<1>1. /\ queue \in Seq(Requests) /\ Len(queue) \in Nat /\ DOMAIN queue = 1..Len(queue)
      /\ at \in [Requests -> {"idle", "queued", "holding"}] /\ at[r] = "queued"
      /\ at' = [at EXCEPT ![r] = "idle"] /\ queue' = Without(r)
      /\ \A i \in DOMAIN queue : queue[i] \in Requests /\ at[queue[i]] = "queued"
      /\ r \in Waiters(queue)
  BY DEF IInv, TypeOK, QueueIsWaiters, LeaveQueue, Waiters
<1>2. p \in 1..Len(queue) /\ queue[p] = r
  BY <1>1 DEF Waiters
<1>3. queue' = [i \in 1..(Len(queue) - 1) |-> IF i < p THEN queue[i] ELSE queue[i + 1]]
  BY <1>1 DEF Without
<1> HIDE DEF p
<1> SUFFICES ASSUME NEW i \in DOMAIN queue, NEW j \in DOMAIN queue, i < j,
                    at'[queue[i]] = "queued", at'[queue[j]] = "queued"
             PROVE  \E m, l \in DOMAIN queue' :
                       m < l /\ queue'[m] = queue[i] /\ queue'[l] = queue[j]
  BY <1>1 DEF InOrder
<1> DEFINE place(x) == IF x < p THEN x ELSE x - 1
<1>4. i # p /\ j # p
  BY <1>1, <1>2
<1>5. /\ place(i) \in 1..(Len(queue) - 1) /\ place(j) \in 1..(Len(queue) - 1)
      /\ place(i) < place(j)
  BY <1>1, <1>2, <1>4
<1>6. ASSUME NEW x \in 1..Len(queue), x # p
      PROVE  place(x) \in 1..(Len(queue) - 1) /\ queue'[place(x)] = queue[x]
  BY <1>1, <1>2, <1>3, <1>6
<1>7. DOMAIN queue' = 1..(Len(queue) - 1)
  BY <1>3
<1> HIDE DEF place
<1> QED
  BY <1>1, <1>4, <1>5, <1>6, <1>7

LEMMA OrderStep ==
  ASSUME IInv, [Next]_vars
  PROVE  InOrder
<1>1. /\ queue \in Seq(Requests) /\ at \in [Requests -> {"idle", "queued", "holding"}]
      /\ \A i \in DOMAIN queue : queue[i] \in Requests /\ at[queue[i]] = "queued"
      /\ running \in Nat /\ NoBlock \in Nat \cup {NoBlock} /\ blockedUntil \in Nat \cup {NoBlock}
  BY DEF IInv, TypeOK, QueueIsWaiters, Waiters
<1>2. ASSUME UNCHANGED queue, \A i \in DOMAIN queue : at'[queue[i]] = "queued"
      PROVE  InOrder
  BY <1>1, <1>2 DEF InOrder
<1>3. CASE UNCHANGED vars
  BY <1>1, <1>2, <1>3 DEF vars
<1>4. ASSUME NEW r \in Requests, NEW cap \in Caps, AcquireNow(r, cap) \/ AcquireRefused(r, cap)
      PROVE  InOrder
  BY <1>1, <1>2, <1>4 DEF AcquireNow, AcquireRefused
<1>5. ASSUME NEW r \in Requests, NEW cap \in Caps, AcquireLater(r, cap)
      PROVE  InOrder
  <2>1. /\ queue' = Append(queue, r) /\ \A i \in DOMAIN queue : at'[queue[i]] = "queued"
    BY <1>1, <1>5 DEF AcquireLater
  <2>2. \A i \in DOMAIN queue : i \in DOMAIN queue' /\ queue'[i] = queue[i]
    BY <1>1, <2>1
  <2> QED
    BY <2>1, <2>2 DEF InOrder
<1>6. ASSUME NEW r \in Requests, Release(r)
      PROVE  InOrder
  <2> DEFINE a == [at EXCEPT ![r] = "idle"]
  <2>1. at[r] = "holding" /\ \A i \in DOMAIN queue : a[queue[i]] = "queued"
    BY <1>1, <1>6 DEF Release
  <2>2. CASE Drain(a, SlotsLeft, blockedUntil)
    <3>1. SlotsLeft \in Nat
      BY <1>1 DEF SlotsLeft
    <3> HIDE DEF a
    <3> QED
      BY <1>1, <2>1, <2>2, <3>1, DrainInOrder
  <2>3. CASE at' = a /\ UNCHANGED queue
    BY <1>2, <2>1, <2>3
  <2> QED
    BY <1>6, <2>2, <2>3 DEF Release
<1>7. CASE Unblock
  BY <1>1, <1>7, DrainInOrder DEF Unblock
<1>8. CASE BlockTimerFires
  BY <1>1, <1>2, <1>8, DrainInOrder DEF BlockTimerFires
<1>9. CASE \/ \E d \in Cooldowns : MarkBlocked(d)
           \/ CleanupTimerFires \/ Tick
  BY <1>1, <1>2, <1>9 DEF MarkBlocked, CleanupTimerFires, Tick
<1>10. CASE Reset
  <2>1. \A i \in DOMAIN queue : at'[queue[i]] = "idle"
    BY <1>1, <1>10 DEF Reset, Waiters
  <2> QED
    BY <2>1 DEF InOrder
<1> QED
  BY <1>3, <1>4, <1>5, <1>6, <1>7, <1>8, <1>9, <1>10, LeaveInOrder
     DEF Next, Acquire, Timeout, Abort

(* Waiters are served in the order they came, whatever the caps, blocks and resets. *)
THEOREM OrderKept == Spec => SlotsInOrder
<1>1. IInv /\ [Next]_vars => [InOrder]_vars
  BY OrderStep
<1> QED
  BY <1>1, InvAlways, PTL DEF Spec, SlotsInOrder, InOrder
=============================================================================
