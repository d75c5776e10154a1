-------------------------- MODULE AccountSemaphore --------------------------
(***************************************************************************)
(* One key of the account semaphore (open-sse/services/accountSemaphore.ts)*)
(* and the requests that acquire and release it.  Every exported function  *)
(* and timer callback is synchronous, so each is one action.               *)
(*                                                                         *)
(* The gate is kept field by field; maxConcurrency = 0 says that the key   *)
(* has no gate.  blockedUntil is the time left: NoBlock is null, 0 is a    *)
(* deadline that passed and that isBlocked has not cleared yet.            *)
(***************************************************************************)
EXTENDS Integers, Sequences, FiniteSets

CONSTANTS
    Requests,
    Caps,           \* the maxConcurrency values callers pass (null and <= 0 bypass the gate)
    MaxQueueSize,
    Cooldowns,      \* the cooldowns, in ticks, that markBlocked is called with
    Resets,         \* does the operator call reset()
    NoBlock

ASSUME SemaphoreAssumption ==
    /\ Caps \subseteq Nat \ {0}
    /\ MaxQueueSize \in Nat
    /\ Cooldowns \subseteq Nat \ {0}
    /\ Resets \in BOOLEAN
    /\ NoBlock \notin Nat

ASSUME FiniteRequests == IsFiniteSet(Requests)

VARIABLES
    at,              \* per request: "idle", "queued" or "holding" its release function
    running,
    maxConcurrency,
    queue,
    blockedUntil,
    cleanupTimer,    \* the setTimeout(0) of scheduleCleanup is pending
    blockTimers      \* time left of the timers markBlocked set

vars == <<at, running, maxConcurrency, queue, blockedUntil, cleanupTimer, blockTimers>>

TypeOK ==
    /\ at \in [Requests -> {"idle", "queued", "holding"}]
    /\ running \in Nat
    /\ maxConcurrency \in Nat
    /\ queue \in Seq(Requests)
    /\ blockedUntil \in Nat \cup {NoBlock}
    /\ cleanupTimer \in BOOLEAN
    /\ blockTimers \subseteq Nat

GateExists == maxConcurrency # 0
Holders    == {r \in Requests : at[r] = "holding"}
Waiters(q) == {q[i] : i \in DOMAIN q}

Init ==
    /\ at = [r \in Requests |-> "idle"]
    /\ running = 0 /\ maxConcurrency = 0 /\ queue = <<>>
    /\ blockedUntil = NoBlock /\ cleanupTimer = FALSE /\ blockTimers = {}

Blocked(b) == b # NoBlock /\ b # 0

(* isBlocked clears a deadline that has passed. *)
Looked(b) == IF b = 0 THEN NoBlock ELSE b

-----------------------------------------------------------------------------
(* Mutant: a freed slot wakes nobody. *)
AdmissibleNone(n, b) == 0

(* Mutant: a release hands its slot on even above a lowered cap. *)
AdmissibleHandsOn(n, b) ==
    LET free == IF n < running /\ n >= maxConcurrency THEN 1 ELSE maxConcurrency - n IN
    IF Blocked(b) \/ free <= 0 THEN 0 ELSE IF Len(queue) < free THEN Len(queue) ELSE free

(* Mutant: a release hands its slot on during a block. *)
AdmissibleThroughBlock(n, b) ==
    IF (Blocked(b) /\ n >= running) \/ n >= maxConcurrency THEN 0
    ELSE IF Len(queue) < maxConcurrency - n THEN Len(queue) ELSE maxConcurrency - n

(* How many waiters the loop of drainQueue admits when n slots are taken. *)
Admissible(n, b) ==
    IF Blocked(b) \/ n >= maxConcurrency THEN 0
    ELSE IF Len(queue) < maxConcurrency - n THEN Len(queue) ELSE maxConcurrency - n

(* Mutant: an emptied gate is left without a cleanup. *)
DrainNoCleanup(a, n, b) ==
    LET k == Admissible(n, b) IN
    /\ running' = n + k
    /\ queue' = SubSeq(queue, k + 1, Len(queue))
    /\ at' = [r \in Requests |->
                 IF r \in Waiters(SubSeq(queue, 1, k)) THEN "holding" ELSE a[r]]
    /\ blockedUntil' = IF queue # <<>> /\ n < maxConcurrency THEN Looked(b) ELSE b
    /\ UNCHANGED cleanupTimer

(* Mutant: the queue is drained from its newest end. *)
DrainNewest(a, n, b) ==
    LET k == Admissible(n, b)
        l == Len(queue) IN
    /\ running' = n + k
    /\ queue' = SubSeq(queue, 1, l - k)
    /\ at' = [r \in Requests |->
                 IF r \in Waiters(SubSeq(queue, l - k + 1, l)) THEN "holding" ELSE a[r]]
    /\ blockedUntil' = IF queue # <<>> /\ n < maxConcurrency THEN Looked(b) ELSE b
    /\ cleanupTimer' = (cleanupTimer \/ (n + k = 0 /\ k = Len(queue)))

(* drainQueue, after the caller's own change of at, running and blockedUntil. *)
Drain(a, n, b) ==
    LET k == Admissible(n, b) IN
    /\ running' = n + k
    /\ queue' = SubSeq(queue, k + 1, Len(queue))
    /\ at' = [r \in Requests |->
                 IF r \in Waiters(SubSeq(queue, 1, k)) THEN "holding" ELSE a[r]]
    /\ blockedUntil' = IF queue # <<>> /\ n < maxConcurrency THEN Looked(b) ELSE b
    /\ cleanupTimer' = (cleanupTimer \/ (n + k = 0 /\ k = Len(queue)))

-----------------------------------------------------------------------------
(* acquire: the cap passed becomes the gate's, and a pending cleanup is    *)
(* cancelled, whatever the answer.                                         *)
EnsureGate(cap) ==
    /\ maxConcurrency' = cap
    /\ cleanupTimer' = FALSE

AcquireNow(r, cap) ==
    /\ at[r] = "idle"
    /\ running < cap /\ ~Blocked(blockedUntil)
    /\ EnsureGate(cap)
    /\ running' = running + 1
    /\ at' = [at EXCEPT ![r] = "holding"]
    /\ blockedUntil' = Looked(blockedUntil)
    /\ UNCHANGED <<queue, blockTimers>>

AcquireLater(r, cap) ==
    /\ at[r] = "idle"
    /\ running >= cap \/ Blocked(blockedUntil)
    /\ Len(queue) < MaxQueueSize
    /\ EnsureGate(cap)
    /\ queue' = Append(queue, r)
    /\ at' = [at EXCEPT ![r] = "queued"]
    /\ UNCHANGED <<running, blockedUntil, blockTimers>>

(* SEMAPHORE_QUEUE_FULL: the request fails over to another target. *)
AcquireRefused(r, cap) ==
    /\ at[r] = "idle"
    /\ running >= cap \/ Blocked(blockedUntil)
    /\ Len(queue) >= MaxQueueSize
    /\ EnsureGate(cap)
    /\ UNCHANGED <<at, running, queue, blockedUntil, blockTimers>>

(* Mutant: a release is not clamped at an empty gate. *)
SlotsLeftUnclamped == running - 1

(* Mutant: a release wakes the waiters but keeps its own slot counted. *)
SlotsLeftKept == running

SlotsLeft == IF running > 0 THEN running - 1 ELSE 0

(* The release function works on whatever gate the key has by now. *)
Release(r) ==
    LET a == [at EXCEPT ![r] = "idle"] IN
    /\ at[r] = "holding"
    /\ \/ /\ ~GateExists
          /\ at' = a
          /\ UNCHANGED <<running, queue, blockedUntil, cleanupTimer>>
       \/ /\ GateExists /\ queue # <<>>
          /\ Drain(a, SlotsLeft, blockedUntil)
       \/ /\ GateExists /\ queue = <<>>
          /\ at' = a
          /\ running' = SlotsLeft
          /\ cleanupTimer' = TRUE
          /\ UNCHANGED <<queue, blockedUntil>>
    /\ UNCHANGED <<maxConcurrency, blockTimers>>

(* Mutant: an aborted waiter keeps its place in the queue. *)
WithoutNobody(r) == queue

Without(r) ==
    LET place == CHOOSE i \in DOMAIN queue : queue[i] = r IN
    [i \in 1..(Len(queue) - 1) |-> IF i < place THEN queue[i] ELSE queue[i + 1]]

LeaveQueue(r) ==
    /\ at[r] = "queued"
    /\ at' = [at EXCEPT ![r] = "idle"]
    /\ queue' = Without(r)
    /\ cleanupTimer' = (cleanupTimer \/ (running = 0 /\ queue' = <<>>))
    /\ UNCHANGED <<running, maxConcurrency, blockedUntil, blockTimers>>

Timeout(r) == LeaveQueue(r)
Abort(r)   == LeaveQueue(r)

(* The timer of markBlocked fires one tick (50 ms) after the deadline. *)
MarkBlocked(d) ==
    /\ maxConcurrency' = IF GateExists THEN maxConcurrency ELSE 1
    /\ cleanupTimer' = FALSE
    /\ blockedUntil' = d
    /\ blockTimers' = blockTimers \cup {d + 1}
    /\ UNCHANGED <<at, running, queue>>

(* markBlocked with no cooldown. *)
Unblock ==
    /\ GateExists
    /\ Drain(at, running, NoBlock)
    /\ UNCHANGED <<maxConcurrency, blockTimers>>

DeadlinePassed == blockedUntil = 0

BlockTimerFires ==
    /\ 0 \in blockTimers
    /\ blockTimers' = blockTimers \ {0}
    /\ \/ DeadlinePassed /\ Drain(at, running, NoBlock)
       \/ ~DeadlinePassed /\ UNCHANGED <<at, running, queue, blockedUntil, cleanupTimer>>
    /\ UNCHANGED maxConcurrency

CleanupTimerFires ==
    /\ cleanupTimer
    /\ cleanupTimer' = FALSE
    /\ \/ /\ running = 0 /\ queue = <<>> /\ ~Blocked(blockedUntil)
          /\ maxConcurrency' = 0
          /\ blockedUntil' = NoBlock
       \/ /\ running > 0 \/ queue # <<>> \/ Blocked(blockedUntil)
          /\ UNCHANGED <<maxConcurrency, blockedUntil>>
    /\ UNCHANGED <<at, running, queue, blockTimers>>

(* reset: the waiters are rejected and the gate forgotten, its holders not. *)
Reset ==
    /\ Resets /\ GateExists
    /\ at' = [r \in Requests |-> IF r \in Waiters(queue) THEN "idle" ELSE at[r]]
    /\ running' = 0 /\ maxConcurrency' = 0 /\ queue' = <<>>
    /\ blockedUntil' = NoBlock /\ cleanupTimer' = FALSE
    /\ UNCHANGED blockTimers

(* Due timers run before time goes on. *)
Tick ==
    /\ 0 \notin blockTimers
    /\ blockTimers # {} \/ Blocked(blockedUntil)
    /\ blockTimers' = {t - 1 : t \in blockTimers}
    /\ blockedUntil' = IF Blocked(blockedUntil) THEN blockedUntil - 1 ELSE blockedUntil
    /\ UNCHANGED <<at, running, maxConcurrency, queue, cleanupTimer>>

Acquire(r) ==
    \E cap \in Caps : AcquireNow(r, cap) \/ AcquireLater(r, cap) \/ AcquireRefused(r, cap)

Next ==
    \/ \E r \in Requests : Acquire(r) \/ Release(r) \/ Timeout(r) \/ Abort(r)
    \/ \E d \in Cooldowns : MarkBlocked(d)
    \/ Unblock
    \/ BlockTimerFires
    \/ CleanupTimerFires
    \/ Reset
    \/ Tick

Spec == Init /\ [][Next]_vars

(* Requests end: every path of chatCore releases when the response or the  *)
(* stream does, and both have upstream timeouts.                           *)
FairSpec == Spec /\ \A r \in Requests : WF_vars(Release(r))

-----------------------------------------------------------------------------
(* The queue holds exactly the requests that wait, once each: no timeout,  *)
(* abort, drain or reset leaves a ghost in it or forgets a waiter.         *)
QueueIsWaiters ==
    /\ Waiters(queue) = {r \in Requests : at[r] = "queued"}
    /\ \A i, j \in DOMAIN queue : queue[i] = queue[j] => i = j

(* The gate counts its holders; after a reset it may count fewer, never    *)
(* more, so a slot is never lost to a request that no longer holds it.     *)
SlotsMatchHolders ==
    /\ running <= Cardinality(Holders)
    /\ ~Resets => running = Cardinality(Holders)

(* Nobody waits at a gate that nothing will ever open: either a holder     *)
(* will release, or a block is on and a timer outlasts it.                 *)
NoStrandedWaiter ==
    queue # <<>> =>
       \/ running > 0
       \/ blockedUntil # NoBlock /\ \E t \in blockTimers : t >= blockedUntil

(* A gate nobody uses is about to be deleted, or to be unblocked and then  *)
(* deleted: keys do not accumulate.                                        *)
IdleGateIsForgotten ==
    GateExists /\ running = 0 /\ queue = <<>> =>
       \/ cleanupTimer
       \/ blockedUntil # NoBlock /\ \E t \in blockTimers : t >= blockedUntil

(* The step gives r a slot: at once, or by admitting it from the queue. *)
Granted(r) == at[r] # "holding" /\ at'[r] = "holding"

(* Holders the gate does not count, since a reset forgot them. *)
Uncounted == Cardinality(Holders) - running

(* Whoever gets a slot, the gate then counts no more than the cap in force *)
(* (a release does not hand its slot on above a cap that was lowered since *)
(* it was granted), and the slot is counted: a reset alone makes requests  *)
(* hold slots the gate does not know of.                                   *)
GrantsWithinCap ==
    [][\A r \in Requests : Granted(r) =>
          running' <= maxConcurrency' /\ Uncounted' <= Uncounted]_vars

(* A block lasts to the deadline of the last markBlocked: until then the   *)
(* timer of an earlier, shorter block lets nobody in, nor does a release   *)
(* hand its slot on.  Only markBlocked with no cooldown lifts it.          *)
BlockHolds ==
    [][(\E r \in Requests : Granted(r)) /\ Blocked(blockedUntil) => Unblock]_vars

(* First come first served, whatever the caps, blocks and resets: a waiter *)
(* gets its slot only together with, or after, everyone ahead of it, and   *)
(* the waiters that stay keep their order.                                 *)
SlotsInOrder ==
    [][\A i, j \in DOMAIN queue : i < j =>
          /\ at'[queue[j]] = "holding" => at'[queue[i]] = "holding"
          /\ at'[queue[i]] = "queued" /\ at'[queue[j]] = "queued" =>
                \E m, n \in DOMAIN queue' :
                   m < n /\ queue'[m] = queue[i] /\ queue'[n] = queue[j]]_vars

-----------------------------------------------------------------------------
TheCap == CHOOSE c \in Caps : TRUE

(* With one cap, no blocks and no resets the gate is a fair semaphore:     *)
(* slots are never idle while somebody waits, freed slots go in order of   *)
(* arrival, and who keeps waiting is admitted.                             *)
Fair == INSTANCE FairSemaphore WITH Cap <- TheCap, holding <- Holders, line <- queue

ImplementsFairSemaphore == Fair!FairSpec
=============================================================================
