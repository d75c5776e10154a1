----------------------------- MODULE RoundRobin -----------------------------
(***************************************************************************)
(* A round-robin combo: handleRoundRobinCombo of open-sse/services/combo.ts*)
(* over the slots of open-sse/services/rateLimitSemaphore.ts and the       *)
(* rotation state of open-sse/services/combo/rrState.ts.                   *)
(*                                                                         *)
(* Many requests of one combo run at once.  Each visits the targets in     *)
(* order from where the rotation stands, at most once each: it skips a     *)
(* target, or takes one of its slots (after a wait perhaps), calls it, and *)
(* after a failure tries again or goes on.  An action is the code between  *)
(* two awaits.  gate[t] is the semaphore's entry for target t; NoGate is   *)
(* its absence.  Its limited is the time left of a cooldown: None is null, *)
(* 0 a deadline that passed and that isRateLimited has not cleared yet.    *)
(***************************************************************************)
EXTENDS Integers, Sequences, FiniteSets

CONSTANTS
    Requests,
    N,              \* the combo's targets are 0..N-1
    Caps,           \* what resolveTargetConcurrency may answer
    DefaultMax,     \* the cap getGate assumes when it is told none (3)
    QueueDepth,     \* maxQueueSize
    Cooldowns,      \* the cooldowns, in ticks, of markRateLimited
    MaxRetries,
    MaxAttempts,    \* MAX_GLOBAL_ATTEMPTS
    Sticking,       \* the requests that come while sticky rotation is on
    StickyLimit,    \* its batch
    Pins,           \* the targets a session may be pinned to
    None

ASSUME RoundRobinAssumption ==
    /\ N \in Nat \ {0}
    /\ Caps \subseteq Nat \ {0}
    /\ DefaultMax \in Nat \ {0}
    /\ QueueDepth \in Nat
    /\ Cooldowns \subseteq Nat \ {0}
    /\ MaxRetries \in Nat
    /\ MaxAttempts \in Nat \ {0}
    /\ Sticking \subseteq Requests
    /\ StickyLimit \in Nat \ {0, 1}
    /\ Pins \subseteq 0..(N - 1)
    /\ None \notin Nat

ASSUME FiniteRequests == IsFiniteSet(Requests)

Targets == 0..(N - 1)
After(t) == IF t = N - 1 THEN 0 ELSE t + 1

VARIABLES
    counter,        \* rrCounters of the combo, modulo N as it is read
    sticky,         \* rrStickyTargets of the combo: [target, count], or None
    gate,
    timers,         \* per target: time left of the cooldown timers of its gate
    request,
    earned          \* history, per target: the turns its predecessor has given it by
                    \* having one or by serving, less those it has had

gateVars == <<gate, timers>>
rotation == <<counter, sticky, earned>>
vars == <<gateVars, rotation, request>>

Holding == {"calling", "wait", "spent"}

Request == [pc : {"idle", "next", "queued", "ended"} \cup Holding,
            target : Targets, left : 0..N, retry : 0..MaxRetries,
            attempts : 0..MaxAttempts]

Gate == [running : Nat, max : Nat, queue : Seq(Requests), limited : Nat \cup {None}]

TypeOK ==
    /\ counter \in Targets
    /\ sticky \in [target : Targets, count : 1..StickyLimit - 1] \cup {None}
    /\ gate \in [Targets -> Gate]
    /\ timers \in [Targets -> SUBSET Nat]
    /\ request \in [Requests -> Request]
    /\ earned \in [Targets -> Int]

NoGate == [running |-> 0, max |-> 0, queue |-> <<>>, limited |-> None]
Fresh  == [pc |-> "idle", target |-> 0, left |-> 0, retry |-> 0, attempts |-> 0]

Holders(t) == {r \in Requests : request[r].pc \in Holding /\ request[r].target = t}
Waiters(t) == {r \in Requests : request[r].pc = "queued" /\ request[r].target = t}
Members(q) == {q[i] : i \in DOMAIN q}

(* No request of the combo is under way; a batch may be. *)
Init ==
    /\ counter = 0
    /\ sticky \in [target : Targets, count : 1..StickyLimit - 1] \cup {None}
    /\ gate = [t \in Targets |-> NoGate]
    /\ timers = [t \in Targets |-> {}]
    /\ request = [r \in Requests |-> Fresh]
    /\ earned = [t \in Targets |-> IF t = 0 THEN 1 ELSE 0]

-----------------------------------------------------------------------------
Limited(g) == g.limited # None /\ g.limited # 0

(* isRateLimited clears a deadline that has passed. *)
Looked(g) == IF g.limited = 0 THEN [g EXCEPT !.limited = None] ELSE g

(* How many waiters the loop of drainQueue lets in. *)
Admitted(g) ==
    IF Limited(g) \/ g.running >= g.max THEN 0
    ELSE IF Len(g.queue) < g.max - g.running THEN Len(g.queue) ELSE g.max - g.running

(* The gate after the loop. *)
Drained(g) ==
    LET k == Admitted(g)
        h == IF g.queue # <<>> /\ g.running < g.max THEN Looked(g) ELSE g
    IN  [h EXCEPT !.running = @ + k, !.queue = SubSeq(@, k + 1, Len(@))]

(* Mutant: a gate without holders is deleted under its waiters. *)
KeptForHolders(g) == IF g.running = 0 THEN NoGate ELSE g

(* A gate without holders and waiters is deleted. *)
Kept(g) == IF g.running = 0 /\ g.queue = <<>> THEN NoGate ELSE g

(* What a request becomes when its acquire resolves: it calls the target,  *)
(* unless that is one attempt too many.                                    *)
Granted(j) ==
    IF j.attempts < MaxAttempts
    THEN [j EXCEPT !.pc = "calling", !.attempts = @ + 1]
    ELSE [j EXCEPT !.pc = "spent"]

(* Gate g of target t, whose timers are T, is written, or deleted when it  *)
(* is of no more use: its timers go on then, but not for this gate.        *)
Write(t, g, T) ==
    /\ gate' = [gate EXCEPT ![t] = Kept(g)]
    /\ timers' = [timers EXCEPT ![t] = IF Kept(g) = NoGate THEN {} ELSE T]

(* drainQueue: j are the requests after the caller's own change. *)
Drain(t, g, T, j) ==
    LET woken == Members(SubSeq(g.queue, 1, Admitted(g))) IN
    /\ Write(t, Drained(g), T)
    /\ request' = [r \in Requests |-> IF r \in woken THEN Granted(j[r]) ELSE j[r]]

(* The release function of r, which becomes k; g and T are the gate and    *)
(* timers of its target.  The code does nothing at a gate with no slot     *)
(* taken, which a holder never meets (GatesSound).                         *)
Release(r, k, g, T) ==
    LET t == request[r].target IN
    Drain(t, [g EXCEPT !.running = @ - 1], T, [request EXCEPT ![r] = k])

-----------------------------------------------------------------------------
Answered == [Fresh EXCEPT !.pc = "ended"]

(* On to the next target; after the last one the answer is the last error. *)
Onward(j) ==
    IF j.left = 1 THEN Answered
    ELSE [j EXCEPT !.pc = "next", !.target = After(@), !.left = @ - 1, !.retry = 0]

(* Where the rotation stands for a request: in a batch or at the counter.  *)
TurnOf(r, s) == IF r \in Sticking /\ s # None THEN s.target ELSE counter

(* The stretch of handleRoundRobinCombo up to the loop.  A sticky target   *)
(* found unavailable is forgotten.  A pinned session starts at its pin and *)
(* uses up the turn all the same.                                          *)
Start(r) ==
    /\ request[r].pc = "idle"
    /\ sticky' \in IF r \in Sticking THEN {sticky, None} ELSE {sticky}
    /\ \E first \in {TurnOf(r, sticky')} \cup Pins :
          request' = [request EXCEPT ![r] = [pc |-> "next", target |-> first, left |-> N,
                                             retry |-> 0, attempts |-> 0]]
    /\ \/ /\ r \notin Sticking
          /\ counter' = After(counter)
          /\ earned' = [[earned EXCEPT ![counter] = @ - 1] EXCEPT ![After(counter)] = @ + 1]
       \/ /\ r \in Sticking
          /\ UNCHANGED <<counter, earned>>
    /\ UNCHANGED gateVars

(* A target without credentials, cooling or exhausted is passed over. *)
Skip(r) ==
    /\ request[r].pc = "next"
    /\ request' = [request EXCEPT ![r] = Onward(@)]
    /\ UNCHANGED <<gateVars, rotation>>

(* acquire: the gate exists from here on and has the cap of this caller. *)
Entered(r, cap) == [gate[request[r].target] EXCEPT !.max = cap]

AcquireNow(r, cap) ==
    LET g == Entered(r, cap) IN
    /\ request[r].pc = "next"
    /\ g.running < g.max /\ ~Limited(g)
    /\ gate' = [gate EXCEPT ![request[r].target] = [Looked(g) EXCEPT !.running = @ + 1]]
    /\ request' = [request EXCEPT ![r] = Granted(@)]
    /\ UNCHANGED <<timers, rotation>>

AcquireLater(r, cap) ==
    LET g == Entered(r, cap) IN
    /\ request[r].pc = "next"
    /\ g.running >= g.max \/ Limited(g)
    /\ Len(g.queue) < QueueDepth
    /\ gate' = [gate EXCEPT ![request[r].target] = [g EXCEPT !.queue = Append(@, r)]]
    /\ request' = [request EXCEPT ![r].pc = "queued"]
    /\ UNCHANGED <<timers, rotation>>

(* SEMAPHORE_QUEUE_FULL: on to the next target; an unused gate is deleted. *)
AcquireRefused(r, cap) ==
    LET t == request[r].target
        g == Entered(r, cap) IN
    /\ request[r].pc = "next"
    /\ g.running >= g.max \/ Limited(g)
    /\ Len(g.queue) >= QueueDepth
    /\ Write(t, g, timers[t])
    /\ request' = [request EXCEPT ![r] = Onward(@)]
    /\ UNCHANGED rotation

Without(q, r) ==
    LET place == CHOOSE i \in DOMAIN q : q[i] = r IN
    [i \in 1..(Len(q) - 1) |-> IF i < place THEN q[i] ELSE q[i + 1]]

(* SEMAPHORE_TIMEOUT *)
TimeOut(r) ==
    LET t == request[r].target IN
    /\ request[r].pc = "queued"
    /\ gate' = [gate EXCEPT ![t].queue = Without(@, r)]
    /\ request' = [request EXCEPT ![r] = Onward(@)]
    /\ UNCHANGED <<timers, rotation>>

(* The attempt that is one too many ends the request. *)
GiveUp(r) ==
    LET t == request[r].target IN
    /\ request[r].pc = "spent"
    /\ Release(r, Answered, gate[t], timers[t])
    /\ UNCHANGED rotation

(* Mutant: the pointer is left at the target that served. *)
PointerAt(t) == counter' = t /\ UNCHANGED sticky

(* The pointer after a success: past the target that served. *)
PointerPast(t) == counter' = After(t) /\ UNCHANGED sticky

(* Mutant: the batch is one request longer than its record may count. *)
BatchedOneMore(t) ==
    LET n == IF sticky # None /\ sticky.target = t THEN sticky.count + 1 ELSE 1 IN
    \/ n > StickyLimit /\ counter' = After(t) /\ sticky' = None
    \/ n <= StickyLimit /\ sticky' = [target |-> t, count |-> n] /\ UNCHANGED counter

(* The same with batches: past it once the batch is complete. *)
Batched(t) ==
    LET n == IF sticky # None /\ sticky.target = t THEN sticky.count + 1 ELSE 1 IN
    \/ n >= StickyLimit /\ counter' = After(t) /\ sticky' = None
    \/ n < StickyLimit /\ sticky' = [target |-> t, count |-> n] /\ UNCHANGED counter

Succeed(r) ==
    LET t == request[r].target IN
    /\ request[r].pc = "calling"
    /\ Release(r, Answered, gate[t], timers[t])
    /\ earned' = [earned EXCEPT ![After(t)] = @ + 1]
    /\ \/ r \notin Sticking /\ PointerPast(t)
       \/ r \in Sticking /\ Batched(t)

(* markRateLimited calls getGate with no cap, which makes it the default. *)
Marked(g, d) == [g EXCEPT !.max = DefaultMax, !.limited = d]

(* A failed call, or an answer that fails validation: cool is the cooldown *)
(* it puts on the target (None if it puts none), again whether it is a     *)
(* transient error, waits whether the fallback is delayed.  The slot is    *)
(* kept through a retry, its delay included, and through that wait.        *)
Fail(r, cool, again, waits) ==
    LET j == request[r]
        t == j.target
        g == IF cool = None THEN gate[t] ELSE Marked(gate[t], cool)
        T == IF cool = None THEN timers[t] ELSE timers[t] \cup {cool}
        Stays(k) == /\ gate' = [gate EXCEPT ![t] = g]
                    /\ timers' = [timers EXCEPT ![t] = T]
                    /\ request' = [request EXCEPT ![r] = k]
        retries == again /\ j.retry < MaxRetries
    IN  /\ j.pc = "calling"
        /\ \/ /\ retries /\ j.attempts < MaxAttempts
              /\ Stays([j EXCEPT !.retry = @ + 1, !.attempts = @ + 1])
           \/ /\ retries /\ j.attempts = MaxAttempts
              /\ Release(r, Answered, g, T)
           \/ /\ ~retries /\ waits
              /\ Stays([j EXCEPT !.pc = "wait", !.retry = 0])
           \/ /\ ~retries /\ ~waits
              /\ Release(r, Onward(j), g, T)
        /\ UNCHANGED rotation

WaitOver(r) ==
    LET t == request[r].target IN
    /\ request[r].pc = "wait"
    /\ Release(r, Onward(request[r]), gate[t], timers[t])
    /\ UNCHANGED rotation

(* The client has gone: a 499, or an abort during the wait. *)
Disconnect(r) ==
    LET t == request[r].target IN
    /\ request[r].pc \in {"calling", "wait"}
    /\ Release(r, Answered, gate[t], timers[t])
    /\ UNCHANGED rotation

-----------------------------------------------------------------------------
(* The timer of markRateLimited, 50 ms (less than a tick) past its deadline*)
TimerFires(t) ==
    /\ 0 \in timers[t]
    /\ \/ /\ gate[t].limited = 0
          /\ Drain(t, [gate[t] EXCEPT !.limited = None], timers[t] \ {0}, request)
       \/ /\ gate[t].limited # 0
          /\ timers' = [timers EXCEPT ![t] = @ \ {0}]
          /\ UNCHANGED <<gate, request>>
    /\ UNCHANGED rotation

(* The timer of a gate deleted earlier drains whatever gate the target has *)
(* by now.  Gates come and go, so that one may be due at any time.         *)
StrayFires(t) ==
    /\ Drain(t, gate[t], timers[t], request)
    /\ UNCHANGED rotation

(* Due timers run before time goes on. *)
Tick ==
    /\ \A t \in Targets : 0 \notin timers[t]
    /\ timers' = [t \in Targets |-> {x - 1 : x \in timers[t]}]
    /\ gate' = [t \in Targets |->
                  IF Limited(gate[t]) THEN [gate[t] EXCEPT !.limited = @ - 1] ELSE gate[t]]
    /\ UNCHANGED <<request, rotation>>

Acquire(r) ==
    \E cap \in Caps : AcquireNow(r, cap) \/ AcquireLater(r, cap) \/ AcquireRefused(r, cap)

Failed(r) ==
    \E cool \in Cooldowns \cup {None}, again, waits \in BOOLEAN : Fail(r, cool, again, waits)

Next ==
    \/ \E r \in Requests : \/ Start(r) \/ Skip(r) \/ Acquire(r) \/ TimeOut(r) \/ GiveUp(r)
                           \/ Succeed(r) \/ Failed(r) \/ WaitOver(r) \/ Disconnect(r)
    \/ \E t \in Targets : TimerFires(t) \/ StrayFires(t)
    \/ Tick

Spec == Init /\ [][Next]_vars

-----------------------------------------------------------------------------
(* The count of a gate is the number of requests that hold a slot of it,   *)
(* and its queue holds exactly those that wait for one, once each: no      *)
(* timeout, release or late timer works on a gate it does not belong to.   *)
SlotsMatchHolders(t) == gate[t].running = Cardinality(Holders(t))

QueueIsWaiters(t) ==
    /\ Members(gate[t].queue) = Waiters(t)
    /\ \A i, j \in DOMAIN gate[t].queue : gate[t].queue[i] = gate[t].queue[j] => i = j

(* Somebody will wake the first in line before its own timeout has to: a   *)
(* holder who will release, or a timer due after the cooldown.             *)
SomebodyWakes(t) ==
    gate[t].queue # <<>> =>
       \/ gate[t].running > 0
       \/ gate[t].limited # None /\ \E x \in timers[t] : x >= gate[t].limited

(* The slots of every target are sound, however gates are deleted and made *)
(* again under running requests, waiters and cooldown timers.              *)
GatesSound ==
    \A t \in Targets : SlotsMatchHolders(t) /\ QueueIsWaiters(t) /\ SomebodyWakes(t)

(* However late successes write over the counter, a target gets a turn     *)
(* only for one its predecessor had or for a request its predecessor       *)
(* served; the rotation's first target gets one for nothing.               *)
TurnsAreEarned == \A t \in Targets : earned[t] >= 0

(* The step gives request r a slot.                                        *)
Gets(r) == request[r].pc \notin Holding /\ request'[r].pc \in Holding

(* Whoever asks last sets a gate's cap, a mark sets it to the default, and *)
(* slots taken under a larger one are not taken back: but none is given    *)
(* beyond the cap as it stands then, nor during a cooldown.                *)
SlotsGivenWithinCap ==
    [][\A r \in Requests : Gets(r) =>
          LET g == gate'[request[r].target] IN g.running <= g.max /\ ~Limited(g)]_vars

(* Of those in line at a gate, no one gets a slot before those ahead of it,*)
(* whatever releases, timeouts and timers (of deleted gates too) drain it. *)
SlotsGivenInTurn ==
    [][\A t \in Targets : \A m, n \in DOMAIN gate[t].queue :
          m < n /\ Gets(gate[t].queue[n]) => Gets(gate[t].queue[m])]_vars

Stage(pc) == CASE pc = "next" -> 3 [] pc = "queued" -> 2 [] pc = "calling" -> 1 [] OTHER -> 0

(* k is nearer to its answer than j: fewer targets left to visit, or one   *)
(* more of the attempts allowed, or a later stage at the same target.      *)
Nearer(k, j) ==
    \/ k.left < j.left
    \/ /\ k.left = j.left
       /\ \/ j.attempts < k.attempts /\ k.attempts <= MaxAttempts
          \/ k.attempts = j.attempts /\ Stage(k.pc) < Stage(j.pc)

(* The loops over targets and retries cannot go round for ever: a request  *)
(* only ever moves towards its answer, in an order without infinite        *)
(* descent, whatever the other requests do to the gate it waits at.        *)
RequestsOnlyAdvance ==
    [][\A r \in Requests : request[r].pc # "idle" =>
          request'[r] = request[r] \/ Nearer(request'[r], request[r])]_vars
=============================================================================
