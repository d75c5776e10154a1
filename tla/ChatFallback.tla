---------------------------- MODULE ChatFallback ----------------------------
(***************************************************************************)
(* The credential retry loop of handleSingleModelChat                      *)
(* (src/sse/handlers/chat.ts) for one provider: a request passes the       *)
(* circuit-breaker gate, picks a connection, calls upstream inside         *)
(* breaker.execute(), marks a connection that failed, and falls back to    *)
(* the next one until none is left.  It composes the provider's            *)
(* CircuitBreaker with the connection rows of src/sse/services/auth.ts     *)
(* and the per-connection mutex of markAccountUnavailable.                 *)
(*                                                                         *)
(* A step is a synchronous stretch of the handler; requests interleave at  *)
(* its awaits.  The model covers plain requests: not a combo leg, not a    *)
(* live combo test, no forced connection, a provider without per-model     *)
(* quota, cooling not disabled.                                            *)
(***************************************************************************)
EXTENDS Integers, FiniteSets

CONSTANTS
    Requests,              \* request slots: requests in progress at once
    Accounts,              \* the provider's active connections
    None,                  \* no account, no error, no predecessor
    Outcomes,              \* what handleChatCore may return for a failure
    BaseCooldown,          \* baseCooldownMs
    MaxBackoffSteps,
    MaxRetries,            \* waitForCooldown.maxRetries
    MaxRetryWait,          \* waitForCooldown.maxRetryWaitSec
    RetryBudget,           \* waitForCooldown.budgetMs
    FailureThreshold, DegradationThreshold, ResetTimeout, HalfOpenRequests,
    MaxBackoffMultiplier, BackoffEscalationCount,
    MaxFailures, MaxCycles, MaxAge      \* the bounds of CircuitBreaker

(* Failures handleChatCore RETURNS, and the two the breaker wrapper makes  *)
(* of an exception:                                                        *)
(*   down          an upstream 5xx                                         *)
(*   limited       a 429, or the 403 of an API key                         *)
(*   bad           a generic 400, or a 403 for this route only             *)
(*   rejected      a 400 this model cannot serve (overflow, malformed,     *)
(*                 no access)                                              *)
(*   banned        a terminal 401/402/403                                  *)
(*   unauthorized  a 401 or 403 the connection recovers from: an OAuth     *)
(*                 token no longer valid, a project route error, the 401   *)
(*                 of a cookie session, the 403 of a provider that needs   *)
(*                 no credentials or of Cloudflare in front of one         *)
(*   own_timeout   the handler's own timeout (504)                         *)
(*   aborted       a client abort (499), or a stream never ready           *)
(*   early         a stream closed before useful content                   *)
(*   refused       CircuitBreakerOpenError, as a 503                       *)
(*   unreachable   an unreachable proxy, as a 503                          *)
Returned == {"down", "limited", "bad", "rejected", "banned", "unauthorized",
             "own_timeout", "aborted", "early"}
Statuses == Returned \cup {"refused", "unreachable"}

ASSUME ChatAssumption ==
    /\ Outcomes \subseteq Returned
    /\ BaseCooldown \in Nat \ {0}
    /\ MaxBackoffSteps \in Nat
    /\ MaxRetries \in Nat /\ MaxRetryWait \in Nat /\ RetryBudget \in Nat
    /\ None \notin Requests \cup Accounts \cup Statuses

(* What CircuitBreaker assumes of its configuration; no kinds here.        *)
ASSUME BreakerAssumption ==
    /\ FailureThreshold \in Nat \ {0} /\ DegradationThreshold \in Nat \ {0}
    /\ DegradationThreshold <= FailureThreshold
    /\ ResetTimeout \in Nat /\ HalfOpenRequests \in Nat
    /\ MaxBackoffMultiplier \in Nat /\ BackoffEscalationCount \in Nat
    /\ MaxFailures \in Nat /\ FailureThreshold <= MaxFailures
    /\ MaxCycles \in Nat /\ MaxAge \in Nat

VARIABLES
    breaker, db, probes,   \* the provider's breaker, as in CircuitBreaker
    row,                   \* per account: its provider_connections row
    job,                   \* per request slot: where the handler is
    tail                   \* markMutexes: per account, the latest marker

vars == <<breaker, db, probes, row, job, tail>>

NoKinds == [k \in {} |-> 0]

(* A request is a call of execute() from its admission to its outcome.     *)
InExecute == [r \in Requests |->
                IF job[r].pc \in {"upstream", "cleared"} THEN "running" ELSE "idle"]

CB == INSTANCE CircuitBreaker WITH
         Calls <- Requests, calls <- InExecute, Kinds <- {}, NoKind <- None,
         NoRow <- None, CooldownByKind <- NoKinds, KindThresholds <- NoKinds

NoCooldown == -1                  \* rateLimitedUntil = null; 0 is in the past

Clean == [status |-> "active", cool |-> NoCooldown, backoff |-> 0, error |-> None]

(* What the breaker and the retry read of a status: is it in               *)
(* PROVIDER_BREAKER_FAILURE_STATUSES?                                      *)
Trips == {"down", "own_timeout", "refused", "unreachable"}
Scope(status) == IF status \in Trips THEN "provider" ELSE "account"

Idle == [pc |-> "idle", account |-> None, excluded |-> {}, last |-> None,
         status |-> None, dirty |-> FALSE, early |-> FALSE, attempt |-> 0,
         budget |-> 0, wait |-> 0, pred |-> None, level |-> 0]

Init == /\ row = [c \in Accounts |-> Clean]
        /\ job = [r \in Requests |-> Idle]
        /\ tail = [c \in Accounts |-> None]
        /\ CB!Init

At(r, pc)  == job[r].pc = pc
Goto(r, j) == job' = [job EXCEPT ![r] = j]
UnchangedBreaker == UNCHANGED <<breaker, db, probes>>

-----------------------------------------------------------------------------
(* canExecute: the lazy refresh, whether or not it changes anything.       *)
LookedUp == CB!RefreshOpenState(breaker)

Look == /\ breaker' = LookedUp
        /\ probes' = IF LookedUp = breaker THEN probes
                     ELSE CB!WindowProbes(breaker, LookedUp, {})

(* checkPipelineGates: getCircuitBreaker writes the row, canExecute looks; *)
(* the gate takes no probe.                                                *)
Admit(r) == Goto(r, [Idle EXCEPT !.pc = "choose", !.budget = RetryBudget])

(* Mutant: the gate takes a probe, which execute() then takes again.       *)
GateTakesProbe(r) ==
    /\ At(r, "idle")
    /\ IF CB!CanExecute(LookedUp) THEN Admit(r) ELSE UNCHANGED job
    /\ breaker' = [LookedUp EXCEPT !.halfOpenAllowed = @ - 1]
    /\ probes' = CB!WindowProbes(breaker, LookedUp, {})
    /\ db' = CB!Row(LookedUp)
    /\ UNCHANGED <<row, tail>>

(* Mutant: the gate lets requests through to a blocked provider.           *)
GateAlwaysOpen(r) ==
    /\ At(r, "idle")
    /\ Admit(r)
    /\ Look
    /\ db' = CB!Row(LookedUp)
    /\ UNCHANGED <<row, tail>>

Gate(r) ==
    /\ At(r, "idle")
    /\ IF CB!CanExecute(LookedUp) THEN Admit(r) ELSE UNCHANGED job
    /\ Look
    /\ db' = CB!Row(LookedUp)
    /\ UNCHANGED <<row, tail>>

-----------------------------------------------------------------------------
(* getProviderCredentials, under the selection lock.                       *)
Cooling(c)  == row[c].cool > 0
Terminal(c) == row[c].status = "terminal"
Usable(r, c) == c \notin job[r].excluded /\ ~Cooling(c) /\ ~Terminal(c)

(* resetConnectionBackoff of every row whose cooldown has passed; the      *)
(* rateLimitedUntil in the past stays.                                     *)
Decayed == [c \in Accounts |->
              IF row[c].backoff > 0 /\ ~Terminal(c) /\ ~Cooling(c)
              THEN [row[c] EXCEPT !.status = "active", !.backoff = 0, !.error = None]
              ELSE row[c]]

(* Any usable account may be the one the strategy picks.  The credentials  *)
(* are a snapshot of the row before the decay.                             *)
Select(r, c) ==
    /\ At(r, "choose") /\ Usable(r, c)
    /\ row' = Decayed
    /\ Goto(r, [job[r] EXCEPT !.pc = "execute", !.account = c,
                              !.dirty = (row[c] # Clean)])
    /\ UnchangedBreaker /\ UNCHANGED tail

Exhausted(r) == At(r, "choose") /\ \A c \in Accounts : ~Usable(r, c)

(* The accounts whose cooldown ends first; there is one exactly when the   *)
(* answer is allRateLimited.                                               *)
Earliest == {c \in Accounts : /\ Cooling(c)
                              /\ \A d \in Accounts : Cooling(d) => row[c].cool <= row[d].cool}

(* getCooldownAwareRetryDecision.                                          *)
ShouldRetry(r) ==
    /\ job[r].attempt < MaxRetries /\ MaxRetryWait > 0
    /\ \E c \in Earliest : row[c].cool <= MaxRetryWait /\ row[c].cool <= job[r].budget

WaitForCooldown(r) ==
    /\ Exhausted(r) /\ ShouldRetry(r)
    /\ \E c \in Earliest :
          Goto(r, [job[r] EXCEPT !.pc = "waiting", !.wait = row[c].cool,
                                 !.budget = @ - row[c].cool])
    /\ row' = Decayed
    /\ UnchangedBreaker /\ UNCHANGED tail

(* The wait is over: a new attempt over all the accounts, which keeps the  *)
(* last status of the one before.                                          *)
Retry(r) ==
    /\ At(r, "waiting") /\ job[r].wait = 0
    /\ Goto(r, [job[r] EXCEPT !.pc = "choose", !.excluded = {}, !.attempt = @ + 1])
    /\ UnchangedBreaker /\ UNCHANGED <<row, tail>>

AbandonWait(r) ==
    /\ At(r, "waiting")
    /\ Goto(r, Idle)
    /\ UnchangedBreaker /\ UNCHANGED <<row, tail>>

(* Nothing left to try.  breaker._onFailure() counts the request when the  *)
(* status it saw last, or the error of the account that comes back first   *)
(* when it tried none, is the provider's.                                  *)
LastScope(r, c) == IF job[r].last # None THEN job[r].last ELSE row[c].error

GiveUp(r) ==
    /\ Exhausted(r) /\ ~ShouldRetry(r)
    /\ Goto(r, Idle)
    /\ row' = Decayed
    /\ \/ /\ \E c \in Earliest : LastScope(r, c) = "provider"
          /\ CB!CountFailure(None)
       \/ /\ Earliest = {} \/ \E c \in Earliest : LastScope(r, c) # "provider"
          /\ UnchangedBreaker
    /\ UNCHANGED tail

-----------------------------------------------------------------------------
(* executeChatWithBreaker.  Credentials refresh and proxy resolution lie   *)
(* between the selection and breaker.execute().                            *)
Start(r) ==
    /\ At(r, "execute")
    /\ Goto(r, [job[r] EXCEPT !.pc = "upstream"])
    /\ CB!Begin(r)
    /\ UNCHANGED <<row, tail>>

(* Mutant: the failed result no longer says which connection it came from. *)
FailedNowhere(r, s) == [job[r] EXCEPT !.pc = "failed", !.status = s,
                                      !.account = None, !.dirty = FALSE]

FailedJob(r, s) == [job[r] EXCEPT !.pc = "failed", !.status = s, !.dirty = FALSE]

(* CircuitBreakerOpenError becomes a failed result with status 503.        *)
Refuse(r) ==
    /\ At(r, "execute")
    /\ ~CB!CanExecute(LookedUp)
    /\ Goto(r, FailedJob(r, "refused"))
    /\ Look
    /\ db' = IF LookedUp # breaker THEN CB!Row(LookedUp) ELSE db
    /\ UNCHANGED <<row, tail>>

(* onRequestSuccess: clearAccountError trusts the snapshot of the row.     *)
ClearAccountError(r) ==
    /\ At(r, "upstream")
    /\ Goto(r, [Idle EXCEPT !.pc = "cleared"])
    /\ row' = IF job[r].dirty THEN [row EXCEPT ![job[r].account] = Clean] ELSE row
    /\ UnchangedBreaker /\ UNCHANGED tail

Answer(r) ==
    /\ At(r, "cleared")
    /\ Goto(r, [Idle EXCEPT !.pc = "settling"])
    /\ CB!Succeed(r)
    /\ UNCHANGED <<row, tail>>

(* result.success: breaker._onSuccess() once more.                         *)
Settle(r) ==
    /\ At(r, "settling")
    /\ Goto(r, Idle)
    /\ CB!CountSuccess
    /\ UNCHANGED <<row, tail>>

(* A failure is a value, not an exception: execute() counts a success.     *)
ReturnFailure(r, s) ==
    /\ At(r, "upstream")
    /\ Goto(r, FailedJob(r, s))
    /\ CB!Succeed(r)
    /\ UNCHANGED <<row, tail>>

(* PROXY_UNREACHABLE is thrown through execute() and becomes a 503.        *)
ProxyUnreachable(r) ==
    /\ At(r, "upstream")
    /\ Goto(r, FailedJob(r, "unreachable"))
    /\ CB!Fail(r, None)
    /\ UNCHANGED <<row, tail>>

(* Any other exception ends the request: counted, or ignored when          *)
(* isFailure() says it is local.                                           *)
Throw(r) ==
    /\ At(r, "upstream")
    /\ Goto(r, Idle)
    /\ CB!Fail(r, None) \/ CB!Ignore(r)
    /\ UNCHANGED <<row, tail>>

-----------------------------------------------------------------------------
(* What the loop does with a failed result.                                *)

(* A stream closed early is tried once more on any account, none marked.   *)
RetryEarlyClose(r) ==
    /\ At(r, "failed") /\ job[r].status = "early"
    /\ Goto(r, IF job[r].early THEN Idle
               ELSE [job[r] EXCEPT !.pc = "choose", !.early = TRUE,
                                   !.account = None, !.status = None])
    /\ UnchangedBreaker /\ UNCHANGED <<row, tail>>

(* shouldSkipConnDisable, or a stream that was never ready: the connection *)
(* is not to blame.                                                        *)
SkipDisable(r) ==
    /\ At(r, "failed") /\ job[r].status \in {"own_timeout", "aborted"}
    /\ Goto(r, Idle)
    /\ IF job[r].status \in Trips THEN CB!CountFailure(None) ELSE UnchangedBreaker
    /\ UNCHANGED <<row, tail>>

(* markAccountUnavailable, first stretch: queue behind the latest marker.  *)
QueueMark(r) ==
    /\ At(r, "failed") /\ job[r].status \notin {"early", "own_timeout", "aborted"}
    /\ Goto(r, [job[r] EXCEPT !.pc = "queued", !.pred = tail[job[r].account]])
    /\ tail' = [tail EXCEPT ![job[r].account] = r]
    /\ UnchangedBreaker /\ UNCHANGED row

(* Fallback: the account is excluded from the rest of this attempt.        *)
NextAccount(r) ==
    [job[r] EXCEPT !.pc = "choose", !.excluded = @ \cup {job[r].account},
                   !.last = Scope(job[r].status), !.account = None,
                   !.status = None, !.pred = None, !.level = 0]

(* Mutant: a mark that is written leaves its promise unresolved.           *)
LeaveUnresolved(r, j) ==
    /\ job' = [q \in Requests |->
                 IF q = r THEN j
                 ELSE IF job[q].pred = r /\ At(r, "queued")
                      THEN [job[q] EXCEPT !.pred = None] ELSE job[q]]
    /\ tail' = [tail EXCEPT ![job[r].account] = None]

(* finally: resolve this mark's promise, and delete the map entry even     *)
(* when a later marker has replaced it.                                    *)
LeaveMark(r, j) ==
    /\ job' = [q \in Requests |->
                 IF q = r THEN j
                 ELSE IF job[q].pred = r THEN [job[q] EXCEPT !.pred = None] ELSE job[q]]
    /\ tail' = [tail EXCEPT ![job[r].account] = None]

MarkTurn(r) == At(r, "queued") /\ job[r].pred = None

(* A terminal status or a cooldown still running is left alone.            *)
SkipMark(r) ==
    /\ MarkTurn(r)
    /\ Terminal(job[r].account) \/ Cooling(job[r].account)
    /\ LeaveMark(r, NextAccount(r))
    /\ UnchangedBreaker /\ UNCHANGED row

(* The row is read; settings are awaited before anything is written.       *)
ReadRow(r) ==
    /\ MarkTurn(r)
    /\ ~Terminal(job[r].account) /\ ~Cooling(job[r].account)
    /\ Goto(r, [job[r] EXCEPT !.pc = "marking", !.level = row[job[r].account].backoff])
    /\ UnchangedBreaker /\ UNCHANGED <<row, tail>>

Lesser(m, n) == IF m <= n THEN m ELSE n
Cooldown(level) == BaseCooldown * 2^Lesser(level, MaxBackoffSteps)

(* What every mark writes, from the level read before.                     *)
Blamed(r) == [row[job[r].account] EXCEPT !.cool = NoCooldown, !.backoff = job[r].level,
                                         !.error = Scope(job[r].status)]

(* The rules for these say cooldownMs 0, and resolveTerminalConnection-    *)
(* Status gives them no terminal status.                                   *)
Uncooled == {"rejected", "unauthorized"}

(* Mutant: a connection already at its highest backoff is not cooled.      *)
MarkedUncooled(r) ==
    CASE job[r].status = "banned" -> [Blamed(r) EXCEPT !.status = "terminal"]
      [] job[r].status \in Uncooled -> Blamed(r)
      [] OTHER -> [Blamed(r) EXCEPT
                     !.status = "unavailable",
                     !.cool = IF job[r].level < MaxBackoffSteps
                              THEN Cooldown(job[r].level) ELSE NoCooldown,
                     !.backoff = Lesser(@ + 1, MaxBackoffSteps)]

(* checkFallbackError and the update: a terminal status, no cooldown, or a *)
(* cooldown that grows with the level.                                     *)
Marked(r) ==
    CASE job[r].status = "banned" -> [Blamed(r) EXCEPT !.status = "terminal"]
      [] job[r].status \in Uncooled -> Blamed(r)
      [] OTHER -> [Blamed(r) EXCEPT !.status = "unavailable",
                                    !.cool = Cooldown(job[r].level),
                                    !.backoff = Lesser(@ + 1, MaxBackoffSteps)]

WriteRow(r) ==
    /\ At(r, "marking") /\ job[r].status # "bad"
    /\ LeaveMark(r, NextAccount(r))
    /\ row' = [row EXCEPT ![job[r].account] = Marked(r)]
    /\ UnchangedBreaker

(* shouldFallback is false: a generic 400, or a 403 for this route, is no  *)
(* reason to change accounts, and the request ends.                        *)
NoFallback(r) ==
    /\ At(r, "marking") /\ job[r].status = "bad"
    /\ LeaveMark(r, Idle)
    /\ UnchangedBreaker /\ UNCHANGED row

-----------------------------------------------------------------------------
(* The health page and the reset button look at the same breaker.          *)
Monitor == UNCHANGED <<row, job, tail>> /\ (CB!Inspect \/ CB!Reset)

(* A crash loses the requests and the mutexes; the rows survive.           *)
Restart ==
    /\ job' = [r \in Requests |-> Idle]
    /\ tail' = [c \in Accounts |-> None]
    /\ CB!Restart
    /\ UNCHANGED row

Sooner(n) == IF n > 0 THEN n - 1 ELSE n

Tick ==
    /\ job' = [r \in Requests |-> [job[r] EXCEPT !.wait = Sooner(@)]]
    /\ row' = [c \in Accounts |-> [row[c] EXCEPT !.cool = Sooner(@)]]
    /\ CB!Tick
    /\ UNCHANGED tail

(* One step of the handler of a request already under way.                 *)
Choose(r) == \/ \E c \in Accounts : Select(r, c)
             \/ WaitForCooldown(r) \/ Retry(r) \/ GiveUp(r)

Execute(r) == \/ Start(r) \/ Refuse(r)
              \/ ClearAccountError(r) \/ Answer(r) \/ Settle(r)
              \/ \E s \in Outcomes : ReturnFailure(r, s)
              \/ ProxyUnreachable(r) \/ Throw(r)

Fallback(r) == \/ RetryEarlyClose(r) \/ SkipDisable(r) \/ QueueMark(r)
               \/ SkipMark(r) \/ ReadRow(r) \/ WriteRow(r) \/ NoFallback(r)

Handle(r) == Choose(r) \/ Execute(r) \/ Fallback(r)

Next == \/ \E r \in Requests : Gate(r) \/ Handle(r) \/ AbandonWait(r)
        \/ Monitor \/ Restart \/ Tick

Spec == Init /\ [][Next]_vars

(* Time passes, the event loop runs every handler on, upstream calls end   *)
(* (executors time out), and the provider keeps being asked for.           *)
FairSpec == /\ Spec
            /\ WF_vars(Tick)
            /\ \A r \in Requests : WF_vars(Handle(r)) /\ WF_vars(Gate(r))

-----------------------------------------------------------------------------
Rows == [status : {"active", "unavailable", "terminal"},
         cool : Int, backoff : Nat,
         error : {None, "provider", "account"}]

Pcs == {"idle", "choose", "waiting", "execute", "upstream", "cleared",
        "settling", "failed", "queued", "marking"}

Jobs == [pc : Pcs, account : Accounts \cup {None}, excluded : SUBSET Accounts,
         last : {None, "provider", "account"}, status : Statuses \cup {None},
         dirty : BOOLEAN, early : BOOLEAN, attempt : Nat, budget : Nat,
         wait : Nat, pred : Requests \cup {None}, level : Nat]

(* Rows, requests and mutexes keep their shape; a request that works on an *)
(* account names one.                                                      *)
TypeOK == /\ row \in [Accounts -> Rows]
          /\ job \in [Requests -> Jobs]
          /\ tail \in [Accounts -> Requests \cup {None}]
          /\ \A r \in Requests :
                job[r].pc \in {"execute", "upstream", "failed", "queued", "marking"}
                  => job[r].account \in Accounts

(* The handler uses the breaker as CircuitBreaker allows: every gate,      *)
(* execute(), direct _onSuccess/_onFailure, crash and reset maps to steps  *)
(* of that specification, so what is proved of it holds here.              *)
ImplementsCircuitBreaker == CB!Spec

(* Every request ends, whatever the other requests do to the breaker, the  *)
(* rows and the mutex queues it waits in.                                  *)
RequestsEnd == \A r \in Requests : ~At(r, "idle") ~> At(r, "idle")

(* An OPEN breaker is tried again although requests that were already past *)
(* the gate go on counting failures, each of which restarts its cooldown.  *)
OpenIsTriedAgain == (breaker.state = "OPEN") ~> (breaker.state # "OPEN")

(* A request that falls back from an account that failed leaves it cooling *)
(* or terminal, so the next request does not pick it again, even when      *)
(* another request's mark was found in place.  Two kinds of failure move   *)
(* on without a cooldown and leave the account selectable: a 400 about the *)
(* request itself, and a 401 or 403 the connection recovers from, for      *)
(* which markAccountUnavailable writes neither a cooldown nor a status.    *)
FallbackLeavesACooldown ==
    [][\A r \in Requests, c \in Accounts :
         (/\ c \in job'[r].excluded /\ c \notin job[r].excluded
          /\ job[r].status \notin Uncooled)
           => (row'[c].cool > 0 \/ row'[c].status = "terminal")]_vars

(* A request that holds its place in an account's markMutexes chain.       *)
InMark(r) == At(r, "queued") \/ At(r, "marking")

(* The chain of promises of markAccountUnavailable.  Who waits, waits for  *)
(* a mark of the same connection that is still to end; a mark has at most  *)
(* one follower, the latest of all has none; and the waits form no circle, *)
(* although the map entry is deleted under markers that are still queued.  *)
MarkQueueSound ==
    /\ \A r \in Requests :
          job[r].pred # None => /\ At(r, "queued") /\ InMark(job[r].pred)
                                /\ job[job[r].pred].account = job[r].account
    /\ \A q, r \in Requests :
          job[q].pred = job[r].pred => job[q].pred = None \/ q = r
    /\ \A c \in Accounts :
          tail[c] # None => /\ InMark(tail[c]) /\ job[tail[c]].account = c
                            /\ \A r \in Requests : job[r].pred # tail[c]
    /\ \A S \in SUBSET Requests : S # {} => \E r \in S : job[r].pred \notin S

(* No mark waits for ever: while a request waits for its turn to mark a    *)
(* connection, another holds the turn for that connection and can move.    *)
SomeMarkerCanMove ==
    \A r \in Requests :
       job[r].pred # None =>
          \E q \in Requests : /\ At(q, "marking") \/ MarkTurn(q)
                              /\ job[q].account = job[r].account

(* How far a request has got in one pass over an account.                  *)
Stage(pc) == CASE pc = "choose" -> 7 [] pc = "execute" -> 6 [] pc = "upstream" -> 5
               [] pc \in {"failed", "cleared"} -> 4 [] pc \in {"queued", "settling"} -> 3
               [] pc = "marking" -> 2 [] pc = "waiting" -> 1 [] OTHER -> 0

(* k is nearer to the end of the loop than j: it has left the loop, or in  *)
(* this order of weight: a further attempt of those allowed, the one early *)
(* close spent, one more account excluded, a later stage.                  *)
Nearer(k, j) ==
    \/ k.pc \in {"idle", "cleared", "settling"} /\ Stage(k.pc) < Stage(j.pc)
    \/ j.attempt < k.attempt /\ k.attempt <= MaxRetries
    \/ /\ k.attempt = j.attempt
       /\ \/ k.early /\ ~j.early
          \/ /\ k.early = j.early
             /\ \/ j.excluded \subseteq k.excluded /\ j.excluded # k.excluded
                \/ k.excluded = j.excluded /\ Stage(k.pc) < Stage(j.pc)

Stands(k, j) == /\ k.pc = j.pc /\ k.attempt = j.attempt
                /\ k.early = j.early /\ k.excluded = j.excluded

(* The while loop of handleSingleModelChat cannot go round for ever: every *)
(* step a request takes brings it nearer to its end, in an order without   *)
(* infinite descent, and no step of another request or of the provider     *)
(* sends it back.                                                          *)
NobodyGoesBack ==
    [][\A r \in Requests : ~At(r, "idle") =>
          Nearer(job'[r], job[r]) \/ Stands(job'[r], job[r])]_vars

-----------------------------------------------------------------------------
(* "HALF_OPEN - Probing: limited requests allowed to test recovery": an    *)
(* upstream failure seen by a probe does not close the breaker.            *)
FailedProbeDoesNotClose ==
    [][\A r \in Requests :
         (/\ breaker.state = "HALF_OPEN"
          /\ At(r, "upstream") /\ job'[r].status = "down")
           => breaker'.state # "CLOSED"]_vars

(* "skip re-marking to avoid resetting the cooldown timer or               *)
(* double-incrementing the backoff level": no mark writes over a cooldown  *)
(* that is still running.                                                  *)
CooldownIsNotReset ==
    [][\A r \in Requests :
         (At(r, "marking") /\ At(r, "marking")' = FALSE /\ Cooling(job[r].account))
           => row'[job[r].account] = row[job[r].account]]_vars
=============================================================================
