# TLA+ specifications of the API Router

The router (OmniRoute) is an AI gateway written in TypeScript. A request names
a model; the router resolves a provider, picks one of the operator's accounts
("connections") for it, calls upstream, and falls back to another account,
another model or another provider when the call fails. Everything runs in one
Node.js process over one SQLite database, so a synchronous stretch of code is
atomic, and interleaving happens exactly at `await`, at timers and at callbacks.
SQLite is called synchronously, so a read or a write of a row belongs to the
stretch around it.

Paths below are paths in the repository. `open-sse/` holds the request engine,
`src/` the Next.js application, its database layer and shared services.

Contents: [inventory](#inventory), [modules](#the-modules),
[runs](#the-runs), [bounds](#bounds-and-why-they-are-enough),
[fairness](#fairness), [proofs](#what-is-proved),
[disagreements](#where-code-and-documents-disagree),
[left out](#what-is-not-modelled), [plan](#plan).

## Inventory

### Resilience: who may be called upstream

| Part | State | Operations | What makes it correct |
| --- | --- | --- | --- |
| Provider circuit breaker `src/shared/utils/circuitBreaker.ts` | per provider: state, failure count, last failure time and kind, probes left, cycle count; a row in `domain_circuit_breakers` | `execute`, `canExecute`, `_onSuccess`, `_onFailure`, `reset`, lazy refresh, restore, registry eviction | counts agree with the state, probes stay within the window, it recovers by itself, a restart does not forget an open breaker |
| Chat handler `src/sse/handlers/chat.ts`, `chatHelpers.ts` | per request: excluded accounts, last status | gate, select, execute, mark, count, fall back | repeated upstream failures open the breaker; a healthy account is not cooled for another's failure; every request ends |
| Connection cooldown `src/sse/services/auth.ts` | per connection row: `rateLimitedUntil`, `testStatus`, `backoffLevel`; mutex maps | select, mark unavailable, clear error | one mark at a time per connection, a failed connection stays out of selection |
| Model lockout `open-sse/services/accountFallback.ts` | lockouts and failure counts per provider, connection, model | lock, record failure, decay, clear, evict | cooldowns are not shortened, decay ends the lockout |
| Account semaphore `open-sse/services/accountSemaphore.ts` | per account: running, cap, FIFO queue, block, timers | acquire, release, time out, abort, block, reset, clean up | never above the cap, no waiter forgotten, first in first out |
| Rate-limit semaphore `open-sse/services/rateLimitSemaphore.ts` | per combo and target: running, max, queue, cooldown | acquire, release, time out, mark rate-limited | no slot lost or invented, no waiter forgotten, however gates are deleted under their timers |
| Refresh serializer `open-sse/services/refreshSerializer.ts` | a promise chain per rotation group | serialize | siblings never refresh at once, order of arrival, the lane never sticks |
| Token refresh `open-sse/services/tokenRefresh.ts`, `tokenRefresh/*` | per-connection mutex, rotation map, refresh breaker | refresh, persist with compare-and-set | a rotated token is not presented twice |
| Rate-limit manager and cooldown tracker `open-sse/services/rateLimitManager.ts`, `providerCooldownTracker.ts` | limiters learned from response headers, last-use times | schedule, learn, evict | a learned limit is respected, limiters are not evicted under queued jobs |
| Sliding-window limiter `open-sse/services/slidingWindowLimiter.ts` | hits per key | check and count, evict | never more than the limit per window |

### Routing: which target a request goes to

| Part | State | Operations | What makes it correct |
| --- | --- | --- | --- |
| Combo engine `open-sse/services/combo.ts`, `combo/*` | counters, sticky sessions, exhausted targets and failure records per combo | order targets, try, mark exhausted, retry after a cooldown | no target is tried twice in a pass, the loop ends, rotation is fair |
| Shuffle deck `src/shared/utils/shuffleDeck.ts` | a deck and a mutex per namespace | draw | every member is drawn once per deck |
| Quota sharing `open-sse/services/combo/quotaShare*.ts`, `src/lib/quota/*` | leases per connection, consumption buckets | choose, lease, consume, enforce | in-flight counts return to zero, a pool is not overspent |
| Token-limit counter `open-sse/services/tokenLimitCounter.ts` | tokens per key and period | reserve, record, roll over | a key's limit holds |
| Session pool `open-sse/services/sessionPool/*` | sessions with status, cooldown, in-flight count | acquire, release, cool, kill, warm up, prune | dead sessions stay dead, in-flight counts balance |
| Stream recovery `open-sse/services/streamRecovery.ts` | held-back bytes | hold, retry, release | nothing is released twice |

### Doing a request once

| Part | State | Operations | What makes it correct |
| --- | --- | --- | --- |
| Request deduplication `open-sse/services/requestDedup.ts` | in-flight promise per hash, timers | join, run, time out, evict | one upstream call per hash, an old end does not remove a newer entry |
| Idempotency layer `src/lib/idempotencyLayer.ts` | answer per key, with expiry | check, save | a repeated key gets the saved answer |
| Semantic cache, cache layer `src/lib/semanticCache.ts`, `cacheLayer.ts` | LRU with expiry over SQLite | get, set, evict | bounded, expired entries are not served |
| Connection read cache `src/lib/db/readCache.ts` | rows with a time to live | read, invalidate | a write is visible to the next read |

### Everything else

| Part | State | What makes it correct |
| --- | --- | --- |
| Batch processor `open-sse/services/batchProcessor.ts`, `src/lib/db/batches.ts` | batch rows, a checkpoint per line, `activeBatches` | no line is begun twice, a completed batch accounts for every line, every batch ends |
| Lockout policy `src/domain/lockoutPolicy.ts` | failed attempts per key | locked after the limit, unlocked in time |
| Workflow machine `open-sse/services/workflowFSM.ts` | a phase | only legal transitions |
| Graceful shutdown, service supervisor | in-flight count, child processes | drains, restarts with a limit |
| Database core, migrations, backups | files, schema version | synchronous I/O |
| Intercepting proxy, tunnels, webhooks | sockets, child processes | I/O |
| Memory, agent protocol, cloud agents, plugins | task tables | small life cycles |
| Translators, executors, compression | none to speak of | conversions of formats |
| Dashboard, command line, desktop and Android shells | user interface | not part of the request path |

### How the parts interact

A request runs through `handleSingleModelChat`: **gate** (breaker, model
lockout) -> **selection** (rows, cooldowns, lockouts, quota, under a promise
mutex) -> credentials refresh (refresh serializer, for an expiring token) ->
**`breaker.execute(handleChatCore)`** -> account semaphore or limiter -> the
executor's upstream call -> success: `clearAccountError`, `_onSuccess`, or
failure: `markAccountUnavailable` (under its own mutex), exclude, select again,
until nothing is left: wait for a cooldown and retry, or `_onFailure` and
answer. A combo calls that function once per target. Timers (block, cleanup,
queue timeout, settle delay) and health pages that look at the same breaker run
between any two of these steps; a process restart loses everything that is not
a row.

Hard behaviours: state checked before an `await` and used after it (breaker at
the gate, account row at selection, backoff level at the mark); results that
arrive late (a call begun under a CLOSED breaker ends under an OPEN one); hand-made
mutexes and queues over promises; timers that race with the operations they
belong to; failures returned as values inside wrappers that count exceptions;
crashes between a state change and its row. `PROJECT.json` lists them one by
one, at their lines, under `hazards`.

## The modules

The event loop makes every synchronous stretch of code atomic. An operation
with no `await` in it is one action; an operation with awaits is one action per
stretch, so everything else may happen between two of them.

| Module | Models |
| --- | --- |
| `CircuitBreaker` | `src/shared/utils/circuitBreaker.ts`: one provider's breaker, its row, the calls in flight |
| `RefreshLane` | abstract: a line of calls per rotation group, served one at a time |
| `RefreshSerializer` | `open-sse/services/refreshSerializer.ts`: the promise chain that implements `RefreshLane` |
| `FairSemaphore` | abstract: at most `Cap` holders, first come first served |
| `AccountSemaphore` | `open-sse/services/accountSemaphore.ts`: one key's gate, queue and timers; with one cap it implements `FairSemaphore` |
| `ChatFallback` | the credential retry loop of `chat.ts` with `chatHelpers.ts`, `auth.ts`, `cooldownAwareRetry.ts`: composes `CircuitBreaker` with the connection rows and the mark mutex |
| `BatchProcessor` | `open-sse/services/batchProcessor.ts` with the rows, checkpoints and routes of a batch, and crashes of the process |
| `TokenRefresh` | `open-sse/services/tokenRefresh.ts` with `tokenRefresh/*`, its callers in `chatCore.ts`, `base.ts`, `src/sse/services/tokenRefresh.ts`, and the sweep `src/lib/tokenHealthCheck.ts`, over one connection's row |
| `RoundRobin` | `handleRoundRobinCombo` of `open-sse/services/combo.ts` over `rateLimitSemaphore.ts` and `combo/rrState.ts` |
| `MC...` | instances for TLC: tables a configuration file cannot write, symmetry |
| `..._proofs` | theorems and their proofs |

**CircuitBreaker.** `breaker` has the fields of the class, `db` those of the row
(`halfOpenAllowed` is not persisted and is granted anew on restore). `execute()`
is `Begin` up to its await and `Succeed`, `Fail` or `Ignore` after it; a call
therefore ends in whatever state others left. `Inspect` is every look that only
performs the lazy OPEN to HALF_OPEN transition, `Lookup` the write that
`getCircuitBreaker` with options makes, `CountSuccess` and `CountFailure` the
direct `_onSuccess`/`_onFailure` calls of the chat handler and the combos,
`Restart` a crash and the constructor's restore. `Date.now() - lastFailureTime`
is an age that `Tick` advances. `probes` is a history variable: which calls the
present window admitted. An OPEN set by a kind threshold returns before
`_persistToDb`, as in the code (`FailurePersists`).

**RefreshSerializer.** Each call stands for its tail promise. `Enqueue` is the
stretch that reads the tail and replaces it, `MyTurn` the end of `await
prevTail`, `End`/`EndAndSettle` the end of `fn()` with or without the settle
delay, `Settled` the end of the delay; releasing the promise and collecting the
lane are one stretch. A failing `fn()` takes the same `finally` block, so it is
the same step.

**AccountSemaphore.** The gate is kept field by field; `maxConcurrency = 0`
stands for a key without a gate. `Drain` is the loop of `drainQueue` at once
(`Admissible` waiters). `blockTimers` holds the timers `markBlocked` started,
one tick past their deadline for the 50 ms the code adds; `blockedUntil = 0` is a
deadline that has passed and that `isBlocked` has not cleared yet, a state the
code distinguishes. `Release` works on whatever gate the key has by then, so a
release after `reset()` hits a stranger's gate, as in the code.

**ChatFallback.** A request slot is at one of its awaits:

| `pc` | between |
| --- | --- |
| `choose` | the gate passed; `getProviderCredentials` next |
| `waiting` | `waitForCooldownAwareRetry` |
| `execute` | connection chosen; token refresh and proxy resolution before `breaker.execute` |
| `upstream` | inside `breaker.execute(handleChatCore)` |
| `cleared` | `onRequestSuccess` has cleared the row; `execute` not yet resolved |
| `settling` | the result is back; the direct `_onSuccess` next |
| `failed` | a failed result in the loop |
| `queued` | `markAccountUnavailable` behind the mark before it |
| `marking` | the row is read, settings awaited, the update not yet written |

`row` is the `provider_connections` row (status, cooldown left, backoff level,
scope of the last error), `tail` the map `markMutexes`. The provider's breaker is
an instance of `CircuitBreaker` in which a call of `execute()` is a request at
`upstream` or `cleared`. Upstream failures come in the kinds the handler treats
differently (`Returned`, which lists them): one that trips the breaker and cools
the connection, one that only cools, one that ends the request (`bad`), a 400 this
model cannot serve, a terminal 401/402/403, a 401 or 403 the connection recovers
from (`unauthorized`: an OAuth token no longer valid, a project route error, the
401 of a cookie session), the handler's own timeout, a client abort, an early end
of stream; an unreachable proxy is thrown instead. A
selection may pick any usable connection, which covers every strategy.

**BatchProcessor.** The rows (status, counts, checkpoints, files, input) survive
a crash; `activeBatches`, the poller's pass and the workers do not. A worker is
`processBatchItems` of one batch, at one of its awaits:

| `pc` | between |
| --- | --- |
| `starting` | `startBatch` has added it to `activeBatches`; `resolveApiKey` |
| `next` | at the head of the item loop |
| `throttled` | the pause that an earlier answer's headers asked for |
| `calling` | the line is marked `processing` and handed to the provider |
| `backoff` | the pause between two attempts of one call |

A pass of the poller (`BeginPass` to `EndPass`) awaits only functions that never
leave the microtask queue, so routes and answers of providers fall between two
passes; crashes fall anywhere, also between two writes of one function
(`CrashInStart`, `CrashInRecord`, `CrashInFinalize`). `known` is the map of
checkpoints the worker read when it started, with its own results; a line's
`completed` checkpoint is split into `succeeded` and `refused` by the status
the provider answered. `InitFrom` admits rows of a release before the
checkpoints (migration 112), stopped while it worked.

**TokenRefresh.** One connection of a provider whose refresh token changes with
every exchange; tokens are numbered as they are issued. A *flight* is the promise
that a caller put into `connectionRefreshMutex`; it runs on after its caller gave
it up (`withTimeout` cancels nothing). Its stages are `checking` (the dynamic
import before the row is read), `queued` (in the lane of `refreshSerializer`, the
token chosen), and `answered`. A caller is `reactive` (a 401 in `chatCore.ts`, the
only one with a guard and retries), `proactive`, or the `sweep`; it is `holding`
the row it read, `waiting` for a flight, its own or joined, in the `delay` between
two tries, or `settled` with the flight's answer. Callers go on from a finished
flight within the microtask queue, so `Settle` precedes everything but a crash.
`Login` is an operator who authenticates the account anew. `sent`, `excused` and
`granted` are history: how often the provider saw a token, which spent tokens
somebody may have to present again and for which of the named reasons, and which
tokens come from an authentication.

**RoundRobin.** A request of the combo is `idle`, at the `next` target, `queued`
for one of its slots, `calling` (a retry and its delay keep slot and state), in
the `wait` before the fallback, `spent` (one attempt too many), or `ended`. Which
targets are skipped is left open (`Skip`): no credentials, cooling, exhausted.
`gate[t]` is the semaphore's entry, `NoGate` its absence; `acquire` writes the
caller's cap into it, `markRateLimited` the default one. `timers[t]` are the
cooldown timers of that entry; a timer of an entry that has been deleted since
fires at any time, on whatever entry the target has by then (`StrayFires`).
`Init` admits a sticky batch already under way. `earned` is history: the turns a
target may still have.

## The runs

Run `tlc -workers 2 -config X.cfg M` in this directory.

| Run (configuration, module) | Checks | Shows |
| --- | --- | --- |
| `breaker` (`CircuitBreaker.cfg`, `MCCircuitBreaker`) | `TypeOK`, `CountBands`, `ProbeBudget`, `CyclesEndWithOutage`, `WindowDiesOfIgnored` | with three interleaved calls, late and ignored results, kind thresholds, resets and restarts, the failure count fits the state, a half-open window keeps to its probes and goes dead only when the last of them ends in an ignored error, the backoff ends with the outage |
| `breaker_counted` (`CircuitBreakerCounted.cfg`) | `RowIsCurrent`, `OpenIsTriedAgain` | when every outcome is counted and no kind threshold is set: a crash at any moment restores the breaker that was lost, an OPEN breaker is tried again |
| `serializer` (`RefreshSerializer.cfg`, `MCRefreshSerializer`) | `TypeOK`, `ChainInvariant`, `MutualExclusion`, `QueuedSiblingWaitsForGap`, `ImplementsLane` | siblings exclude each other, in order of arrival; every call is served; a queued sibling gets its gap |
| `account_semaphore` (`AccountSemaphore.cfg`, `MCAccountSemaphore`) | `TypeOK`, `QueueIsWaiters`, `SlotsMatchHolders`, `NoStrandedWaiter`, `IdleGateIsForgotten`, `GrantsWithinCap`, `BlockHolds` | four requests, two caps, overlapping blocks, timeouts, aborts and resets: no ghost, no lost slot, nobody waits for nothing, no gate leaks; whoever is granted a slot, by acquiring or from a release, is granted it within the cap then in force and not before the last deadline of a block |
| `account_semaphore_fair` (`AccountSemaphoreFair.cfg`) | `ImplementsFairSemaphore` | without blocks and resets the gate is a fair semaphore, liveness included |
| `chat` (`ChatFallback.cfg`, `MCChatFallback`) | `TypeOK`, `ImplementsCircuitBreaker`, `FallbackLeavesACooldown` | two requests over two connections: the loop uses the breaker only as `CircuitBreaker` allows; a request that falls back from a connection leaves it out of selection, whoever marked it, unless it failed in one of the two ways the code does not cool for |
| `chat_live` (`ChatFallbackLive.cfg`) | `RequestsEnd`, `OpenIsTriedAgain` | two requests contend for one connection, with early closes, timeouts of the handler, unreachable proxies, mark queues, cooldown waits and restarts: each ends, and a breaker that stragglers keep failing is tried again |
| `chat_probe` (`ChatFallbackProbe.cfg`) | violation of `FailedProbeDoesNotClose` | a probe answered with a 5xx closes the breaker |
| `chat_mutex` (`ChatFallbackMutex.cfg`) | violation of `CooldownIsNotReset` | a third marker runs beside the second and restarts its cooldown |
| `batch` (`BatchProcessor.cfg`, `MCBatchProcessor`) | `TypeOK`, `SentByOneCall`, `CompletedAccountsForAll`, `WithinConcurrency`, `CountsFollowRecords`, `TerminalIsFinal`, `EveryBatchEnds` | two batches contend for one slot, with cancellations, deletions, a lost or malformed input, retries, pauses, old rows and a crash between any two writes: a line is sent again only as a retry within its one call, the counts a client reads never run ahead of the checkpoints, what a completed batch reports agrees with them, every batch ends |
| `token_refresh` (`TokenRefresh.cfg`, `MCTokenRefresh`) | `TypeOK`, `OneRefreshPerConnection`, `ReplayNeedsACause`, `DeactivatedOnlyDead`, `MutexFreed` | two callers of any kind, with timeouts, retries, lost answers, a new authentication and a crash: one refresh at a time; a spent token is presented again only for a named cause; an account with a live token is not taken out of use; the mutex comes free |
| `round_robin` (`RoundRobin.cfg`, `MCRoundRobin`) | `TypeOK`, `GatesSound`, `TurnsAreEarned` | three requests over two targets, with queues, timeouts, cooldowns, retries, disconnects and timers that outlive their gate: slots and queues agree with the requests, a waiter is always woken by somebody, no target has a turn its predecessor did not give it |

Every property of a passing run has a mutant, an operator in the same module
marked `Mutant:` that changes one definition the way a plausible bug would
(`PROJECT.json`, `mutants`); the property is violated once the mutant takes the
place of the definition.

Deadlock is checked in every run but `token_refresh`: time, lookups and arrivals
can always go on. An account taken out of use that nobody authenticates again
really is the end, so there the check is off.

## Bounds, and why they are enough

- **Breaker.** Counts saturate at `MaxFailures`, cycles at `MaxCycles`, ages at
  `MaxAge`. A count at or above the failure threshold, a cycle count whose
  multiplier has reached its cap and an age past every cooldown are each
  compared only with those limits, so the values above them behave alike and
  saturation merges equal futures. Thresholds 2 and 3 leave room for every band
  (CLOSED below, at, DEGRADED, OPEN, counts above); two probes and three calls
  give a straggler beside a full window. `BackoffEscalationCount = 0` and a
  multiplier of 3 reach the base timeout, a doubled one and the cap.
- **Serializer.** Four calls over two groups and a provider without a group:
  head, middle and tail of one chain beside another chain, and a call made again
  while its siblings run.
- **Account semaphore.** Four requests, caps 1 and 2, a queue of two: holders,
  waiters and one that is refused, with the cap lowered under its holders. Two
  cooldowns make a shorter and a longer block overlap. In the fair run two
  holders and a queue of three take five requests: a waiter may give up from the
  head, the middle or the end of the line.
- **Chat.** Two requests and two connections for fallback: both on one
  connection, each on its own, one falling back onto the other's. One
  connection for liveness, where contention is all that matters. In both runs
  an unreachable proxy, which every request may meet, stands for the failures
  that cool a connection for the provider's fault; `chat` adds the other
  ways a mark can end (no fallback; no cooldown, by a 400 or by a recoverable 401
  or 403; terminal), `chat_live` the two
  ways past the mark. A returned 5xx takes one half from each (a result counted
  as a success, a mark that cools); it is what the two violations are run
  with, and `TypeCorrect` and `BreakerImplemented` cover every outcome. The
  mutex violation needs three requests. Thresholds of one make the breaker
  open within the run; cooldowns of one tick with one backoff step
  distinguish past, running and longer. The `chat_live` run retries once
  (`MaxRetries = 1`), the others not at all.

- **Batch.** One batch of two lines (one recorded, one in hand at a crash) and one
  of a single line that waits for its slot; two attempts; one crash, after which
  every recovery path runs. `Answers` lets a line that was sent succeed or be
  refused; one whose dispatch throws is recorded as an interrupted line is, which
  recovery does in the run (`GiveUpInterrupted`). `Deletable` lets a client delete
  the input of the longer batch only. Both are there for the cost of the liveness
  check; the theorems hold for every answer, every input, and any number of each.
- **Token refresh.** Two callers: one to start a flight and one to join it, or
  the same caller's later try beside its abandoned flight. Three tokens: one
  spent, its successor, and one from a second rotation or an authentication,
  which a late answer can be older than. Two tries, so that a timeout is
  followed by a retry; one crash. `sent` saturates at two.
- **Round robin.** Three requests (two rotating and interchangeable, one that
  comes while sticky rotation is on) and two targets: a holder, a waiter and one
  refused by a queue of one. Caps of 1 and a default of 2 let a cooldown change
  the cap; one cooldown of one tick is past, running or not yet cleared. One
  retry and two attempts reach both limits, a batch of two both its ends.

## Fairness

Fairness is stated on the steps the runtime performs by itself, never on
failures, restarts, operators or client aborts.

- `CircuitBreaker!FairSpec`: time passes; the provider keeps being asked for,
  since every request of the provider starts with `canExecute` (the code has no
  timer: an OPEN breaker that nobody asks for stays OPEN); every call in flight
  ends, since the executors have upstream timeouts.
- `RefreshSerializer!FairSpec`: a resolved promise runs its continuation, a
  timer fires, a refresh request ends (the HTTP client's own timeouts bound it).
- `AccountSemaphore!FairSpec`: a holder releases. `chatCore` releases when the
  response or the stream ends.
- `ChatFallback!FairSpec`: time passes, the event loop runs each handler on,
  and new requests come. Weak fairness on a whole handler (`Handle(r)`) is
  enough: it is enabled whenever the request can go on, and its wait for a mark
  or a cooldown must end by itself, which is what `RequestsEnd` shows.
- `BatchProcessor!FairSpec`: the poll timer fires and its pass runs to its end;
  a worker's awaits end (`SF`, because a pass may be in the way each time it
  could go on, though never for longer than its own callback). Crashes are
  bounded, and nobody has to cancel or delete.
- `TokenRefresh!FairSpec`: a settled caller runs on (`WF`); a flight goes on
  (`SF`, because callers settle in between): its import and lane end, and the HTTP
  client's timeouts end its request. Nobody has to start or give up.
- The breaker's fair specification excludes ignored errors and direct counts
  (`NextCounted`): after an ignored error the half-open window can be lost, and
  the breaker refuses everybody until something else frees it. In `chat_live` both occur: an OPEN breaker is still tried
  again there, and requests still end, because one that meets a lost half-open
  window is refused and falls back.

## What is proved

TLC checks the instances above; the theorems hold for every value of the
constants that satisfies the named assumptions of each module. All proofs are
checked by TLAPS with Z3, Zenon and LS4.

**`CircuitBreaker_proofs`** (from `ConfigAssumption`, `KindAssumption`,
`BoundAssumption`): `TypeCorrect`, `CountsStayInBand`, `CyclesEnd`,
`ProbesStayInBudget`. `CountBands` is not inductive alone: `Restart` brings back
the row, which may be older than the breaker (a kind threshold opens without
writing), so the invariant `IInv` says of the row what it says of the breaker
(`HealthyRow`), and of `halfOpenAllowed` that it never goes below zero. The
probe budget needs the set of probes to be finite. The proof has one lemma per
operator of the class (it keeps a healthy breaker healthy) and one step per
action. `WindowLost` says that of all steps only an ignored error of the last
probe leaves a half-open window dead (`WindowDiesOfIgnored`), provided a window
grants a probe at all. For the breaker whose every outcome is counted,
`WindowStaysLive` (no window is ever dead) and `RowStaysCurrent` (no kind
thresholds, `NoRow` no row) follow step by step from the same invariant;
`RowStaysCurrent` rests on a row surviving restore and write (`RowOfRestored`)
though it leaves out `halfOpenAllowed`. `OutageInOrder` says how the breaker may move: which changes of
state there are, that probing waits for the cooldown and grants its probes once,
that a close forgets every failure. A restart, which brings back the row whatever
the breaker was, is the one exception.

**`RefreshSerializer_proofs`** (from `SerializerAssumption`): `TypeCorrect`, `ChainAlways`,
`RefreshesExclude`, `GapKept`, and `LanesLive`, that a lane is in the map exactly
while one of its calls is live, which follows from `ChainInvariant`. Mutual exclusion says nothing of
the waiting calls, so it cannot be inductive. `ChainInvariant` describes the
whole chain: one head per group, no two calls behind the same promise, the tail
a live call nobody waits for, no circle among the waiting. The head of a chain
is the only call that may refresh, which gives exclusion.

`LaneImplemented` is the step part of `ImplementsLane`: the chain takes only steps
of `RefreshLane`. The mapping reads the line of a group off the chain, from the
tail backwards, by a recursive function (`LineUpTo`). That its equation has a
solution at all is an induction over the chain, which the prover cannot do; it is
carried along as an invariant (`LineInv`) instead, the next state's solution being
written down from the present one. That the solution is unique follows from
there being no circle (`Grounded`). Then each step is read off: `Enqueue` appends, `MyTurn` begins the
first, a release drops it.

**`AccountSemaphore_proofs`** (from `SemaphoreAssumption` and a finite set of
requests): `TypeCorrect`, `QueueCorrect`, `SlotsCorrect`, `NobodyStranded`,
`GatesForgotten`, `CapHeld`, `HoldersWithinCap`, `BlockHeld`. The stranded-waiter and idle-gate
invariants share one reason, that a block still on has a timer that outlasts it
(`BlockIsTimed`), and that a key without a gate is empty (`NoGateIsEmpty`).
A grant (`Granted(r)`) is a step after which `r` holds a slot and before which it
did not, so a release that hands its slot to one waiter is a grant although the
number of holders stays the same. `CapHeld` says of every grant that the gate
counts it (`Uncounted` holders grow no more) and counts no more than the cap in
force, above a lowered cap and after resets too. What a reset breaks is that the
count is that of the holders, so only without resets does it follow that the
holders keep to the cap (`HoldersWithinCap`); after one the code does exceed it.
`BlockHeld` covers the same grants: during a block there is none but by an explicit
unblock.
`OrderKept` (`SlotsInOrder`): caps, blocks and resets of any kind change who waits,
never the order. `FairSemaphoreImplemented` is the step
part of `ImplementsFairSemaphore`, for any cap and any number of requests. It assumes
`OneCapNoBlocks`, the case the abstract semaphore describes (one cap, no cooldowns,
no resets), and adds to `IInv` that somebody waits only while every slot is taken
(`QueueMeansFull`), so that a release passes its slot on to exactly one waiter.

**`ChatFallback_proofs`** (from `ChatAssumption`, `BreakerAssumption`):
`TypeCorrect`; `FallbackLeaves`; `BreakerImplemented`, that every step of the retry loop is a step
of `CircuitBreaker` or leaves the breaker alone; and `ProviderBreakerSound`,
which carries the invariants of `CircuitBreaker_proofs` over to the breaker that
`chat.ts` drives. The type invariant is what the implementation needs: a
request at `upstream` or `cleared` and no other is a call of `execute()`, and the
other moves leave that set alone (`GotoSameCalls`, `LeaveMarkSameCalls`).
`FallbackLeaves` proves `FallbackLeavesACooldown`: only the two steps that end a
mark exclude an account (`MovesExclude`), one having found it out of selection,
the other putting it there (`MarksLeaveOut`), except for the failures in `Uncooled`. It assumes `DoublingIsPositive`
(`2^n > 0` up to `MaxBackoffSteps`), true arithmetic for which the provers have no
rule.
`MarksQueueSoundly` and `MutexNeverStuck` are about the mark mutex, whose `finally`
block deletes the map entry whoever it belongs to. Exclusion is lost by that (see
below), but not progress: the promises still form lines without circles, each
waiter behind a live mark of its connection, and so somebody can always move.
`MarkQueueSound` is inductive beside the type invariant. `LoopOnlyAdvances`
(`NobodyGoesBack`) orders the states of a request so that every step it takes
descends: by attempts allowed, the one early close, accounts left to exclude, and
the place in a pass. Nobody else's step takes it back, so the `while` loop ends
once the event loop keeps running it; TLC checks that last part (`RequestsEnd`).
`Proved` instantiates the proof module, and `SameSpec` says that its renamed
definitions are those of `CB`.

**`BatchProcessor_proofs`** (from `BatchAssumption` and a finite set of batches):
`TypeCorrect`, `NothingReplayed`, `CompletedCorrect`, `ConcurrencyHeld`,
`TerminalCorrect`, for any number of batches, lines, workers and crashes.
`SentByOneCall` (`NothingReplayed`) speaks of the provider, which the program
cannot see: `calls` counts every dispatch of a line, retries included, and the
dispatches never exceed the attempts of one call. The invariant ties it to the rows: a line whose checkpoint is unstarted has
not been sent, unless its batch is one that recovery refuses (`Sent`,
`Unsendable`), and the worker's copy of the checkpoints agrees with the rows
except for the line it has in hand (`Current`, `Placed`). The limit on running
batches needs the poller's `activeCount` never to fall below what runs
(`SlotsInv`), and that what recovery is about to reset does not run (`TodoInv`).
One lemma per action keeps all of it. Three theorems rest on the same invariant.
`ActiveCorrect`: `activeBatches` is the set of running workers, none of which runs on
a row that waits to be started again. `RecordsKept`: a recorded result is never
written over; the addition is that the line a worker has in hand is marked
`processing`, so its write finds no result (`InHand`). `CountsCorrect`: the counts in the
row never run ahead of the recorded results; the addition is `Follows`, which
also bounds the total and gives a batch whose input is invalid no completed line.

**`TokenRefresh_proofs`** (from `RefreshAssumption`): `TypeCorrect`,
`RefreshesExclude`, `ReplaysAreCaused`, `DeactivationsAreDue`, for any number of
callers, tokens, tries and crashes. Flights exclude each other because the mutex
is the one flight (`MutexIsFlight`). The replay theorem needs more: a token in
the lane has not been seen by the provider, or is excused (`QueuedIsNew`), and so
has the row's, unless a flight is answered with its successor (`SpentRow`). The
theorem on deactivation needs that no flight runs while callers settle
(`SettledFirst`), and that the token of a refused refresh was the row's, unless
the row has none or one of a new authentication (`RefusedFlight`,
`RefusedCaller`). `NobodyWaitsInVain` (`WaitersHaveTheFlight`): every waiting caller
waits for the flight the mutex names, though callers give up, come again and
join (`Joined`, beside the invariant above).

**`RoundRobin_proofs`** (from `RoundRobinAssumption`, `FiniteRequests`):
`TypeCorrect`, `SlotsSound`, `TurnsEarned`, for any number of requests and
targets. Counts and queues agreeing with the requests is inductive; that
somebody wakes the first in line is not. The invariant gives every waiter a
reason (`Reasoned`: a cap of at least one, and a holder or a cooldown) and every
cooldown a timer that lasts at least as long (`Timed`), which hold through
deletions because a deleted gate has neither. The turns need that the target at
the counter always has one in hand (`earned[counter] >= 1`). Three theorems are about
single steps, from the same invariant. `CapKept`: no slot is given beyond the cap as
it then stands, nor during a cooldown; the last caller or a mark may have set that
cap, and slots taken under a larger one stay out. `TurnsInLine`: of those in line
nobody is served before one ahead. A newcomer whose acquire raises the cap may
pass the line, as in the code; order holds among the waiters. `LoopsEnd`
(`RequestsOnlyAdvance`): a request moves only towards its answer, by targets left,
attempts, and stage.

**Proved, and stated by no run.** `SlotsInOrder`, `MarkQueueSound`,
`SomeMarkerCanMove`, `NobodyGoesBack`, `WaitersHaveTheFlight`, `ActiveIsRunning`,
`RecordsAreFinal`, `SlotsGivenWithinCap`, `SlotsGivenInTurn`, `RequestsOnlyAdvance`,
`OutageTakesItsCourse` and `WindowIsLive` stand in the component modules and are
stated by theorems. No configuration lists them; to see one on a small instance,
add its name to the `INVARIANTS` or `PROPERTIES` of the component's configuration
(`WindowIsLive` to that of `breaker_counted`: ignored errors break it). The
statement of `HoldersWithinCap` has no name of its own.

**Only model-checked.** Liveness: `OpenIsTriedAgain` (twice), `RequestsEnd`,
`EveryBatchEnds`, `MutexFreed`, and the fairness of `ImplementsLane` and
`ImplementsFairSemaphore` (`FairSpec` is `Spec`, which is proved, and fairness), because
the prover has no rules for `WF`, `SF` and `ENABLED`. For the same reason the
theorems that a loop only advances or that somebody can move say nothing of
when. `2^n > 0` (`DoublingIsPositive`) is an assumption of `FallbackLeaves`. The two
disagreements below are counterexamples, which only a run can show.

## Where code and documents disagree

Two runs end in a violation of what the repository says of itself.
`PROJECT.json` quotes the lines.

- `chat_probe`: HALF_OPEN probes are "to test recovery". `handleChatCore`
  returns failures, so `execute()` counts a 5xx as a success and closes.
- `chat_mutex`: the mark mutex should keep marks from running in parallel and a
  cooldown from being reset. The `finally` block deletes the map entry without
  looking whose it is.

Seen in the models and stated by no run:

- *Breaker.* A probe that ends in an error `isFailure` ignores never returns its
  slot; the breaker then refuses everybody until an operator, a restart or a
  straggler frees it, though the guide (`docs/architecture/RESILIENCE_GUIDE.md`)
  says that no timer is needed. A kind threshold opens the breaker without
  persisting it (no caller sets kind thresholds today). A CLOSED breaker without
  failures may still carry counts per kind, which the gradual recovery never
  lowers. The registry's sweep drops a healthy breaker while requests hold it;
  they go on counting on an object nobody else asks, and writing its row.
- *Chat and connections.* A refusal by the breaker is reported as a 503 of the
  selected connection, which nobody called and which is cooled. A recoverable 401
  or 403 leaves its connection neither cooling nor terminal, so the next request
  may select it at once and fail on it again.
  `clearAccountError` may overwrite a terminal status set while its call was
  running; selection decays the backoff level before the next failure reads it.
- *Account semaphore.* A newcomer that clears an expired block itself takes a
  slot, and the block's timer then skips the drain, so waiters stay queued beside
  a free slot until somebody releases. `reset()` forgets running holders, so the
  cap may be exceeded afterwards.
- *Batch.* A worker sends one more line after a cancellation it met in a throttle
  pause, and goes on retrying one after it; `failBatch` turns a cancelled batch into
  a failed one; files written before a crash in `finalizeBatch` are never deleted,
  since the row that should name them does not and the orphan cleanup looks for
  another purpose; an empty batch that
  crashes while finalizing is failed on recovery, and one whose window or input
  has gone by then loses recorded answers with it.
- *Token refresh.* The guard skips a persist even when the row holds the token
  just spent; `chatCore.ts` then takes "persist did not run" for "not my flight"
  and writes the row anyway. After a late success of its first try, the rotation
  of its second is neither persisted nor written. Callers without a guard may
  write an older rotation over a newer row. One that joins a failing flight with
  a token authenticated meanwhile takes the healthy account out of use, the one
  exception `DeactivatedOnlyDead` makes. Each of the joiners of one failing
  flight counts it for the refresh breaker.
- *Round robin.* `markRateLimited` resets the gate's cap to the default, so a
  drain can admit more than the connection's cap until the next acquire. The last
  release deletes the gate and with it a cooldown still running, so the next
  acquire is admitted at once. Gates are per combo and target, so two targets on
  one connection do not share its cap. With prompt-cache affinity the counter
  records a position in an order of that request's own.
- *Quota sharing.* The strategy's ordering increments a connection's in-flight
  count and drops the function that would decrement it
  (`combo/applyStrategyOrdering.ts`).

## What is not modelled

In `ChatFallback`: combo legs, forced connections and live combo tests (they
bypass the gate), shadow traffic, the antigravity branches, the fallback on a
full account semaphore, the emergency fallback to another model, daily-quota
locks, per-model lockouts (those for a 403 and for a 404 of a local provider
included) and codex scopes, cooldowns until a known quota reset, `disableCooling`, session affinity,
upstream retry hints, the marks that a stream broken after its start makes
(`onStreamFailure`), and the stale read cache in front of the rows. In
`CircuitBreaker`: eviction and sweep of the registry, options changed at run
time. In `AccountSemaphore`: nothing that changes a key's state; keys are
independent, so `resetAll` is `Reset` of each. In `BatchProcessor`: the deletion
of files 30 days after a batch ended, SQLite writes that fail for another reason
than the checkpoint's foreign key, token usage. In `TokenRefresh`:
deduplication by token hash for callers without a connection, failures of a
persist, the counts of the refresh breaker (`NoRefresh` is its refusal), the
lane shared with sibling connections (`RefreshSerializer` models it), the
schedule and backoff of the sweep. In `RoundRobin`: a number of
targets that differs from request to request as filters leave some out, the last-resort pass over
targets rejected as incompatible, reordering for prompt-cache affinity, shadow
requests, eviction of the counters of other combos, the reasons a target is
skipped, `resetAll`; the other strategies of the combo engine.

The parts of the inventory without a module are listed in `PROJECT.json` with
status `not_modelled` and the reason: planned below, or input and output,
conversions of formats, user interface. By lines these are nearly all of the
repository: dashboard pages, format translators, one executor per provider and
tables of models. The modules therefore cover a small share of its lines, chosen
where two steps of the request engine meet.

## Plan

Done, in this order: `CircuitBreaker`, `RefreshSerializer`, `AccountSemaphore`,
`ChatFallback`, `BatchProcessor`, `TokenRefresh`, `RoundRobin`, each with its
runs and its theorems.

Next, most important first:

1. `ModelLockout`: lock, record, decay, clear, evict. To prove: a running
   lockout is never shortened; bounded maps.
2. `QuotaShareInflight` and `QuotaStore`: leases and buckets over several
   requests; counts return to zero.
3. `SessionPool`, `RequestDedup` with the idempotency store, `SlidingWindow`,
   `ShuffleDeck`: queues and maps over promises.
4. `ComboFallback`: the loop of the priority strategies over targets, composed
   with an abstract `ChatFallback` per target.
5. `StreamRecovery` with the marks of broken streams, `BreakerRegistry`,
   `ReadCache`, `RateLimitManager`, `TokenLimitCounter`, and the small machines
   (`WorkflowFSM`, lockout policy).

Proofs to come: one inductive invariant per new module, stated and checked by
TLC with the module's first run, and the steps of any abstraction it implements.
