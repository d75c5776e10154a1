--------------------------- MODULE CircuitBreaker ---------------------------
(***************************************************************************)
(* One provider circuit breaker (src/shared/utils/circuitBreaker.ts), its  *)
(* row in domain_circuit_breakers, and the calls in flight through         *)
(* execute().  The JavaScript event loop makes every synchronous stretch   *)
(* atomic: execute() is split at its await, so calls interleave, and a     *)
(* call that began while the breaker was CLOSED may end in any state.      *)
(*                                                                         *)
(* Date.now() - lastFailureTime is kept as an age that Tick advances.      *)
(***************************************************************************)
EXTENDS Integers, FiniteSets

CONSTANTS
    Calls,                 \* the concurrent calls of execute()
    Kinds,                 \* the failure kinds classifyError can answer
    NoKind,                \* lastFailureKind = null / kind undefined
    NoRow,                 \* no row in domain_circuit_breakers
    FailureThreshold,
    DegradationThreshold,
    ResetTimeout,
    HalfOpenRequests,
    MaxBackoffMultiplier,
    BackoffEscalationCount,
    CooldownByKind,        \* partial function Kinds -> cooldown
    KindThresholds,        \* partial function Kinds -> [threshold, immediateOpen]
    MaxFailures,           \* bound: failureCount and the per-kind counts
    MaxCycles,             \* bound: openCycleCount; they saturate here
    MaxAge                 \* bound: ages saturate here, above every cooldown

ASSUME ConfigAssumption ==
    /\ FailureThreshold \in Nat \ {0}
    /\ DegradationThreshold \in Nat \ {0}
    /\ DegradationThreshold <= FailureThreshold
    /\ ResetTimeout \in Nat
    /\ HalfOpenRequests \in Nat
    /\ MaxBackoffMultiplier \in Nat
    /\ BackoffEscalationCount \in Nat
    /\ NoKind \notin Kinds

ASSUME KindAssumption ==
    /\ DOMAIN CooldownByKind \subseteq Kinds
    /\ \A k \in DOMAIN CooldownByKind : CooldownByKind[k] \in Int
    /\ DOMAIN KindThresholds \subseteq Kinds
    /\ \A k \in DOMAIN KindThresholds :
          KindThresholds[k] \in [threshold : Nat, immediateOpen : BOOLEAN]

(* Counts above every threshold, and cycles whose multiplier is capped,    *)
(* behave alike: saturating there loses nothing.                           *)
ASSUME BoundAssumption ==
    /\ MaxFailures \in Nat /\ FailureThreshold <= MaxFailures
    /\ \A k \in DOMAIN KindThresholds : KindThresholds[k].threshold <= MaxFailures
    /\ MaxCycles \in Nat
    /\ MaxAge \in Nat

VARIABLES
    breaker,   \* the CircuitBreaker object
    db,        \* its persisted row
    calls,     \* per call of execute(): not begun / awaiting fn
    probes     \* history: calls admitted by the current HALF_OPEN window

vars == <<breaker, db, calls, probes>>

States == {"CLOSED", "DEGRADED", "OPEN", "HALF_OPEN"}
Never  == -1                                    \* lastFailureTime = null
Ages   == Nat \cup {Never}

Breakers == [state : States, failureCount : Nat, age : Ages,
             kind : Kinds \cup {NoKind}, halfOpenAllowed : Int,
             openCycleCount : Nat, kindCounts : [Kinds -> Nat]]

Rows == [state : States, failureCount : Nat, age : Ages,
         kind : Kinds \cup {NoKind}, openCycleCount : Nat,
         kindCounts : [Kinds -> Nat]]

Fresh == [state |-> "CLOSED", failureCount |-> 0, age |-> Never,
          kind |-> NoKind, halfOpenAllowed |-> 0,
          openCycleCount |-> 0, kindCounts |-> [k \in Kinds |-> 0]]

-----------------------------------------------------------------------------
(* What _persistToDb writes: halfOpenAllowed is not part of the row.       *)
Row(b) == [state |-> b.state, failureCount |-> b.failureCount, age |-> b.age,
           kind |-> b.kind, openCycleCount |-> b.openCycleCount,
           kindCounts |-> b.kindCounts]

(* What the constructor builds from the row.                               *)
Restore(row) ==
    IF row = NoRow THEN Fresh
    ELSE [state |-> row.state, failureCount |-> row.failureCount,
          age |-> row.age, kind |-> row.kind,
          halfOpenAllowed |-> IF row.state = "HALF_OPEN" THEN HalfOpenRequests ELSE 0,
          openCycleCount |-> row.openCycleCount, kindCounts |-> row.kindCounts]

Lesser(m, n) == IF m <= n THEN m ELSE n

(* Mutant: the backoff multiplier is not capped.                           *)
ResetTimeoutUncapped(b) ==
    IF b.openCycleCount <= BackoffEscalationCount
    THEN ResetTimeout
    ELSE ResetTimeout * 2^(b.openCycleCount - BackoffEscalationCount)

EffectiveResetTimeout(b) ==
    IF b.openCycleCount <= BackoffEscalationCount
    THEN ResetTimeout
    ELSE Lesser(ResetTimeout * 2^(b.openCycleCount - BackoffEscalationCount),
                ResetTimeout * MaxBackoffMultiplier)

EffectiveCooldown(b) ==
    IF b.kind \in DOMAIN CooldownByKind /\ CooldownByKind[b.kind] >= 0
    THEN CooldownByKind[b.kind]
    ELSE EffectiveResetTimeout(b)

ShouldAttemptReset(b) == b.age = Never \/ b.age >= EffectiveCooldown(b)

(* Mutant: entering HALF_OPEN grants no probe.                             *)
TransitionNoGrant(b, s) == [b EXCEPT !.state = s]

Transition(b, s) ==
    [b EXCEPT !.state = s,
              !.halfOpenAllowed = IF s = "HALF_OPEN" THEN HalfOpenRequests ELSE @]

(* Mutant: a HALF_OPEN breaker past its cooldown is granted its probes anew. *)
RefreshBlockedState(b) ==
    IF b.state \in {"OPEN", "HALF_OPEN"} /\ ShouldAttemptReset(b)
    THEN Transition(b, "HALF_OPEN") ELSE b

(* _refreshOpenState: OPEN expires lazily, when somebody looks.            *)
RefreshOpenState(b) ==
    IF b.state = "OPEN" /\ ShouldAttemptReset(b) THEN Transition(b, "HALF_OPEN") ELSE b

CanExecute(b) ==
    \/ b.state \in {"CLOSED", "DEGRADED"}
    \/ b.state = "HALF_OPEN" /\ b.halfOpenAllowed > 0

-----------------------------------------------------------------------------
(* Mutants: a closing breaker keeps its failure count, its cycle count.    *)
RecoveredWithCount(b) ==
    [Fresh EXCEPT !.failureCount = b.failureCount, !.age = b.age,
                  !.halfOpenAllowed = b.halfOpenAllowed]
RecoveredWithCycles(b) ==
    [Fresh EXCEPT !.openCycleCount = b.openCycleCount, !.age = b.age,
                  !.halfOpenAllowed = b.halfOpenAllowed]

(* The breaker closes: every counter is cleared, halfOpenAllowed is left   *)
(* (it is granted anew on the next half-open), and a successful probe      *)
(* keeps lastFailureTime.                                                  *)
Recovered(b) ==
    [Fresh EXCEPT !.age = b.age, !.halfOpenAllowed = b.halfOpenAllowed]

ResetBreaker(b) == [Fresh EXCEPT !.halfOpenAllowed = b.halfOpenAllowed]

(* Mutant: the gradual recovery goes below zero.                           *)
OneFewerUnclamped(b) == [b EXCEPT !.failureCount = @ - 1]

OneFewer(b) ==
    [b EXCEPT !.failureCount = IF @ > 0 THEN @ - 1 ELSE 0]

OnSuccess(b) ==
    CASE b.state = "OPEN"      -> ResetBreaker(b)
      [] b.state = "HALF_OPEN" -> Recovered(b)
      [] OTHER ->
            IF b.state = "DEGRADED" /\ OneFewer(b).failureCount <= DegradationThreshold
            THEN Transition(OneFewer(b), "CLOSED")
            ELSE OneFewer(b)

OneMore(n, bound) == IF n < bound THEN n + 1 ELSE n

Counted(b, k) ==
    [b EXCEPT !.failureCount = OneMore(@, MaxFailures), !.age = 0, !.kind = k,
              !.kindCounts = [j \in Kinds |->
                                IF j = k THEN OneMore(@[j], MaxFailures) ELSE @[j]]]

(* threshold || 1 for an immediate open, threshold || failureThreshold else *)
KindLimit(k) ==
    IF KindThresholds[k].threshold > 0 THEN KindThresholds[k].threshold
    ELSE IF KindThresholds[k].immediateOpen THEN 1 ELSE FailureThreshold

KindOpens(b, k) ==
    /\ k \in DOMAIN KindThresholds
    /\ Counted(b, k).kindCounts[k] >= KindLimit(k)

OnFailure(b, k) ==
    LET c == Counted(b, k) IN
    CASE KindOpens(b, k)       -> Transition(c, "OPEN")
      [] ~KindOpens(b, k) /\ b.state = "OPEN"      -> c
      [] ~KindOpens(b, k) /\ b.state = "HALF_OPEN" ->
            Transition([c EXCEPT !.openCycleCount = OneMore(@, MaxCycles)], "OPEN")
      [] OTHER ->
            IF c.failureCount >= FailureThreshold THEN Transition(c, "OPEN")
            ELSE IF b.state = "CLOSED" /\ c.failureCount >= DegradationThreshold
            THEN Transition(c, "DEGRADED")
            ELSE c

(* Mutant: a failure counted while OPEN is not written.                    *)
FailurePersistsUnlessOpen(b, k) == b.state # "OPEN"

(* The kind-threshold branches return before _persistToDb.                 *)
FailurePersists(b, k) == ~KindOpens(b, k)

-----------------------------------------------------------------------------
Init == /\ breaker = Fresh
        /\ db = NoRow
        /\ calls = [c \in Calls |-> "idle"]
        /\ probes = {}

(* The probes of a window are forgotten once the window is over.           *)
WindowProbes(old, new, admitted) ==
    IF new.state # "HALF_OPEN" THEN {}
    ELSE (IF old.state = "HALF_OPEN" THEN probes ELSE {}) \cup admitted

(* execute(fn) up to its await, when it is let through.                    *)
Begin(c) ==
    LET b    == RefreshOpenState(breaker)
        next == IF b.state = "HALF_OPEN"
                THEN [b EXCEPT !.halfOpenAllowed = @ - 1] ELSE b
    IN /\ calls[c] = "idle"
       /\ CanExecute(b)
       /\ breaker' = next
       /\ db' = IF b # breaker THEN Row(b) ELSE db
       /\ calls' = [calls EXCEPT ![c] = "running"]
       /\ probes' = WindowProbes(breaker, next, {c})

(* execute() when it throws CircuitBreakerOpenError, canExecute(),         *)
(* getStatus() and getRetryAfterMs(): only the lazy refresh shows.         *)
Inspect ==
    LET b == RefreshOpenState(breaker) IN
    /\ b # breaker
    /\ breaker' = b
    /\ db' = Row(b)
    /\ probes' = WindowProbes(breaker, b, {})
    /\ UNCHANGED calls

(* getCircuitBreaker(name, options): a lookup with options writes the row. *)
(* The options are the ones the breaker already has.                       *)
Lookup ==
    /\ db' = Row(breaker)
    /\ UNCHANGED <<breaker, calls, probes>>

End(c) == /\ calls[c] = "running"
          /\ calls' = [calls EXCEPT ![c] = "idle"]

Succeed(c) ==
    /\ End(c)
    /\ breaker' = OnSuccess(breaker)
    /\ db' = Row(OnSuccess(breaker))
    /\ probes' = WindowProbes(breaker, OnSuccess(breaker), {}) \ {c}

Fail(c, k) ==
    /\ End(c)
    /\ breaker' = OnFailure(breaker, k)
    /\ db' = IF FailurePersists(breaker, k) THEN Row(OnFailure(breaker, k)) ELSE db
    /\ probes' = WindowProbes(breaker, OnFailure(breaker, k), {}) \ {c}

(* fn rejected with an error isFailure() ignores (a client abort, a local  *)
(* stream-lifecycle error): execute() rethrows and touches nothing.        *)
Ignore(c) ==
    /\ End(c)
    /\ probes' = probes \ {c}
    /\ UNCHANGED <<breaker, db>>

(* _onSuccess() and _onFailure() called from outside execute(), as the     *)
(* chat handler and the combo engine do.                                   *)
CountSuccess ==
    /\ breaker' = OnSuccess(breaker)
    /\ db' = Row(OnSuccess(breaker))
    /\ probes' = WindowProbes(breaker, OnSuccess(breaker), {})
    /\ UNCHANGED calls

CountFailure(k) ==
    /\ breaker' = OnFailure(breaker, k)
    /\ db' = IF FailurePersists(breaker, k) THEN Row(OnFailure(breaker, k)) ELSE db
    /\ probes' = WindowProbes(breaker, OnFailure(breaker, k), {})
    /\ UNCHANGED calls

(* reset(), from POST /api/resilience/reset.                               *)
Reset ==
    /\ breaker' = ResetBreaker(breaker)
    /\ db' = Row(ResetBreaker(breaker))
    /\ probes' = {}
    /\ UNCHANGED calls

(* The process dies, losing the calls, and comes back from the row.        *)
Restart ==
    /\ breaker' = Restore(db)
    /\ calls' = [c \in Calls |-> "idle"]
    /\ probes' = {}
    /\ UNCHANGED db

Older(age) == IF age = Never \/ age >= MaxAge THEN age ELSE age + 1

Tick ==
    /\ breaker' = [breaker EXCEPT !.age = Older(@)]
    /\ db' = IF db = NoRow THEN NoRow ELSE [db EXCEPT !.age = Older(@)]
    /\ UNCHANGED <<calls, probes>>

-----------------------------------------------------------------------------
CallStep ==
    \E c \in Calls : \/ Begin(c)
                     \/ Succeed(c)
                     \/ \E k \in Kinds \cup {NoKind} : Fail(c, k)

Operator == Lookup \/ Reset \/ Restart

(* Every outcome counts: the calls never end in an ignored error.          *)
NextCounted == CallStep \/ Inspect \/ Operator \/ Tick

Next == \/ NextCounted
        \/ \E c \in Calls : Ignore(c)
        \/ CountSuccess
        \/ \E k \in Kinds \cup {NoKind} : CountFailure(k)

Spec        == Init /\ [][Next]_vars
SpecCounted == Init /\ [][NextCounted]_vars

(* Time passes, the provider keeps being asked for (every request calls    *)
(* canExecute, then execute), and every call in flight ends: executors     *)
(* time out.  No operator and no restart is needed, and none can prevent   *)
(* the recovery.                                                           *)
Ends(c) == \/ Succeed(c)
           \/ \E k \in Kinds \cup {NoKind} : Fail(c, k)

Fairness == /\ WF_vars(Tick)
            /\ WF_vars(Inspect)
            /\ \A c \in Calls : WF_vars(Ends(c))

FairSpec == SpecCounted /\ Fairness

-----------------------------------------------------------------------------
(* The breaker and its row are records of the class's fields.              *)
TypeOK == /\ breaker \in Breakers
          /\ db \in Rows \cup {NoRow}
          /\ calls \in [Calls -> {"idle", "running"}]
          /\ probes \in SUBSET Calls

(* The state says where the failure count lies: CLOSED at or below the     *)
(* degradation threshold, DEGRADED from it up to the failure threshold, so *)
(* that neither late results nor a restart leave the warning state or the  *)
(* normal state with a count that belongs to another one.                  *)
CountBands ==
    /\ breaker.state = "CLOSED" => breaker.failureCount <= DegradationThreshold
    /\ breaker.state = "DEGRADED" =>
          breaker.failureCount \in DegradationThreshold .. FailureThreshold - 1

(* A HALF_OPEN window lets at most halfOpenRequests probes run: those in   *)
(* flight and those still allowed never exceed it, whatever late results   *)
(* of earlier calls arrive meanwhile.                                      *)
ProbeBudget ==
    breaker.state = "HALF_OPEN" =>
        Cardinality(probes) + breaker.halfOpenAllowed <= HalfOpenRequests

(* The backoff multiplier belongs to an outage: once the breaker is CLOSED *)
(* or DEGRADED the cycle count is back to zero, so the next outage starts  *)
(* from the base reset timeout.                                            *)
CyclesEndWithOutage ==
    breaker.state \in {"CLOSED", "DEGRADED"} => breaker.openCycleCount = 0

(* "DB persistence": the row always describes the breaker, so that a crash *)
(* at any moment brings back the same state, counts, kind and clock.       *)
RowIsCurrent == \/ db = NoRow /\ breaker = Fresh
                \/ db # NoRow /\ db = Row(breaker)

(* Recovery: an OPEN breaker always stops blocking the provider, with      *)
(* nobody resetting it and however late results of old calls restart its   *)
(* cooldown.                                                               *)
OpenIsTriedAgain == (breaker.state = "OPEN") ~> (breaker.state # "OPEN")

(* A HALF_OPEN window is never spent with nobody probing: it has a probe   *)
(* left to hand out or one in flight whose result will decide.             *)
WindowIsLive ==
    breaker.state = "HALF_OPEN" => (breaker.halfOpenAllowed > 0 \/ probes # {})

(* A HALF_OPEN window goes dead, its probes spent and nobody probing, in   *)
(* one way only: the last probe in flight ends with an error isFailure()   *)
(* ignores, which gives the probe back to nobody.  No late result, crash,  *)
(* reset, refresh or count from outside leaves a window dead that was not. *)
WindowDiesOfIgnored ==
    [][WindowIsLive /\ ~WindowIsLive' => \E c \in Calls : probes = {c} /\ Ignore(c)]_vars

Edges == {<<"CLOSED", "DEGRADED">>, <<"DEGRADED", "CLOSED">>, <<"CLOSED", "OPEN">>,
          <<"DEGRADED", "OPEN">>, <<"OPEN", "HALF_OPEN">>, <<"HALF_OPEN", "OPEN">>,
          <<"HALF_OPEN", "CLOSED">>, <<"OPEN", "CLOSED">>}

(* An outage takes its course, whatever late results arrive in it: probing *)
(* begins from OPEN and not before the cooldown is over, a window's probes *)
(* are not granted anew while it lasts, a blocked breaker never comes back *)
(* DEGRADED, and one that closes forgets every failure.  Only a restart    *)
(* may do otherwise: it brings back what the row says.                     *)
OutageTakesItsCourse ==
    [][\/ breaker' = Restore(db)
       \/ /\ breaker'.state # breaker.state => <<breaker.state, breaker'.state>> \in Edges
          /\ breaker'.state = "HALF_OPEN" =>
                IF breaker.state = "HALF_OPEN"
                THEN breaker'.halfOpenAllowed <= breaker.halfOpenAllowed
                ELSE ShouldAttemptReset(breaker)
          /\ breaker.state \in {"OPEN", "HALF_OPEN"} /\ breaker'.state = "CLOSED" =>
                breaker'.failureCount = 0 /\ \A k \in Kinds : breaker'.kindCounts[k] = 0]_vars
=============================================================================
