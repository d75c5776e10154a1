------------------------ MODULE CircuitBreaker_proofs ------------------------
(* Proofs about CircuitBreaker for every number of calls, every set of     *)
(* failure kinds and every configuration ConfigAssumption admits.          *)
EXTENDS CircuitBreaker, FiniteSetTheorems, TLAPS

USE ConfigAssumption, KindAssumption, BoundAssumption DEF Never

(* The count bands, the cycle count and the types, said of any record with *)
(* the fields of a breaker or of a row.                                    *)
InBand(b) ==
    /\ b.state = "CLOSED" => b.failureCount <= DegradationThreshold
    /\ b.state = "DEGRADED" =>
          b.failureCount \in DegradationThreshold .. FailureThreshold - 1
    /\ b.state \in {"CLOSED", "DEGRADED"} => b.openCycleCount = 0

Healthy(b) == b \in Breakers /\ b.halfOpenAllowed \in Nat /\ InBand(b)

HealthyRow(r) == r = NoRow \/ (r \in Rows /\ InBand(r))

Budget == breaker.state = "HALF_OPEN" =>
              Cardinality(probes) + breaker.halfOpenAllowed <= HalfOpenRequests

IInv == /\ Healthy(breaker)
        /\ HealthyRow(db)
        /\ calls \in [Calls -> {"idle", "running"}]
        /\ probes \in SUBSET Calls
        /\ IsFiniteSet(probes)
        /\ Budget

-----------------------------------------------------------------------------
(* The operators of the class keep a breaker healthy.                      *)

LEMMA FreshHealthy ==
  /\ Healthy(Fresh) /\ Fresh.state = "CLOSED"
  /\ Fresh.failureCount = 0 /\ Fresh.openCycleCount = 0
  BY DEF Healthy, Fresh, Breakers, States, Ages, InBand

LEMMA TransitionFields ==
  ASSUME NEW b \in Breakers, NEW s \in States, b.halfOpenAllowed \in Nat
  PROVE  /\ Transition(b, s) \in Breakers
         /\ Transition(b, s).halfOpenAllowed \in Nat
         /\ s = "HALF_OPEN" => Transition(b, s).halfOpenAllowed = HalfOpenRequests
         /\ Transition(b, s).state = s
         /\ Transition(b, s).failureCount = b.failureCount
         /\ Transition(b, s).openCycleCount = b.openCycleCount
  <1> DEFINE h == IF s = "HALF_OPEN" THEN HalfOpenRequests ELSE b.halfOpenAllowed
  <1>1. h \in Nat /\ h \in Int /\ (s = "HALF_OPEN" => h = HalfOpenRequests)
    OBVIOUS
  <1>2. Transition(b, s) = [b EXCEPT !.state = s, !.halfOpenAllowed = h]
    BY DEF Transition
  <1> HIDE DEF h
  <1>3. QED
    BY <1>1, <1>2 DEF Breakers

LEMMA RefreshHealthy ==
  ASSUME NEW b, Healthy(b)
  PROVE  /\ Healthy(RefreshOpenState(b))
         /\ RefreshOpenState(b) # b =>
               /\ RefreshOpenState(b).state = "HALF_OPEN"
               /\ RefreshOpenState(b).halfOpenAllowed = HalfOpenRequests
               /\ b.state = "OPEN"
  <1>1. CASE b.state = "OPEN" /\ ShouldAttemptReset(b)
    <2>1. RefreshOpenState(b) = Transition(b, "HALF_OPEN")
      BY <1>1 DEF RefreshOpenState
    <2>2. QED
      BY <1>1, <2>1, TransitionFields DEF Healthy, InBand, States
  <1>2. CASE ~(b.state = "OPEN" /\ ShouldAttemptReset(b))
    BY <1>2 DEF RefreshOpenState
  <1>3. QED
    BY <1>1, <1>2

LEMMA RecoveredHealthy ==
  ASSUME NEW b, Healthy(b)
  PROVE  /\ Healthy(Recovered(b)) /\ Recovered(b).state = "CLOSED"
         /\ Healthy(ResetBreaker(b)) /\ ResetBreaker(b).state = "CLOSED"
  BY FreshHealthy DEF Healthy, Recovered, ResetBreaker, Breakers, InBand

LEMMA OneFewerFields ==
  ASSUME NEW b, Healthy(b)
  PROVE  /\ OneFewer(b) \in Breakers
         /\ OneFewer(b).halfOpenAllowed \in Nat
         /\ OneFewer(b).failureCount \in Nat
         /\ OneFewer(b).failureCount <= b.failureCount
         /\ OneFewer(b).state = b.state
         /\ OneFewer(b).openCycleCount = b.openCycleCount
  BY DEF Healthy, OneFewer, Breakers

LEMMA OnSuccessHealthy ==
  ASSUME NEW b, Healthy(b)
  PROVE  Healthy(OnSuccess(b)) /\ OnSuccess(b).state # "HALF_OPEN"
  <1>1. b.state \in States
    BY DEF Healthy, Breakers
  <1>2. CASE b.state = "OPEN"
    BY <1>2, RecoveredHealthy DEF OnSuccess
  <1>3. CASE b.state = "HALF_OPEN"
    BY <1>3, RecoveredHealthy DEF OnSuccess
  <1>4. CASE b.state \in {"CLOSED", "DEGRADED"}
    <2>1. b.state # "OPEN" /\ b.state # "HALF_OPEN"
      BY <1>4
    <2>2. CASE b.state = "DEGRADED" /\ OneFewer(b).failureCount <= DegradationThreshold
      <3>1. OnSuccess(b) = Transition(OneFewer(b), "CLOSED")
        BY <2>1, <2>2 DEF OnSuccess
      <3>2. QED
        BY <1>4, <2>2, <3>1, OneFewerFields, TransitionFields DEF Healthy, InBand, States
    <2>3. CASE ~(b.state = "DEGRADED" /\ OneFewer(b).failureCount <= DegradationThreshold)
      <3>1. OnSuccess(b) = OneFewer(b)
        BY <2>1, <2>3 DEF OnSuccess
      <3>2. b.failureCount \in Nat
        BY DEF Healthy, Breakers
      <3>3. QED
        BY <1>4, <2>3, <3>1, <3>2, OneFewerFields DEF Healthy, InBand
    <2>4. QED
      BY <2>2, <2>3
  <1>5. QED
    BY <1>1, <1>2, <1>3, <1>4 DEF States

LEMMA OneMoreNat ==
  ASSUME NEW n \in Nat, NEW bound \in Nat
  PROVE  OneMore(n, bound) \in Nat /\ n <= OneMore(n, bound)
  BY DEF OneMore

LEMMA CountedFields ==
  ASSUME NEW b, Healthy(b), NEW k \in Kinds \cup {NoKind}
  PROVE  /\ Counted(b, k) \in Breakers
         /\ Counted(b, k).halfOpenAllowed \in Nat
         /\ Counted(b, k).failureCount = OneMore(b.failureCount, MaxFailures)
         /\ Counted(b, k).state = b.state
         /\ Counted(b, k).openCycleCount = b.openCycleCount
  <1> DEFINE z == [j \in Kinds |-> IF j = k THEN OneMore(b.kindCounts[j], MaxFailures)
                                    ELSE b.kindCounts[j]]
             m == OneMore(b.failureCount, MaxFailures)
  <1>1. b \in Breakers /\ b.halfOpenAllowed \in Nat
    BY DEF Healthy
  <1>2. z \in [Kinds -> Nat]
    BY <1>1, OneMoreNat DEF Breakers
  <1> DEFINE d == [b EXCEPT !.failureCount = m, !.age = 0]
  <1>3. Counted(b, k) = [d EXCEPT !.kind = k, !.kindCounts = z]
    BY DEF Counted
  <1>4. /\ d \in Breakers /\ d.halfOpenAllowed \in Nat
        /\ d.failureCount = m
        /\ d.state = b.state /\ d.openCycleCount = b.openCycleCount
    <2>1. 0 \in Ages /\ m \in Nat
      BY <1>1, OneMoreNat DEF Breakers, Ages
    <2> HIDE DEF m
    <2>2. QED
      BY <1>1, <2>1 DEF Breakers
  <1> HIDE DEF z, d, m
  <1>5. /\ Counted(b, k) \in Breakers
        /\ Counted(b, k).halfOpenAllowed \in Nat
        /\ Counted(b, k).failureCount = m
        /\ Counted(b, k).state = b.state
        /\ Counted(b, k).openCycleCount = b.openCycleCount
    BY <1>2, <1>3, <1>4 DEF Breakers
  <1>6. QED
    BY <1>5 DEF m

LEMMA OnFailureHealthy ==
  ASSUME NEW b, Healthy(b), NEW k \in Kinds \cup {NoKind}
  PROVE  Healthy(OnFailure(b, k)) /\ OnFailure(b, k).state # "HALF_OPEN"
  <1> DEFINE c == Counted(b, k)
  <1>1. /\ c \in Breakers /\ c.halfOpenAllowed \in Nat
        /\ c.failureCount = OneMore(b.failureCount, MaxFailures)
        /\ c.state = b.state /\ c.openCycleCount = b.openCycleCount
    BY CountedFields
  <1>2. /\ b.state \in States /\ b.failureCount \in Nat
        /\ c.failureCount \in Nat /\ b.failureCount <= c.failureCount
    <2>1. b.state \in States /\ b.failureCount \in Nat
      BY DEF Healthy, Breakers
    <2>2. /\ OneMore(b.failureCount, MaxFailures) \in Nat
          /\ b.failureCount <= OneMore(b.failureCount, MaxFailures)
      BY <2>1, OneMoreNat
    <2> HIDE DEF c
    <2>3. QED
      BY <1>1, <2>1, <2>2
  <1>3. ASSUME OnFailure(b, k) = Transition(c, "OPEN")
        PROVE  Healthy(OnFailure(b, k)) /\ OnFailure(b, k).state # "HALF_OPEN"
    BY <1>1, <1>3, TransitionFields DEF Healthy, InBand, States
  <1>4. CASE KindOpens(b, k)
    <2>1. OnFailure(b, k) = Transition(c, "OPEN")
      BY <1>4 DEF OnFailure
    <2>2. QED
      BY <1>3, <2>1
  <1>5. CASE ~KindOpens(b, k) /\ b.state = "OPEN"
    <2>1. OnFailure(b, k) = c
      BY <1>5 DEF OnFailure
    <2>2. QED
      BY <1>1, <1>5, <2>1 DEF Healthy, InBand
  <1>6. CASE ~KindOpens(b, k) /\ b.state = "HALF_OPEN"
    <2> DEFINE d == [c EXCEPT !.openCycleCount = OneMore(@, MaxCycles)]
    <2>1. OnFailure(b, k) = Transition(d, "OPEN")
      BY <1>6 DEF OnFailure
    <2>2. d \in Breakers /\ d.halfOpenAllowed \in Nat
      <3>1. c.openCycleCount \in Nat
        BY <1>1 DEF Breakers
      <3>2. OneMore(c.openCycleCount, MaxCycles) \in Nat
        BY <3>1, OneMoreNat
      <3> HIDE DEF c
      <3>3. QED
        BY <1>1, <3>2 DEF Breakers
    <2> HIDE DEF d
    <2>3. QED
      BY <2>1, <2>2, TransitionFields DEF Healthy, InBand, States
  <1>7. CASE ~KindOpens(b, k) /\ b.state \in {"CLOSED", "DEGRADED"}
    <2>1. OnFailure(b, k) =
            IF c.failureCount >= FailureThreshold THEN Transition(c, "OPEN")
            ELSE IF b.state = "CLOSED" /\ c.failureCount >= DegradationThreshold
            THEN Transition(c, "DEGRADED") ELSE c
      BY <1>7 DEF OnFailure
    <2>2. CASE c.failureCount >= FailureThreshold
      BY <1>3, <2>1, <2>2
    <2>3. CASE /\ c.failureCount < FailureThreshold
               /\ b.state = "CLOSED" /\ c.failureCount >= DegradationThreshold
      <3>1. OnFailure(b, k) = Transition(c, "DEGRADED")
        BY <1>1, <1>2, <2>1, <2>3
      <3>2. b.openCycleCount = 0
        BY <2>3 DEF Healthy, InBand
      <3> HIDE DEF c
      <3>3. QED
        BY <1>1, <1>2, <2>3, <3>1, <3>2, TransitionFields DEF Healthy, InBand, States
    <2>4. CASE /\ c.failureCount < FailureThreshold
               /\ ~(b.state = "CLOSED" /\ c.failureCount >= DegradationThreshold)
      <3>1. OnFailure(b, k) = c
        BY <1>1, <1>2, <2>1, <2>4
      <3> HIDE DEF c
      <3>2. QED
        BY <1>1, <1>2, <1>7, <2>4, <3>1 DEF Healthy, InBand
    <2> HIDE DEF c
    <2>5. QED
      BY <1>1, <1>2, <2>2, <2>3, <2>4
  <1>8. QED
    BY <1>2, <1>4, <1>5, <1>6, <1>7 DEF States

LEMMA RowHealthy ==
  ASSUME NEW b, Healthy(b)
  PROVE  HealthyRow(Row(b))
  BY DEF Healthy, HealthyRow, Row, Rows, Breakers, InBand

LEMMA RestoreHealthy ==
  ASSUME NEW r, HealthyRow(r)
  PROVE  /\ Healthy(Restore(r))
         /\ Restore(r).state = "HALF_OPEN" =>
               Restore(r).halfOpenAllowed = HalfOpenRequests
  <1>1. CASE r = NoRow
    BY <1>1, FreshHealthy DEF Restore
  <1>2. CASE r # NoRow /\ r \in Rows /\ InBand(r)
    BY <1>2 DEF Restore, Healthy, InBand, Rows, Breakers
  <1>3. QED
    BY <1>1, <1>2 DEF HealthyRow

LEMMA OlderType == ASSUME NEW a \in Ages PROVE Older(a) \in Ages
  BY DEF Older, Ages

-----------------------------------------------------------------------------
(* Every step keeps the inductive invariant.                               *)
LEMMA InitIInv == Init => IInv
  BY FreshHealthy, FS_EmptySet DEF Init, IInv, HealthyRow, Budget

LEMMA StepIInv == IInv /\ [Next]_vars => IInv'
  <1> SUFFICES ASSUME IInv, [Next]_vars PROVE IInv'
    OBVIOUS
  <1> USE DEF IInv
  <1>1. ASSUME NEW c \in Calls, Begin(c) PROVE IInv'
    <2> DEFINE b == RefreshOpenState(breaker)
               n == IF b.state = "HALF_OPEN"
                    THEN [b EXCEPT !.halfOpenAllowed = @ - 1] ELSE b
    <2>1. /\ CanExecute(b) /\ breaker' = n
          /\ db' = IF b # breaker THEN Row(b) ELSE db
          /\ calls' = [calls EXCEPT ![c] = "running"]
          /\ probes' = WindowProbes(breaker, n, {c})
      BY <1>1 DEF Begin
    <2>2. Healthy(b) /\ (b # breaker => /\ b.state = "HALF_OPEN"
                                        /\ b.halfOpenAllowed = HalfOpenRequests
                                        /\ breaker.state = "OPEN")
      BY RefreshHealthy
    <2> HIDE DEF b
    <2>3. HealthyRow(db')
      BY <2>1, <2>2, RowHealthy
    <2>4. CASE b.state = "HALF_OPEN"
      <3>1. b.halfOpenAllowed > 0 /\ b \in Breakers /\ b.halfOpenAllowed \in Nat
        BY <2>1, <2>2, <2>4 DEF CanExecute, Healthy
      <3>2. /\ n \in Breakers /\ n.state = "HALF_OPEN"
            /\ n.halfOpenAllowed = b.halfOpenAllowed - 1
        BY <2>4, <3>1 DEF Breakers
      <3>3. Healthy(n)
        BY <3>1, <3>2 DEF Healthy, InBand
      <3> DEFINE old == IF breaker.state = "HALF_OPEN" THEN probes ELSE {}
      <3>4. probes' = old \cup {c}
        BY <2>1, <3>2 DEF WindowProbes
      <3>5. /\ IsFiniteSet(old) /\ old \in SUBSET Calls
            /\ Cardinality(old) + b.halfOpenAllowed <= HalfOpenRequests
        <4>1. CASE b = breaker
          BY <2>4, <4>1 DEF Budget
        <4>2. CASE b # breaker
          BY <2>2, <4>2, FS_EmptySet
        <4>3. QED
          BY <4>1, <4>2
      <3> HIDE DEF old
      <3>6. /\ IsFiniteSet(old \cup {c})
            /\ Cardinality(old) \in Nat
            /\ Cardinality(old \cup {c}) =
                 IF c \in old THEN Cardinality(old) ELSE Cardinality(old) + 1
        BY <3>5, FS_AddElement, FS_CardinalityType
      <3> HIDE DEF n
      <3>7. Cardinality(probes') + n.halfOpenAllowed <= HalfOpenRequests
        BY <3>1, <3>2, <3>4, <3>5, <3>6
      <3>8. QED
        BY <2>1, <2>3, <3>3, <3>4, <3>5, <3>6, <3>7 DEF Budget
    <2>5. CASE b.state # "HALF_OPEN"
      <3>1. n = b
        BY <2>5
      <3>2. probes' = {}
        BY <2>1, <2>5, <3>1 DEF WindowProbes
      <3>3. QED
        BY <2>1, <2>2, <2>3, <2>5, <3>1, <3>2, FS_EmptySet DEF Budget
    <2>6. QED
      BY <2>4, <2>5
  <1>2. ASSUME NEW c \in Calls, Succeed(c) PROVE IInv'
    <2>1. Healthy(OnSuccess(breaker)) /\ OnSuccess(breaker).state # "HALF_OPEN"
      BY OnSuccessHealthy
    <2>2. probes' = {} /\ breaker' = OnSuccess(breaker)
      BY <1>2, <2>1 DEF Succeed, WindowProbes
    <2>3. calls' \in [Calls -> {"idle", "running"}] /\ HealthyRow(db')
      BY <1>2, <2>1, RowHealthy DEF Succeed, End
    <2>4. QED
      BY <2>1, <2>2, <2>3, FS_EmptySet DEF Budget
  <1>3. ASSUME NEW c \in Calls, NEW k \in Kinds \cup {NoKind}, Fail(c, k) PROVE IInv'
    <2>1. Healthy(OnFailure(breaker, k)) /\ OnFailure(breaker, k).state # "HALF_OPEN"
      BY OnFailureHealthy
    <2>2. probes' = {} /\ breaker' = OnFailure(breaker, k)
      BY <1>3, <2>1 DEF Fail, WindowProbes
    <2>3. calls' \in [Calls -> {"idle", "running"}] /\ HealthyRow(db')
      BY <1>3, <2>1, RowHealthy DEF Fail, End
    <2>4. QED
      BY <2>1, <2>2, <2>3, FS_EmptySet DEF Budget
  <1>4. ASSUME NEW c \in Calls, Ignore(c) PROVE IInv'
    <2>1. /\ breaker' = breaker /\ db' = db /\ probes' = probes \ {c}
          /\ calls' \in [Calls -> {"idle", "running"}]
      BY <1>4 DEF Ignore, End
    <2>2. /\ IsFiniteSet(probes \ {c}) /\ Cardinality(probes) \in Nat
          /\ Cardinality(probes \ {c}) =
               IF c \in probes THEN Cardinality(probes) - 1 ELSE Cardinality(probes)
      BY FS_RemoveElement, FS_CardinalityType
    <2>3. breaker.halfOpenAllowed \in Nat
      BY DEF Healthy
    <2>4. QED
      BY <2>1, <2>2, <2>3 DEF Budget
  <1>5. ASSUME Inspect PROVE IInv'
    <2>1. /\ Healthy(RefreshOpenState(breaker))
          /\ RefreshOpenState(breaker).halfOpenAllowed = HalfOpenRequests
          /\ breaker.state = "OPEN"
      BY <1>5, RefreshHealthy DEF Inspect
    <2>2. probes' = {} /\ breaker' = RefreshOpenState(breaker) /\ UNCHANGED calls
      BY <1>5, <2>1 DEF Inspect, WindowProbes
    <2>3. HealthyRow(db')
      BY <1>5, <2>1, RowHealthy DEF Inspect
    <2>4. QED
      BY <2>1, <2>2, <2>3, FS_EmptySet DEF Budget
  <1>6. CASE Lookup
    BY <1>6, RowHealthy DEF Lookup, Budget
  <1>7. CASE Reset
    BY <1>7, RecoveredHealthy, RowHealthy, FS_EmptySet DEF Reset, Budget
  <1>8. CASE Restart
    <2>1. Healthy(breaker') /\ probes' = {} /\ db' = db
      BY <1>8, RestoreHealthy DEF Restart
    <2>2. Budget'
      BY <1>8, <2>1, RestoreHealthy, FS_EmptySet DEF Restart, Budget
    <2>3. QED
      BY <1>8, <2>1, <2>2, FS_EmptySet DEF Restart
  <1>9. CASE Tick
    <2>1. Older(breaker.age) \in Ages
      BY OlderType DEF Healthy, Breakers
    <2>2. breaker' = [breaker EXCEPT !.age = Older(breaker.age)]
      BY <1>9 DEF Tick
    <2>3. /\ Healthy(breaker') /\ breaker'.state = breaker.state
          /\ breaker'.halfOpenAllowed = breaker.halfOpenAllowed
      BY <2>1, <2>2 DEF Healthy, Breakers, InBand
    <2>4. HealthyRow(db')
      <3>1. CASE db = NoRow
        BY <1>9, <3>1 DEF Tick, HealthyRow
      <3>2. CASE db # NoRow
        <4>1. db \in Rows /\ InBand(db) /\ Older(db.age) \in Ages
          BY <3>2, OlderType DEF HealthyRow, Rows
        <4>2. db' = [db EXCEPT !.age = Older(db.age)]
          BY <1>9, <3>2 DEF Tick
        <4>3. db' \in Rows /\ InBand(db')
          BY <4>1, <4>2 DEF Rows, InBand
        <4>4. QED
          BY <4>3 DEF HealthyRow
      <3>3. QED
        BY <3>1, <3>2
    <2>5. QED
      BY <1>9, <2>3, <2>4 DEF Tick, Budget
  <1>10. CASE CountSuccess
    <2>1. Healthy(OnSuccess(breaker)) /\ OnSuccess(breaker).state # "HALF_OPEN"
      BY OnSuccessHealthy
    <2>2. QED
      BY <1>10, <2>1, RowHealthy, FS_EmptySet DEF CountSuccess, WindowProbes, Budget
  <1>11. ASSUME NEW k \in Kinds \cup {NoKind}, CountFailure(k) PROVE IInv'
    <2>1. Healthy(OnFailure(breaker, k)) /\ OnFailure(breaker, k).state # "HALF_OPEN"
      BY OnFailureHealthy
    <2>2. probes' = {} /\ breaker' = OnFailure(breaker, k) /\ UNCHANGED calls
      BY <1>11, <2>1 DEF CountFailure, WindowProbes
    <2>3. HealthyRow(db')
      BY <1>11, <2>1, RowHealthy DEF CountFailure
    <2>4. QED
      BY <2>1, <2>2, <2>3, FS_EmptySet DEF Budget
  <1>12. CASE UNCHANGED vars
    BY <1>12 DEF vars, Budget
  <1>13. QED
    BY <1>1, <1>2, <1>3, <1>4, <1>5, <1>6, <1>7, <1>8, <1>9, <1>10, <1>11, <1>12
       DEF Next, NextCounted, CallStep, Operator

LEMMA Invariance == Spec => []IInv
  BY InitIInv, StepIInv, PTL DEF Spec

-----------------------------------------------------------------------------
(* Type correctness of the breaker, its row and the calls in flight.       *)
THEOREM TypeCorrect == Spec => []TypeOK
  <1>1. IInv => TypeOK
    BY DEF IInv, TypeOK, Healthy, HealthyRow
  <1>2. QED
    BY <1>1, Invariance, PTL

(* The failure count always lies in the band of the state: late results,   *)
(* kind thresholds, restarts from an older row and resets included.        *)
THEOREM CountsStayInBand == Spec => []CountBands
  <1>1. IInv => CountBands
    BY DEF IInv, CountBands, Healthy, InBand
  <1>2. QED
    BY <1>1, Invariance, PTL

(* Backoff escalation never outlives the outage it belongs to.             *)
THEOREM CyclesEnd == Spec => []CyclesEndWithOutage
  <1>1. IInv => CyclesEndWithOutage
    BY DEF IInv, CyclesEndWithOutage, Healthy, InBand
  <1>2. QED
    BY <1>1, Invariance, PTL

(* No interleaving of begun, late and ignored calls exceeds the number of  *)
(* probes a half-open window may run.                                      *)
THEOREM ProbesStayInBudget == Spec => []ProbeBudget
  <1>1. IInv => ProbeBudget
    BY DEF IInv, ProbeBudget, Budget
  <1>2. QED
    BY <1>1, Invariance, PTL

-----------------------------------------------------------------------------
(* When every outcome is counted the calls' steps are among those of Next. *)
LEMMA InvarianceCounted == SpecCounted => []IInv
<1>1. [NextCounted]_vars => [Next]_vars
  BY DEF Next
<1>2. QED
  BY <1>1, InitIInv, StepIInv, PTL DEF SpecCounted

LEMMA StepWindow ==
  ASSUME HalfOpenRequests > 0, IInv, WindowIsLive, [NextCounted]_vars
  PROVE  WindowIsLive'
<1> USE DEF WindowIsLive
<1>1. ASSUME NEW c \in Calls, Begin(c) PROVE WindowIsLive'
  BY <1>1 DEF Begin, WindowProbes
<1>2. ASSUME NEW c \in Calls, Succeed(c) PROVE WindowIsLive'
  BY <1>2, OnSuccessHealthy DEF Succeed, IInv
<1>3. ASSUME NEW c \in Calls, NEW k \in Kinds \cup {NoKind}, Fail(c, k) PROVE WindowIsLive'
  BY <1>3, OnFailureHealthy DEF Fail, IInv
<1>4. CASE Inspect
  BY <1>4, RefreshHealthy DEF Inspect, IInv
<1>5. CASE Reset
  BY <1>5, RecoveredHealthy DEF Reset, IInv
<1>6. CASE Restart
  BY <1>6, RestoreHealthy DEF Restart, IInv
<1>7. CASE Tick
  <2>1. /\ breaker'.state = breaker.state
        /\ breaker'.halfOpenAllowed = breaker.halfOpenAllowed
    BY <1>7 DEF Tick, IInv, Healthy, Breakers
  <2>2. QED
    BY <1>7, <2>1 DEF Tick
<1>8. CASE Lookup \/ UNCHANGED vars
  BY <1>8 DEF Lookup, vars
<1>9. QED
  BY <1>1, <1>2, <1>3, <1>4, <1>5, <1>6, <1>7, <1>8 DEF NextCounted, CallStep, Operator

(* When every outcome is counted, a half-open window is never spent with   *)
(* nobody probing: results of old calls, resets and restarts included.     *)
THEOREM WindowStaysLive ==
  ASSUME HalfOpenRequests > 0
  PROVE  SpecCounted => []WindowIsLive
<1>1. Init => WindowIsLive
  BY FreshHealthy DEF Init, WindowIsLive
<1>2. IInv /\ WindowIsLive /\ [NextCounted]_vars => WindowIsLive'
  BY StepWindow
<1>3. QED
  BY <1>1, <1>2, InvarianceCounted, PTL DEF SpecCounted

(* Of all the ways a call may end and the breaker be looked at, only an    *)
(* ignored error of the last probe in flight leaves a window dead.         *)
THEOREM WindowLost ==
  ASSUME HalfOpenRequests > 0
  PROVE  Spec => WindowDiesOfIgnored
<1> DEFINE Lost == \E c \in Calls : probes = {c} /\ Ignore(c)
<1>1. ASSUME IInv, [Next]_vars, WindowIsLive, ~WindowIsLive' PROVE Lost
  <2>1. CASE [NextCounted]_vars
    BY <1>1, <2>1, StepWindow
  <2>2. ASSUME NEW c \in Calls, Ignore(c) PROVE Lost
    <3>1. breaker' = breaker /\ probes' = probes \ {c}
      BY <2>2 DEF Ignore
    <3>2. probes # {} /\ probes \ {c} = {}
      BY <1>1, <3>1 DEF WindowIsLive
    <3>3. probes = {c}
      BY <3>2
    <3>4. QED
      BY <2>2, <3>3
  <2>3. CASE CountSuccess
    BY <1>1, <2>3, OnSuccessHealthy DEF CountSuccess, IInv, WindowIsLive
  <2>4. ASSUME NEW k \in Kinds \cup {NoKind}, CountFailure(k) PROVE Lost
    BY <1>1, <2>4, OnFailureHealthy DEF CountFailure, IInv, WindowIsLive
  <2>5. QED
    BY <1>1, <2>1, <2>2, <2>3, <2>4 DEF Next
<1>2. IInv /\ [Next]_vars => [WindowIsLive /\ ~WindowIsLive' => Lost]_vars
  BY <1>1
<1>3. QED
  BY <1>2, Invariance, PTL DEF Spec, WindowDiesOfIgnored

-----------------------------------------------------------------------------
(* The row of a restored breaker is the one it was restored from, and      *)
(* only halfOpenAllowed escapes it.                                        *)
LEMMA RowOfRestored ==
  ASSUME NEW b \in Breakers, Row(b) # NoRow
  PROVE  Row(Restore(Row(b))) = Row(b)
  BY DEF Row, Restore, Breakers

LEMMA RowForgetsProbes ==
  ASSUME NEW b \in Breakers, NEW h \in Int
  PROVE  Row([b EXCEPT !.halfOpenAllowed = h]) = Row(b)
  BY DEF Row, Breakers

LEMMA RowIsARow ==
  ASSUME NEW b \in Breakers
  PROVE  Row(b) \in Rows
  BY DEF Row, Rows, Breakers

LEMMA StepRow ==
  ASSUME DOMAIN KindThresholds = {}, NoRow \notin Rows,
         IInv, RowIsCurrent, [NextCounted]_vars
  PROVE  RowIsCurrent'
<1> USE DEF RowIsCurrent
<1>1. ASSUME NEW b, Healthy(b), breaker' = b, db' = Row(b) PROVE RowIsCurrent'
  BY <1>1, RowIsARow DEF Healthy
<1>2. ASSUME NEW c \in Calls, Begin(c) PROVE RowIsCurrent'
  <2> DEFINE b == RefreshOpenState(breaker)
             n == IF b.state = "HALF_OPEN"
                  THEN [b EXCEPT !.halfOpenAllowed = @ - 1] ELSE b
  <2>1. breaker' = n /\ db' = IF b # breaker THEN Row(b) ELSE db
    BY <1>2 DEF Begin
  <2>2. b \in Breakers /\ b.halfOpenAllowed \in Nat
    BY RefreshHealthy DEF IInv, Healthy
  <2> HIDE DEF b
  <2>3. b.halfOpenAllowed - 1 \in Int
    BY <2>2
  <2>4. Row(n) = Row(b)
    BY <2>2, <2>3, RowForgetsProbes
  <2>5. CASE db' = Row(b)
    BY <2>1, <2>2, <2>4, <2>5, RowIsARow
  <2>6. CASE db' # Row(b)
    <3>1. b = breaker /\ db' = db /\ db = NoRow /\ breaker = Fresh
      BY <2>1, <2>6
    <3>2. n = Fresh
      BY <3>1, FreshHealthy
    <3>3. QED
      BY <2>1, <3>1, <3>2
  <2>7. QED
    BY <2>5, <2>6
<1>3. ASSUME NEW c \in Calls, Succeed(c) PROVE RowIsCurrent'
  BY <1>1, <1>3, OnSuccessHealthy DEF Succeed, IInv
<1>4. ASSUME NEW c \in Calls, NEW k \in Kinds \cup {NoKind}, Fail(c, k) PROVE RowIsCurrent'
  <2>1. FailurePersists(breaker, k)
    BY DEF FailurePersists, KindOpens
  <2>2. QED
    BY <1>1, <1>4, <2>1, OnFailureHealthy DEF Fail, IInv
<1>5. CASE Inspect
  BY <1>1, <1>5, RefreshHealthy DEF Inspect, IInv
<1>6. CASE Lookup
  BY <1>1, <1>6 DEF Lookup, IInv
<1>7. CASE Reset
  BY <1>1, <1>7, RecoveredHealthy DEF Reset, IInv
<1>8. CASE Restart
  <2>1. CASE db = NoRow
    BY <1>8, <2>1 DEF Restart, Restore
  <2>2. CASE db # NoRow
    BY <1>8, <2>2, RowOfRestored DEF Restart, IInv, Healthy
  <2>3. QED
    BY <2>1, <2>2
<1>9. CASE Tick
  <2>1. CASE db = NoRow /\ breaker = Fresh
    <3>1. Older(breaker.age) = breaker.age
      BY <2>1 DEF Fresh, Older
    <3>2. breaker' = breaker /\ db' = db
      BY <1>9, <2>1, <3>1 DEF Tick, Fresh
    <3>3. QED
      BY <2>1, <3>2
  <2>2. CASE db # NoRow /\ db = Row(breaker)
    <3> DEFINE a == Older(breaker.age)
    <3>1. breaker \in Breakers /\ a \in Ages
      BY OlderType DEF IInv, Healthy, Breakers
    <3>2. breaker' = [breaker EXCEPT !.age = a]
      BY <1>9 DEF Tick
    <3>3. db' = [Row(breaker) EXCEPT !.age = a]
      BY <1>9, <2>2 DEF Tick, Row
    <3> HIDE DEF a
    <3>4. breaker' \in Breakers /\ db' = Row(breaker')
      BY <3>1, <3>2, <3>3 DEF Row, Breakers
    <3>5. QED
      BY <3>4, RowIsARow
  <2>3. QED
    BY <2>1, <2>2
<1>10. CASE UNCHANGED vars
  BY <1>10 DEF vars
<1>11. QED
  BY <1>2, <1>3, <1>4, <1>5, <1>6, <1>7, <1>8, <1>9, <1>10 DEF NextCounted, CallStep, Operator

(* With no kind threshold set and every outcome counted, a crash at any    *)
(* moment finds the row of the breaker it destroys (_persistToDb).         *)
THEOREM RowStaysCurrent ==
  ASSUME DOMAIN KindThresholds = {}, NoRow \notin Rows
  PROVE  SpecCounted => []RowIsCurrent
<1>1. Init => RowIsCurrent
  BY DEF Init, RowIsCurrent
<1>2. IInv /\ RowIsCurrent /\ [NextCounted]_vars => RowIsCurrent'
  BY StepRow
<1>3. QED
  BY <1>1, <1>2, InvarianceCounted, PTL DEF SpecCounted

-----------------------------------------------------------------------------
(* n may come of b without a restart.                                      *)
Course(b, n) ==
    /\ n.state # b.state => <<b.state, n.state>> \in Edges
    /\ n.state = "HALF_OPEN" =>
          IF b.state = "HALF_OPEN" THEN n.halfOpenAllowed <= b.halfOpenAllowed
          ELSE ShouldAttemptReset(b)
    /\ b.state \in {"OPEN", "HALF_OPEN"} /\ n.state = "CLOSED" =>
          n.failureCount = 0 /\ \A k \in Kinds : n.kindCounts[k] = 0

(* A step that leaves the state and the probes left to hand out alone.     *)
LEMMA SameCourse ==
  ASSUME NEW b, Healthy(b), NEW n, n.state = b.state, n.halfOpenAllowed = b.halfOpenAllowed
  PROVE  Course(b, n)
BY DEF Course, Healthy, Breakers

LEMMA SuccessCourse ==
  ASSUME NEW b, Healthy(b)
  PROVE  Course(b, OnSuccess(b)) /\ Course(b, ResetBreaker(b))
<1>1. b \in Breakers /\ b.state \in States /\ b.halfOpenAllowed \in Nat
  BY DEF Healthy, Breakers
<1>2. /\ Recovered(b).state = "CLOSED" /\ Recovered(b).failureCount = 0
      /\ \A k \in Kinds : Recovered(b).kindCounts[k] = 0
  BY DEF Recovered, Fresh
<1>3. /\ ResetBreaker(b).state = "CLOSED" /\ ResetBreaker(b).failureCount = 0
      /\ \A k \in Kinds : ResetBreaker(b).kindCounts[k] = 0
  BY DEF ResetBreaker, Fresh
<1>4. b.state # "CLOSED" => <<b.state, "CLOSED">> \in Edges
  BY <1>1 DEF States, Edges
<1>5. Course(b, ResetBreaker(b)) /\ Course(b, Recovered(b))
  BY <1>2, <1>3, <1>4 DEF Course
<1>6. CASE b.state \in {"CLOSED", "DEGRADED"}
  <2>1. OnSuccess(b) = OneFewer(b)
        \/ (b.state = "DEGRADED" /\ OnSuccess(b) = Transition(OneFewer(b), "CLOSED"))
    BY <1>6 DEF OnSuccess
  <2>2. CASE OnSuccess(b) = OneFewer(b)
    <3>1. OnSuccess(b).state = b.state
      BY <2>2, OneFewerFields
    <3> QED
      BY <1>5, <1>6, <3>1 DEF Course
  <2>3. CASE b.state = "DEGRADED" /\ OnSuccess(b) = Transition(OneFewer(b), "CLOSED")
    <3>1. OneFewer(b) \in Breakers /\ OneFewer(b).halfOpenAllowed \in Nat
      BY OneFewerFields
    <3>2. OnSuccess(b).state = "CLOSED"
      BY <2>3, <3>1, TransitionFields DEF States
    <3> QED
      BY <1>4, <1>5, <2>3, <3>2 DEF Course
  <2> QED
    BY <2>1, <2>2, <2>3
<1>7. CASE b.state = "OPEN"
  BY <1>5, <1>7 DEF OnSuccess
<1>8. CASE b.state = "HALF_OPEN"
  BY <1>5, <1>8 DEF OnSuccess
<1> QED
  BY <1>1, <1>5, <1>6, <1>7, <1>8 DEF States

LEMMA FailureCourse ==
  ASSUME NEW b, Healthy(b), NEW k \in Kinds \cup {NoKind}
  PROVE  Course(b, OnFailure(b, k))
<1> DEFINE c == Counted(b, k)
           d == [c EXCEPT !.openCycleCount = OneMore(@, MaxCycles)]
<1>1. c \in Breakers /\ c.halfOpenAllowed \in Nat /\ c.state = b.state /\ b.state \in States
  BY CountedFields DEF Healthy, Breakers
<1>2. d.state = b.state /\ Transition(d, "OPEN").state = "OPEN" /\ Transition(c, "OPEN").state = "OPEN"
      /\ Transition(c, "DEGRADED").state = "DEGRADED"
  <2> HIDE DEF c
  <2> QED
    BY <1>1 DEF Transition, Breakers
<1>3. \/ OnFailure(b, k) = Transition(c, "OPEN")
      \/ OnFailure(b, k) = Transition(d, "OPEN")
      \/ OnFailure(b, k) = c /\ b.state # "HALF_OPEN"
      \/ OnFailure(b, k) = Transition(c, "DEGRADED") /\ b.state = "CLOSED"
  <2>1. CASE KindOpens(b, k)
    BY <2>1 DEF OnFailure
  <2>2. CASE ~KindOpens(b, k) /\ b.state = "OPEN"
    BY <2>2 DEF OnFailure
  <2>3. CASE ~KindOpens(b, k) /\ b.state = "HALF_OPEN"
    BY <2>3 DEF OnFailure
  <2>4. CASE ~KindOpens(b, k) /\ b.state \in {"CLOSED", "DEGRADED"}
    BY <2>4 DEF OnFailure
  <2> QED
    BY <1>1, <2>1, <2>2, <2>3, <2>4 DEF States
<1> HIDE DEF c, d
<1>4. /\ b.state # "OPEN" => <<b.state, "OPEN">> \in Edges
      /\ <<"CLOSED", "DEGRADED">> \in Edges
  BY <1>1 DEF States, Edges
<1>5. CASE OnFailure(b, k).state = "OPEN"
  BY <1>4, <1>5 DEF Course
<1>6. CASE OnFailure(b, k) = c /\ b.state # "HALF_OPEN"
  BY <1>1, <1>6 DEF Course
<1>7. CASE OnFailure(b, k) = Transition(c, "DEGRADED") /\ b.state = "CLOSED"
  BY <1>2, <1>4, <1>7 DEF Course
<1> QED
  BY <1>2, <1>3, <1>5, <1>6, <1>7

LEMMA RefreshCourse ==
  ASSUME NEW b, Healthy(b)
  PROVE  Course(b, RefreshOpenState(b))
<1>1. CASE b.state = "OPEN" /\ ShouldAttemptReset(b)
  <2>1. RefreshOpenState(b).state = "HALF_OPEN"
    BY <1>1, TransitionFields DEF RefreshOpenState, Healthy, States
  <2> QED
    BY <1>1, <2>1 DEF Course, Edges
<1>2. CASE ~(b.state = "OPEN" /\ ShouldAttemptReset(b))
  <2>1. RefreshOpenState(b) = b
    BY <1>2 DEF RefreshOpenState
  <2> QED
    BY <2>1, SameCourse
<1> QED
  BY <1>1, <1>2

(* A probe handed out is one fewer to hand out.                            *)
LEMMA BeginCourse ==
  ASSUME NEW b, Healthy(b), NEW e, e = RefreshOpenState(b), e.state = "HALF_OPEN",
         NEW n, n = [e EXCEPT !.halfOpenAllowed = @ - 1]
  PROVE  Course(b, n)
<1>1. Healthy(e) /\ Course(b, e)
  BY RefreshHealthy, RefreshCourse
<1>2. n.state = "HALF_OPEN" /\ n.halfOpenAllowed = e.halfOpenAllowed - 1
  BY <1>1 DEF Healthy, Breakers
<1>3. e.halfOpenAllowed \in Nat /\ b.halfOpenAllowed \in Nat
  BY <1>1 DEF Healthy
<1> QED
  BY <1>1, <1>2, <1>3 DEF Course

LEMMA NextCourse ==
  ASSUME Healthy(breaker), Next
  PROVE  breaker' = Restore(db) \/ Course(breaker, breaker')
<1>1. ASSUME NEW c \in Calls, Begin(c)  PROVE Course(breaker, breaker')
  <2> DEFINE e == RefreshOpenState(breaker)
  <2>1. breaker' = IF e.state = "HALF_OPEN" THEN [e EXCEPT !.halfOpenAllowed = @ - 1] ELSE e
    BY <1>1 DEF Begin
  <2> HIDE DEF e
  <2> QED
    BY <2>1, BeginCourse, RefreshCourse DEF e
<1>2. ASSUME NEW c \in Calls, Succeed(c)  PROVE Course(breaker, breaker')
  BY <1>2, SuccessCourse DEF Succeed
<1>3. ASSUME NEW c \in Calls, NEW k \in Kinds \cup {NoKind}, Fail(c, k)
      PROVE  Course(breaker, breaker')
  BY <1>3, FailureCourse DEF Fail
<1>4. ASSUME NEW c \in Calls, Ignore(c)  PROVE Course(breaker, breaker')
  BY <1>4, SameCourse DEF Ignore
<1>5. Inspect => Course(breaker, breaker')
  BY RefreshCourse DEF Inspect
<1>6. Lookup => Course(breaker, breaker')
  BY SameCourse DEF Lookup
<1>7. CountSuccess \/ Reset => Course(breaker, breaker')
  BY SuccessCourse DEF CountSuccess, Reset
<1>8. ASSUME NEW k \in Kinds \cup {NoKind}, CountFailure(k)  PROVE Course(breaker, breaker')
  BY <1>8, FailureCourse DEF CountFailure
<1>9. CASE Tick
  <2>1. breaker' = [breaker EXCEPT !.age = Older(breaker.age)]
    BY <1>9 DEF Tick
  <2>2. breaker'.state = breaker.state /\ breaker'.halfOpenAllowed = breaker.halfOpenAllowed
    BY <2>1 DEF Healthy, Breakers
  <2> QED
    BY <2>2, SameCourse
<1>10. Restart => breaker' = Restore(db)
  BY DEF Restart
<1> QED
  BY <1>1, <1>2, <1>3, <1>4, <1>5, <1>6, <1>7, <1>8, <1>9, <1>10
     DEF Next, NextCounted, CallStep, Operator

(* The states of an outage come in the order of the class's diagram, for   *)
(* every order in which the calls of before, within and after it end.      *)
THEOREM OutageInOrder == Spec => OutageTakesItsCourse
<1>1. IInv /\ [Next]_vars =>
        [\/ breaker' = Restore(db)
         \/ /\ breaker'.state # breaker.state => <<breaker.state, breaker'.state>> \in Edges
            /\ breaker'.state = "HALF_OPEN" =>
                  IF breaker.state = "HALF_OPEN"
                  THEN breaker'.halfOpenAllowed <= breaker.halfOpenAllowed
                  ELSE ShouldAttemptReset(breaker)
            /\ breaker.state \in {"OPEN", "HALF_OPEN"} /\ breaker'.state = "CLOSED" =>
                  breaker'.failureCount = 0 /\ \A k \in Kinds : breaker'.kindCounts[k] = 0]_vars
  BY NextCourse DEF IInv, Course
<1> QED
  BY <1>1, Invariance, PTL DEF Spec, OutageTakesItsCourse
=============================================================================
