-------------------------- MODULE ChatFallback_proofs --------------------------
(* Proofs about ChatFallback for every number of requests and accounts,    *)
(* every set of outcomes and every configuration ChatAssumption admits.    *)
EXTENDS ChatFallback, TLAPS

USE ChatAssumption

Working == {"execute", "upstream", "failed", "queued", "marking"}

(* What TypeOK says of one request.                                        *)
GoodJob(j) == j \in Jobs /\ (j.pc \in Working => j.account \in Accounts)

InUpstream(j) == j.pc \in {"upstream", "cleared"}

LEMMA TypeOKByParts ==
  TypeOK <=> /\ row \in [Accounts -> Rows]
             /\ job \in [Requests -> Jobs]
             /\ \A r \in Requests : GoodJob(job[r])
             /\ tail \in [Accounts -> Requests \cup {None}]
  BY DEF TypeOK, GoodJob, Working

LEMMA TypeOKNext ==
  ASSUME row' \in [Accounts -> Rows], job' \in [Requests -> Jobs],
         \A r \in Requests : GoodJob(job'[r]), tail' \in [Accounts -> Requests \cup {None}]
  PROVE  TypeOK'
  BY DEF TypeOK, GoodJob, Working

-----------------------------------------------------------------------------
(* The shapes of a step: one request moves, or moves and wakes the ones    *)
(* that wait for it.                                                       *)

LEMMA IdleGood == GoodJob(Idle) /\ Idle.pc = "idle" /\ ~InUpstream(Idle)
  BY DEF Idle, GoodJob, Jobs, Pcs, Statuses, Returned, Working, InUpstream

LEMMA GotoGood ==
  ASSUME TypeOK, NEW r \in Requests, NEW j, GoodJob(j), Goto(r, j)
  PROVE  /\ job' \in [Requests -> Jobs]
         /\ \A q \in Requests : GoodJob(job'[q])
  BY TypeOKByParts DEF Goto, GoodJob

LEMMA LeaveMarkGood ==
  ASSUME TypeOK, NEW r \in Requests, NEW j, GoodJob(j), LeaveMark(r, j)
  PROVE  /\ job' \in [Requests -> Jobs]
         /\ \A q \in Requests : GoodJob(job'[q])
         /\ tail' \in [Accounts -> Requests \cup {None}]
  <1>1. ASSUME NEW q \in Requests
        PROVE  GoodJob([job[q] EXCEPT !.pred = None])
    BY TypeOKByParts DEF GoodJob, Jobs
  <1>2. \A q \in Requests : GoodJob(job'[q])
    BY <1>1, TypeOKByParts DEF LeaveMark
  <1>3. job' \in [Requests -> Jobs]
    BY <1>2 DEF LeaveMark, GoodJob
  <1>4. tail' \in [Accounts -> Requests \cup {None}]
    BY TypeOKByParts DEF LeaveMark
  <1>. QED  BY <1>2, <1>3, <1>4

LEMMA GotoSameCalls ==
  ASSUME TypeOK, NEW r \in Requests, NEW j, Goto(r, j),
         InUpstream(j) <=> InUpstream(job[r])
  PROVE  InExecute' = InExecute
  <1>1. \A q \in Requests : InUpstream(job'[q]) <=> InUpstream(job[q])
    BY TypeOKByParts DEF Goto
  <1>. QED  BY <1>1 DEF InExecute, InUpstream

LEMMA LeaveMarkSameCalls ==
  ASSUME TypeOK, NEW r \in Requests, NEW j, LeaveMark(r, j),
         ~InUpstream(j), ~InUpstream(job[r])
  PROVE  InExecute' = InExecute
  <1>1. \A q \in Requests : InUpstream([job[q] EXCEPT !.pred = None]) <=> InUpstream(job[q])
    BY TypeOKByParts DEF Jobs, InUpstream
  <1>2. \A q \in Requests : InUpstream(job'[q]) <=> InUpstream(job[q])
    BY <1>1 DEF LeaveMark
  <1>. QED  BY <1>2 DEF InExecute, InUpstream

LEMMA RowsGood ==
  ASSUME TypeOK
  PROVE  /\ Clean \in Rows
         /\ Decayed \in [Accounts -> Rows]
  <1>1. Clean \in Rows
    BY DEF Clean, Rows, NoCooldown
  <1>2. \A w \in Rows : [w EXCEPT !.status = "active", !.backoff = 0, !.error = None] \in Rows
    BY DEF Rows
  <1>3. \A c \in Accounts : row[c] \in Rows
    BY TypeOKByParts
  <1>4. Decayed \in [Accounts -> Rows]
    BY <1>2, <1>3 DEF Decayed
  <1>. QED  BY <1>1, <1>4

-----------------------------------------------------------------------------
(* One lemma per part of the handler: each step keeps the types, and is a  *)
(* step of the breaker or leaves it alone.                                 *)

Maps == CB!Next \/ UNCHANGED CB!vars

LEMMA SameBreaker ==
  ASSUME UnchangedBreaker, InExecute' = InExecute
  PROVE  Maps
  BY DEF Maps, UnchangedBreaker, CB!vars

(* Looking at the breaker is an Inspect, or at most a Lookup.              *)
LEMMA LookMaps ==
  ASSUME Look, InExecute' = InExecute,
         db' = CB!Row(LookedUp) \/ (LookedUp = breaker /\ db' = db)
  PROVE  Maps
  <1>1. CASE LookedUp # breaker
    <2>1. CB!Inspect
      BY <1>1 DEF CB!Inspect, Look, LookedUp
    <2>. QED  BY <2>1 DEF Maps, CB!Next, CB!NextCounted
  <1>2. CASE LookedUp = breaker /\ db' = CB!Row(LookedUp)
    <2>1. CB!Lookup
      BY <1>2 DEF CB!Lookup, Look
    <2>. QED  BY <2>1 DEF Maps, CB!Next, CB!NextCounted, CB!Operator
  <1>3. CASE LookedUp = breaker /\ db' = db
    BY <1>3 DEF Maps, CB!vars, Look
  <1>. QED  BY <1>1, <1>2, <1>3

LEMMA GateStep ==
  ASSUME TypeOK, NEW r \in Requests, Gate(r)
  PROVE  TypeOK' /\ Maps
  <1> DEFINE j == [Idle EXCEPT !.pc = "choose", !.budget = RetryBudget]
  <1>1. GoodJob(j) /\ ~InUpstream(j) /\ ~InUpstream(job[r])
    BY DEF Idle, GoodJob, Jobs, Pcs, Statuses, Returned, Working, InUpstream, Gate, At
  <1>2. CASE Goto(r, j)
    <2>1. /\ job' \in [Requests -> Jobs] /\ \A q \in Requests : GoodJob(job'[q])
          /\ InExecute' = InExecute
      BY <1>1, <1>2, GotoGood, GotoSameCalls
    <2>2. row' \in [Accounts -> Rows] /\ tail' \in [Accounts -> Requests \cup {None}]
      BY TypeOKByParts DEF Gate
    <2>. QED  BY <2>1, <2>2, LookMaps, TypeOKNext DEF Gate
  <1>3. CASE job' = job
    <2>1. InExecute' = InExecute
      BY <1>3 DEF InExecute
    <2>2. TypeOK'
      BY <1>3 DEF Gate, TypeOK
    <2>. QED  BY <2>1, <2>2, LookMaps DEF Gate
  <1>. QED  BY <1>2, <1>3 DEF Gate, Admit

(* A move of one request, beside a change of the rows.                     *)
LEMMA MoveTypes ==
  ASSUME TypeOK, NEW r \in Requests, NEW j, GoodJob(j), Goto(r, j),
         row' \in [Accounts -> Rows], tail' \in [Accounts -> Requests \cup {None}]
  PROVE  TypeOK'
  BY GotoGood, TypeOKNext

LEMMA MarkTypes ==
  ASSUME TypeOK, NEW r \in Requests, NEW j, GoodJob(j), LeaveMark(r, j),
         row' \in [Accounts -> Rows]
  PROVE  TypeOK'
  BY LeaveMarkGood, TypeOKNext

LEMMA QuietMove ==
  ASSUME TypeOK, NEW r \in Requests, NEW j, Goto(r, j), UnchangedBreaker,
         InUpstream(j) <=> InUpstream(job[r])
  PROVE  Maps
  BY GotoSameCalls, SameBreaker

LEMMA BreakerMaps ==
  /\ \A r \in Requests : CB!Begin(r) \/ CB!Succeed(r) \/ CB!Fail(r, None) \/ CB!Ignore(r) => Maps
  /\ CB!CountSuccess \/ CB!CountFailure(None) \/ CB!Inspect \/ CB!Reset \/ CB!Restart \/ CB!Tick
       => Maps
  BY DEF Maps, CB!Next, CB!NextCounted, CB!CallStep, CB!Operator

(* What TypeOK gives of the request that moves.                            *)
LEMMA Unpack ==
  ASSUME TypeOK, NEW r \in Requests
  PROVE  /\ row \in [Accounts -> Rows] /\ Decayed \in [Accounts -> Rows]
         /\ tail \in [Accounts -> Requests \cup {None}]
         /\ job[r] \in Jobs /\ GoodJob(job[r])
         /\ At(r, "idle") \/ At(r, "upstream") \/ At(r, "cleared") \/ ~InUpstream(job[r])
         /\ InUpstream(job[r]) <=> (At(r, "upstream") \/ At(r, "cleared"))
  BY TypeOKByParts, RowsGood DEF At, InUpstream

-----------------------------------------------------------------------------
(* The shapes the handler gives a request, apart from the state it is in.  *)
LEMMA FailedShape ==
  ASSUME NEW j \in Jobs, j.account \in Accounts, NEW s \in Statuses
  PROVE  LET k == [j EXCEPT !.pc = "failed", !.status = s, !.dirty = FALSE]
         IN  GoodJob(k) /\ ~InUpstream(k)
  <1> DEFINE k == [j EXCEPT !.pc = "failed", !.status = s, !.dirty = FALSE]
  <1>1. k \in Jobs
    BY DEF Jobs, Pcs
  <1>2. k.pc = "failed" /\ k.account \in Accounts
    BY DEF Jobs
  <1>. QED  BY <1>1, <1>2 DEF GoodJob, InUpstream

LEMMA QueuedShape ==
  ASSUME NEW j \in Jobs, j.account \in Accounts, NEW p \in Requests \cup {None}
  PROVE  LET k == [j EXCEPT !.pc = "queued", !.pred = p]
         IN  GoodJob(k) /\ ~InUpstream(k)
  <1> DEFINE k == [j EXCEPT !.pc = "queued", !.pred = p]
  <1>1. k \in Jobs
    BY DEF Jobs, Pcs
  <1>2. k.pc = "queued" /\ k.account \in Accounts
    BY DEF Jobs
  <1>. QED  BY <1>1, <1>2 DEF GoodJob, InUpstream

LEMMA RetryShape ==
  ASSUME NEW j \in Jobs
  PROVE  LET k == [j EXCEPT !.pc = "choose", !.excluded = {}, !.attempt = @ + 1]
         IN  GoodJob(k) /\ ~InUpstream(k)
  <1> DEFINE k == [j EXCEPT !.pc = "choose", !.excluded = {}, !.attempt = @ + 1]
  <1>1. j.attempt \in Nat
    BY DEF Jobs
  <1>2. j.attempt + 1 \in Nat
    BY <1>1
  <1>3. k \in Jobs
    BY <1>2 DEF Jobs, Pcs
  <1>4. k.pc = "choose"
    BY DEF Jobs
  <1>. QED  BY <1>3, <1>4 DEF GoodJob, InUpstream, Working

LEMMA NextAccountShape ==
  ASSUME NEW j \in Jobs, j.account \in Accounts, NEW sc \in {"provider", "account"}
  PROVE  LET k == [j EXCEPT !.pc = "choose", !.excluded = @ \cup {j.account},
                            !.last = sc, !.account = None,
                            !.status = None, !.pred = None, !.level = 0]
         IN  GoodJob(k) /\ ~InUpstream(k)
  <1> DEFINE k == [j EXCEPT !.pc = "choose", !.excluded = @ \cup {j.account},
                            !.last = sc, !.account = None,
                            !.status = None, !.pred = None, !.level = 0]
  <1>1. j.excluded \cup {j.account} \in SUBSET Accounts
    BY DEF Jobs
  <1>2. k \in Jobs
    BY <1>1 DEF Jobs, Pcs
  <1>3. k.pc = "choose"
    BY DEF Jobs
  <1>. QED  BY <1>2, <1>3 DEF GoodJob, InUpstream, Working

LEMMA SelectedShape ==
  ASSUME NEW j \in Jobs, NEW c \in Accounts, NEW d \in BOOLEAN
  PROVE  LET k == [j EXCEPT !.pc = "execute", !.account = c, !.dirty = d]
         IN  GoodJob(k) /\ ~InUpstream(k)
  <1> DEFINE k == [j EXCEPT !.pc = "execute", !.account = c, !.dirty = d]
  <1>1. k \in Jobs
    BY DEF Jobs, Pcs
  <1>2. k.pc = "execute" /\ k.account \in Accounts
    BY DEF Jobs
  <1>. QED  BY <1>1, <1>2 DEF GoodJob, InUpstream

LEMMA WaitingShape ==
  ASSUME NEW j \in Jobs, NEW n \in Nat, NEW b \in Nat
  PROVE  LET k == [j EXCEPT !.pc = "waiting", !.wait = n, !.budget = b]
         IN  GoodJob(k) /\ ~InUpstream(k)
  <1> DEFINE k == [j EXCEPT !.pc = "waiting", !.wait = n, !.budget = b]
  <1>1. k \in Jobs
    BY DEF Jobs, Pcs
  <1>2. k.pc = "waiting"
    BY DEF Jobs
  <1>. QED  BY <1>1, <1>2 DEF GoodJob, InUpstream, Working

LEMMA UpstreamShape ==
  ASSUME NEW j \in Jobs, j.account \in Accounts
  PROVE  GoodJob([j EXCEPT !.pc = "upstream"])
  <1> DEFINE k == [j EXCEPT !.pc = "upstream"]
  <1>1. k \in Jobs /\ k.account \in Accounts
    BY DEF Jobs, Pcs
  <1>. QED  BY <1>1 DEF GoodJob

LEMMA EarlyShape ==
  ASSUME NEW j \in Jobs
  PROVE  LET k == [j EXCEPT !.pc = "choose", !.early = TRUE,
                            !.account = None, !.status = None]
         IN  GoodJob(k) /\ ~InUpstream(k)
  <1> DEFINE k == [j EXCEPT !.pc = "choose", !.early = TRUE,
                            !.account = None, !.status = None]
  <1>1. k \in Jobs
    BY DEF Jobs, Pcs
  <1>2. k.pc = "choose"
    BY DEF Jobs
  <1>. QED  BY <1>1, <1>2 DEF GoodJob, InUpstream, Working

LEMMA MarkingShape ==
  ASSUME NEW j \in Jobs, j.account \in Accounts, NEW n \in Nat
  PROVE  LET k == [j EXCEPT !.pc = "marking", !.level = n]
         IN  GoodJob(k) /\ ~InUpstream(k)
  <1> DEFINE k == [j EXCEPT !.pc = "marking", !.level = n]
  <1>1. k \in Jobs
    BY DEF Jobs, Pcs
  <1>2. k.pc = "marking" /\ k.account \in Accounts
    BY DEF Jobs
  <1>. QED  BY <1>1, <1>2 DEF GoodJob, InUpstream

LEMMA BlamedShape ==
  ASSUME NEW w \in Rows, NEW n \in Nat, NEW sc \in {"provider", "account"}
  PROVE  [w EXCEPT !.cool = NoCooldown, !.backoff = n, !.error = sc] \in Rows
  <1>1. NoCooldown \in Int
    BY DEF NoCooldown
  <1>. HIDE DEF NoCooldown
  <1>. QED  BY <1>1 DEF Rows

-----------------------------------------------------------------------------
LEMMA ChooseStep ==
  ASSUME TypeOK, NEW r \in Requests, Choose(r)
  PROVE  TypeOK' /\ Maps
  <1>. USE Unpack
  <1>1. ASSUME NEW c \in Accounts, Select(r, c)  PROVE TypeOK' /\ Maps
    <2> DEFINE j == [job[r] EXCEPT !.pc = "execute", !.account = c, !.dirty = (row[c] # Clean)]
    <2>1. GoodJob(j) /\ ~InUpstream(j)
      BY SelectedShape
    <2>2. Goto(r, j) /\ row' = Decayed /\ tail' = tail /\ UnchangedBreaker /\ ~InUpstream(job[r])
      BY <1>1 DEF Select, At
    <2>. QED  BY <2>1, <2>2, MoveTypes, QuietMove
  <1>2. ASSUME WaitForCooldown(r)  PROVE TypeOK' /\ Maps
    <2>1. PICK c \in Earliest :
             Goto(r, [job[r] EXCEPT !.pc = "waiting", !.wait = row[c].cool,
                                    !.budget = @ - row[c].cool])
      BY <1>2 DEF WaitForCooldown
    <2> DEFINE j == [job[r] EXCEPT !.pc = "waiting", !.wait = row[c].cool,
                                   !.budget = @ - row[c].cool]
    <2>2. c \in Accounts /\ row[c].cool \in Nat /\ job[r].budget \in Nat
      <3>1. c \in Accounts /\ row[c].cool > 0
        BY DEF Earliest, Cooling
      <3>2. row[c] \in Rows
        BY <3>1
      <3>. QED  BY <3>1, <3>2 DEF Rows, Jobs
    <2>3. row[c].cool <= job[r].budget
      <3>1. PICK d \in Earliest : row[d].cool <= job[r].budget
        BY <1>2 DEF WaitForCooldown, ShouldRetry
      <3>2. d \in Accounts /\ row[d].cool \in Int /\ row[c].cool <= row[d].cool
        BY <2>2 DEF Earliest, Rows
      <3>. QED  BY <2>2, <3>1, <3>2
    <2>4. job[r].budget - row[c].cool \in Nat
      BY <2>2, <2>3
    <2>5. GoodJob(j) /\ ~InUpstream(j)
      BY <2>2, <2>4, WaitingShape
    <2>6. Goto(r, j) /\ row' = Decayed /\ tail' = tail /\ UnchangedBreaker /\ ~InUpstream(job[r])
      BY <1>2, <2>1 DEF WaitForCooldown, Exhausted, At
    <2>. QED  BY <2>5, <2>6, MoveTypes, QuietMove
  <1>3. ASSUME Retry(r)  PROVE TypeOK' /\ Maps
    <2> DEFINE j == [job[r] EXCEPT !.pc = "choose", !.excluded = {}, !.attempt = @ + 1]
    <2>1. GoodJob(j) /\ ~InUpstream(j)
      BY RetryShape
    <2>2. Goto(r, j) /\ row' = row /\ tail' = tail /\ UnchangedBreaker /\ ~InUpstream(job[r])
      BY <1>3 DEF Retry, At
    <2>. QED  BY <2>1, <2>2, MoveTypes, QuietMove
  <1>4. ASSUME GiveUp(r)  PROVE TypeOK' /\ Maps
    <2>1. Goto(r, Idle) /\ row' = Decayed /\ tail' = tail /\ ~InUpstream(job[r])
      BY <1>4 DEF GiveUp, Exhausted, At
    <2>2. CB!CountFailure(None) \/ UnchangedBreaker
      BY <1>4 DEF GiveUp
    <2>. QED  BY <2>1, <2>2, IdleGood, MoveTypes, QuietMove, BreakerMaps
  <1>. QED  BY <1>1, <1>2, <1>3, <1>4 DEF Choose

LEMMA ExecuteStep ==
  ASSUME TypeOK, NEW r \in Requests, Execute(r)
  PROVE  TypeOK' /\ Maps
  <1>. USE Unpack
  <1>1. ASSUME NEW s \in Statuses, At(r, "upstream") \/ At(r, "execute")
        PROVE  GoodJob(FailedJob(r, s)) /\ ~InUpstream(FailedJob(r, s))
    <2>1. job[r].account \in Accounts
      BY <1>1 DEF At, GoodJob, Working
    <2>. QED  BY <2>1, FailedShape DEF FailedJob
  <1>2. ASSUME Start(r)  PROVE TypeOK' /\ Maps
    <2> DEFINE j == [job[r] EXCEPT !.pc = "upstream"]
    <2>1. job[r].account \in Accounts
      BY <1>2 DEF Start, At, GoodJob, Working
    <2>2. GoodJob(j)
      BY <2>1, UpstreamShape
    <2>3. Goto(r, j) /\ row' = row /\ tail' = tail /\ CB!Begin(r)
      BY <1>2 DEF Start
    <2>. QED  BY <2>2, <2>3, MoveTypes, BreakerMaps
  <1>3. ASSUME Refuse(r)  PROVE TypeOK' /\ Maps
    <2> DEFINE j == FailedJob(r, "refused")
    <2>1. /\ Goto(r, j) /\ row' = row /\ tail' = tail /\ Look /\ At(r, "execute")
          /\ db' = IF LookedUp # breaker THEN CB!Row(LookedUp) ELSE db
      BY <1>3 DEF Refuse
    <2>2. GoodJob(j) /\ ~InUpstream(j) /\ ~InUpstream(job[r])
      BY <1>1, <2>1 DEF Statuses, At
    <2>3. InExecute' = InExecute
      BY <2>1, <2>2, GotoSameCalls
    <2>4. TypeOK'
      BY <2>1, <2>2, MoveTypes
    <2>5. Maps
      BY <2>1, <2>3, LookMaps
    <2>. QED  BY <2>4, <2>5
  <1>4. ASSUME ClearAccountError(r)  PROVE TypeOK' /\ Maps
    <2> DEFINE j == [Idle EXCEPT !.pc = "cleared"]
    <2>1. GoodJob(j) /\ InUpstream(j)
      BY IdleGood DEF Idle, GoodJob, Jobs, Pcs, Working, InUpstream
    <2>2. Goto(r, j) /\ tail' = tail /\ UnchangedBreaker /\ InUpstream(job[r])
      BY <1>4 DEF ClearAccountError, At
    <2>3. row' \in [Accounts -> Rows]
      BY <1>4, RowsGood DEF ClearAccountError
    <2>. QED  BY <2>1, <2>2, <2>3, MoveTypes, QuietMove
  <1>5. ASSUME Answer(r)  PROVE TypeOK' /\ Maps
    <2> DEFINE j == [Idle EXCEPT !.pc = "settling"]
    <2>1. GoodJob(j)
      BY IdleGood DEF Idle, GoodJob, Jobs, Pcs, Working
    <2>2. Goto(r, j) /\ row' = row /\ tail' = tail /\ CB!Succeed(r)
      BY <1>5 DEF Answer
    <2>. QED  BY <2>1, <2>2, MoveTypes, BreakerMaps
  <1>6. ASSUME Settle(r)  PROVE TypeOK' /\ Maps
    BY <1>6, IdleGood, MoveTypes, BreakerMaps DEF Settle
  <1>7. ASSUME NEW s \in Outcomes, ReturnFailure(r, s)  PROVE TypeOK' /\ Maps
    <2>1. At(r, "upstream") /\ Goto(r, FailedJob(r, s)) /\ row' = row /\ tail' = tail /\ CB!Succeed(r)
      BY <1>7 DEF ReturnFailure
    <2>2. GoodJob(FailedJob(r, s))
      BY <1>1, <2>1 DEF Statuses
    <2>. QED  BY <2>1, <2>2, MoveTypes, BreakerMaps
  <1>8. ASSUME ProxyUnreachable(r)  PROVE TypeOK' /\ Maps
    <2>1. /\ At(r, "upstream") /\ Goto(r, FailedJob(r, "unreachable"))
          /\ row' = row /\ tail' = tail /\ CB!Fail(r, None)
      BY <1>8 DEF ProxyUnreachable
    <2>2. GoodJob(FailedJob(r, "unreachable"))
      BY <1>1, <2>1 DEF Statuses
    <2>. QED  BY <2>1, <2>2, MoveTypes, BreakerMaps
  <1>9. ASSUME Throw(r)  PROVE TypeOK' /\ Maps
    BY <1>9, IdleGood, MoveTypes, BreakerMaps DEF Throw
  <1>. QED  BY <1>2, <1>3, <1>4, <1>5, <1>6, <1>7, <1>8, <1>9 DEF Execute

LEMMA FallbackStep ==
  ASSUME TypeOK, NEW r \in Requests, Fallback(r)
  PROVE  TypeOK' /\ Maps
  <1>. USE Unpack
  <1>1. At(r, "failed") \/ At(r, "queued") \/ At(r, "marking")
          => job[r].account \in Accounts /\ ~InUpstream(job[r])
    BY DEF At, GoodJob, Working
  <1>2. At(r, "failed") \/ At(r, "queued") \/ At(r, "marking")
          => GoodJob(NextAccount(r)) /\ ~InUpstream(NextAccount(r))
    BY <1>1, NextAccountShape DEF NextAccount, Scope
  <1>3. ASSUME RetryEarlyClose(r)  PROVE TypeOK' /\ Maps
    <2> DEFINE j == [job[r] EXCEPT !.pc = "choose", !.early = TRUE,
                                   !.account = None, !.status = None]
    <2>1. GoodJob(j) /\ ~InUpstream(j)
      BY EarlyShape
    <2>2. /\ Goto(r, Idle) \/ Goto(r, j)
          /\ row' = row /\ tail' = tail /\ UnchangedBreaker /\ ~InUpstream(job[r])
      BY <1>3, <1>1 DEF RetryEarlyClose
    <2>. QED  BY <2>1, <2>2, IdleGood, MoveTypes, QuietMove
  <1>4. ASSUME SkipDisable(r)  PROVE TypeOK' /\ Maps
    <2>1. /\ Goto(r, Idle) /\ row' = row /\ tail' = tail /\ ~InUpstream(job[r])
          /\ CB!CountFailure(None) \/ UnchangedBreaker
      BY <1>4, <1>1 DEF SkipDisable
    <2>. QED  BY <2>1, IdleGood, MoveTypes, QuietMove, BreakerMaps
  <1>5. ASSUME QueueMark(r)  PROVE TypeOK' /\ Maps
    <2> DEFINE j == [job[r] EXCEPT !.pc = "queued", !.pred = tail[job[r].account]]
    <2>1. job[r].account \in Accounts /\ ~InUpstream(job[r])
      BY <1>5, <1>1 DEF QueueMark
    <2>2. tail[job[r].account] \in Requests \cup {None}
      BY <2>1
    <2>3. GoodJob(j) /\ ~InUpstream(j)
      BY <2>1, <2>2, QueuedShape
    <2>4. /\ Goto(r, j) /\ row' = row /\ UnchangedBreaker
          /\ tail' \in [Accounts -> Requests \cup {None}]
      BY <1>5 DEF QueueMark
    <2>. QED  BY <2>1, <2>3, <2>4, MoveTypes, QuietMove
  <1>6. ASSUME NEW j, GoodJob(j), ~InUpstream(j), LeaveMark(r, j), UnchangedBreaker,
               ~InUpstream(job[r]), row' \in [Accounts -> Rows]
        PROVE  TypeOK' /\ Maps
    BY <1>6, MarkTypes, LeaveMarkSameCalls, SameBreaker
  <1>7. ASSUME SkipMark(r)  PROVE TypeOK' /\ Maps
    <2>1. /\ At(r, "queued") /\ LeaveMark(r, NextAccount(r)) /\ row' = row
          /\ UnchangedBreaker
      BY <1>7 DEF SkipMark, MarkTurn
    <2>. QED  BY <2>1, <1>1, <1>2, <1>6
  <1>8. ASSUME ReadRow(r)  PROVE TypeOK' /\ Maps
    <2> DEFINE j == [job[r] EXCEPT !.pc = "marking", !.level = row[job[r].account].backoff]
    <2>1. At(r, "queued") /\ Goto(r, j) /\ row' = row /\ tail' = tail /\ UnchangedBreaker
      BY <1>8 DEF ReadRow, MarkTurn
    <2>2. job[r].account \in Accounts /\ ~InUpstream(job[r])
      BY <2>1, <1>1
    <2>3. row[job[r].account].backoff \in Nat
      BY <2>2 DEF Rows
    <2>4. GoodJob(j) /\ ~InUpstream(j)
      BY <2>2, <2>3, MarkingShape
    <2>. QED  BY <2>1, <2>2, <2>4, MoveTypes, QuietMove
  <1>9. ASSUME WriteRow(r)  PROVE TypeOK' /\ Maps
    <2>1. /\ At(r, "marking") /\ LeaveMark(r, NextAccount(r)) /\ UnchangedBreaker
          /\ row' = [row EXCEPT ![job[r].account] = Marked(r)]
      BY <1>9 DEF WriteRow
    <2>2. job[r].account \in Accounts /\ job[r].level \in Nat
      BY <2>1, <1>1 DEF Jobs
    <2>3. row[job[r].account] \in Rows
      BY <2>2
    <2>4. Blamed(r) \in Rows
      BY <2>2, <2>3, BlamedShape DEF Blamed, Scope
    <2>5. Cooldown(job[r].level) \in Int
      <3>1. Lesser(job[r].level, MaxBackoffSteps) \in Nat
        BY <2>2 DEF Lesser
      <3>2. 2^Lesser(job[r].level, MaxBackoffSteps) \in Int
        BY <3>1
      <3>. QED  BY <3>2 DEF Cooldown
    <2>6. Blamed(r).backoff = job[r].level
      BY <2>3 DEF Blamed, Rows
    <2>7. Lesser(Blamed(r).backoff + 1, MaxBackoffSteps) \in Nat
      BY <2>2, <2>6 DEF Lesser
    <2>8. Marked(r) \in Rows
      BY <2>4, <2>5, <2>7 DEF Marked, Rows
    <2>9. row' \in [Accounts -> Rows]
      BY <2>1, <2>8
    <2>. QED  BY <2>1, <2>9, <1>1, <1>2, <1>6
  <1>10. ASSUME NoFallback(r)  PROVE TypeOK' /\ Maps
    <2>1. At(r, "marking") /\ LeaveMark(r, Idle) /\ row' = row /\ UnchangedBreaker
      BY <1>10 DEF NoFallback
    <2>. QED  BY <2>1, <1>1, <1>6, IdleGood
  <1>. QED  BY <1>3, <1>4, <1>5, <1>7, <1>8, <1>9, <1>10 DEF Fallback

-----------------------------------------------------------------------------
LEMMA TickStep ==
  ASSUME TypeOK, Tick
  PROVE  TypeOK' /\ Maps
  <1>1. ASSUME NEW j \in Jobs
        PROVE  LET k == [j EXCEPT !.wait = Sooner(@)]
               IN  k \in Jobs /\ k.pc = j.pc /\ k.account = j.account
    <2>1. Sooner(j.wait) \in Nat
      BY DEF Jobs, Sooner
    <2>. QED  BY <2>1 DEF Jobs
  <1>2. ASSUME NEW w \in Rows
        PROVE  [w EXCEPT !.cool = Sooner(@)] \in Rows
    <2>1. Sooner(w.cool) \in Int
      BY DEF Rows, Sooner
    <2>. QED  BY <2>1 DEF Rows
  <1>3. job' = [q \in Requests |-> [job[q] EXCEPT !.wait = Sooner(@)]]
    BY DEF Tick
  <1>4. \A q \in Requests : job[q] \in Jobs /\ GoodJob(job[q])
    BY TypeOKByParts
  <1>5. \A q \in Requests : job'[q] \in Jobs /\ GoodJob(job'[q])
    BY <1>1, <1>3, <1>4 DEF GoodJob
  <1>6. job' \in [Requests -> Jobs]
    BY <1>3, <1>5
  <1>7. \A c \in Accounts : row[c] \in Rows
    BY TypeOKByParts
  <1>8. row' \in [Accounts -> Rows]
    BY <1>2, <1>7 DEF Tick
  <1>9. tail' \in [Accounts -> Requests \cup {None}]
    BY TypeOKByParts DEF Tick
  <1>10. CB!Tick
    BY DEF Tick
  <1>. QED  BY <1>5, <1>6, <1>8, <1>9, <1>10, TypeOKNext, BreakerMaps

LEMMA NextStep ==
  ASSUME TypeOK, Next
  PROVE  TypeOK' /\ Maps
  <1>1. ASSUME NEW r \in Requests, Gate(r)  PROVE TypeOK' /\ Maps
    BY <1>1, GateStep
  <1>2. ASSUME NEW r \in Requests, Handle(r)  PROVE TypeOK' /\ Maps
    BY <1>2, ChooseStep, ExecuteStep, FallbackStep DEF Handle
  <1>3. ASSUME NEW r \in Requests, AbandonWait(r)  PROVE TypeOK' /\ Maps
    <2>1. /\ Goto(r, Idle) /\ row' = row /\ tail' = tail /\ UnchangedBreaker
          /\ ~InUpstream(job[r])
      BY <1>3 DEF AbandonWait, At, InUpstream
    <2>. QED  BY <2>1, IdleGood, Unpack, MoveTypes, QuietMove
  <1>4. CASE Monitor
    <2>1. TypeOK'
      BY <1>4 DEF Monitor, TypeOK
    <2>. QED  BY <1>4, <2>1, BreakerMaps DEF Monitor
  <1>5. CASE Restart
    <2>1. CB!Restart /\ row' = row /\ job' = [r \in Requests |-> Idle]
          /\ tail' = [c \in Accounts |-> None]
      BY <1>5 DEF Restart
    <2>2. /\ job' \in [Requests -> Jobs] /\ \A r \in Requests : GoodJob(job'[r])
          /\ row' \in [Accounts -> Rows]
          /\ tail' \in [Accounts -> Requests \cup {None}]
      BY <2>1, IdleGood, TypeOKByParts DEF GoodJob
    <2>. QED  BY <2>1, <2>2, TypeOKNext, BreakerMaps
  <1>6. CASE Tick
    BY <1>6, TickStep
  <1>. QED  BY <1>1, <1>2, <1>3, <1>4, <1>5, <1>6 DEF Next

LEMMA StutterStep ==
  ASSUME TypeOK, UNCHANGED vars
  PROVE  TypeOK' /\ Maps
  <1>1. TypeOK'
    BY DEF TypeOK, vars
  <1>2. InExecute' = InExecute
    BY DEF vars, InExecute
  <1>. QED  BY <1>1, <1>2, SameBreaker DEF vars, UnchangedBreaker

LEMMA InitHolds ==
  ASSUME Init
  PROVE  TypeOK /\ CB!Init
  <1>1. \A r \in Requests : GoodJob(job[r])
    BY IdleGood DEF Init
  <1>2. job \in [Requests -> Jobs]
    BY <1>1 DEF Init, GoodJob
  <1>3. Clean \in Rows
    BY DEF Clean, Rows, NoCooldown
  <1>4. row \in [Accounts -> Rows] /\ tail \in [Accounts -> Requests \cup {None}]
    BY <1>3 DEF Init
  <1>. QED  BY <1>1, <1>2, <1>4, TypeOKByParts DEF Init

(* The rows, the requests and the mutex queues keep their shape, and a     *)
(* request between the selection and the end of its mark names a           *)
(* connection, whatever handleChatCore returns and whatever interleaves.   *)
THEOREM TypeCorrect == Spec => []TypeOK
  <1>1. Init => TypeOK
    BY InitHolds
  <1>2. TypeOK /\ [Next]_vars => TypeOK'
    BY NextStep, StutterStep
  <1>. QED  BY <1>1, <1>2, PTL DEF Spec

(* The retry loop never uses the provider's breaker outside its contract:  *)
(* every gate, execute(), direct count, look and crash is a step of        *)
(* CircuitBreaker, so what is proved of every behaviour of that module     *)
(* holds of the breaker that chat.ts drives.                               *)
THEOREM BreakerImplemented == Spec => ImplementsCircuitBreaker
  <1>1. Init => CB!Init
    BY InitHolds
  <1>2. TypeOK /\ [Next]_vars => [CB!Next]_CB!vars
    BY NextStep, StutterStep DEF Maps
  <1>. QED  BY <1>1, <1>2, TypeCorrect, PTL DEF Spec, ImplementsCircuitBreaker, CB!Spec

-----------------------------------------------------------------------------
(* Accounts are excluded by the steps that end a mark, and by no others.   *)
NothingExcluded == \A q \in Requests : job'[q].excluded \subseteq job[q].excluded

LEMMA GotoExcludes ==
  ASSUME TypeOK, NEW r \in Requests, NEW j, Goto(r, j), j.excluded \subseteq job[r].excluded
  PROVE  NothingExcluded
  BY TypeOKByParts DEF Goto, NothingExcluded

LEMMA LeaveMarkExcludes ==
  ASSUME TypeOK, NEW r \in Requests, NEW j, LeaveMark(r, j)
  PROVE  /\ \A q \in Requests \ {r} : job'[q].excluded = job[q].excluded
         /\ job'[r] = j
  BY TypeOKByParts DEF LeaveMark, Jobs

LEMMA MovesExclude ==
  ASSUME TypeOK, NEW r \in Requests,
         Choose(r) \/ Execute(r) \/ AbandonWait(r) \/ Gate(r)
         \/ RetryEarlyClose(r) \/ SkipDisable(r) \/ QueueMark(r) \/ ReadRow(r)
  PROVE  NothingExcluded
  <1>1. /\ job[r] \in Jobs
        /\ Idle.excluded = {}
        /\ \A p \in Pcs : [Idle EXCEPT !.pc = p].excluded = {}
        /\ [Idle EXCEPT !.pc = "choose", !.budget = RetryBudget].excluded = {}
    BY TypeOKByParts DEF Idle
  <1>2. CASE Choose(r)
    <2>1. ASSUME NEW c \in Accounts, Select(r, c)  PROVE NothingExcluded
      BY <1>1, <2>1, GotoExcludes DEF Select, Jobs
    <2>2. CASE WaitForCooldown(r)
      BY <1>1, <2>2, GotoExcludes DEF WaitForCooldown, Jobs
    <2>3. CASE Retry(r)
      BY <1>1, <2>3, GotoExcludes DEF Retry, Jobs
    <2>4. CASE GiveUp(r)
      BY <1>1, <2>4, GotoExcludes DEF GiveUp
    <2>. QED  BY <1>2, <2>1, <2>2, <2>3, <2>4 DEF Choose
  <1>3. CASE Execute(r)
    <2>1. ASSUME NEW s, Goto(r, FailedJob(r, s))  PROVE NothingExcluded
      BY <1>1, <2>1, GotoExcludes DEF FailedJob, Jobs
    <2>2. CASE Start(r)
      BY <1>1, <2>2, GotoExcludes DEF Start, Jobs
    <2>3. CASE Refuse(r) \/ (\E s \in Outcomes : ReturnFailure(r, s)) \/ ProxyUnreachable(r)
      BY <2>1, <2>3 DEF Refuse, ReturnFailure, ProxyUnreachable
    <2>4. CASE ClearAccountError(r) \/ Answer(r) \/ Settle(r) \/ Throw(r)
      BY <1>1, <2>4, GotoExcludes DEF ClearAccountError, Answer, Settle, Throw, Pcs
    <2>. QED  BY <1>3, <2>2, <2>3, <2>4 DEF Execute
  <1>4. CASE AbandonWait(r) \/ SkipDisable(r)
    BY <1>1, <1>4, GotoExcludes DEF AbandonWait, SkipDisable
  <1>5. CASE Gate(r)
    <2>1. CASE job' = job
      BY <2>1 DEF NothingExcluded
    <2>2. CASE Admit(r)
      BY <1>1, <2>2, GotoExcludes DEF Admit
    <2>. QED  BY <1>5, <2>1, <2>2 DEF Gate
  <1>6. CASE RetryEarlyClose(r)
    BY <1>1, <1>6, GotoExcludes DEF RetryEarlyClose, Jobs
  <1>7. CASE QueueMark(r) \/ ReadRow(r)
    BY <1>1, <1>7, GotoExcludes DEF QueueMark, ReadRow, Jobs
  <1>. QED  BY <1>2, <1>3, <1>4, <1>5, <1>6, <1>7

(* True of every MaxBackoffSteps, by arithmetic the provers have no rule for. *)
DoublingIsPositive == \A n \in 0..MaxBackoffSteps : 2^n > 0

LEMMA CooldownPositive ==
  ASSUME DoublingIsPositive, NEW n \in Nat
  PROVE  Cooldown(n) > 0
  <1> DEFINE p == 2^Lesser(n, MaxBackoffSteps)
  <1>1. Lesser(n, MaxBackoffSteps) \in 0..MaxBackoffSteps
    BY DEF Lesser
  <1>2. p \in Int /\ p > 0
    BY <1>1 DEF DoublingIsPositive
  <1>3. BaseCooldown \in Nat /\ BaseCooldown > 0
    OBVIOUS
  <1>4. Cooldown(n) = BaseCooldown * p
    BY DEF Cooldown
  <1> HIDE DEF p
  <1>. QED  BY <1>2, <1>3, <1>4

LeftOut(r, c) ==
  (/\ c \in job'[r].excluded /\ c \notin job[r].excluded
   /\ job[r].status \notin Uncooled)
     => (row'[c].cool > 0 \/ row'[c].status = "terminal")

(* The two steps that exclude the account of the mark they end.            *)
LEMMA MarksLeaveOut ==
  ASSUME TypeOK, DoublingIsPositive, NEW r \in Requests, SkipMark(r) \/ WriteRow(r)
  PROVE  \A q \in Requests, c \in Accounts : LeftOut(q, c)
  <1> DEFINE a == job[r].account
  <1>1. LeaveMark(r, NextAccount(r)) /\ job[r] \in Jobs /\ a \in Accounts /\ row[a] \in Rows
    BY TypeOKByParts DEF SkipMark, WriteRow, MarkTurn, At, GoodJob, Working
  <1>2. NextAccount(r).excluded = job[r].excluded \cup {a}
    BY <1>1 DEF NextAccount, Jobs
  <1>3. ASSUME job[r].status \notin Uncooled
        PROVE  row'[a].cool > 0 \/ row'[a].status = "terminal"
    <2>1. CASE SkipMark(r)
      BY <2>1 DEF SkipMark, Terminal, Cooling
    <2>2. CASE WriteRow(r)
      <3>1. row'[a] = Marked(r) /\ job[r].level \in Nat
        BY <1>1, <2>2, TypeOKByParts DEF WriteRow, Jobs
      <3>2. DOMAIN Blamed(r) = {"status", "cool", "backoff", "error"}
        BY <1>1 DEF Blamed, Rows
      <3>3. CASE job[r].status = "banned"
        <4>1. Marked(r) = [Blamed(r) EXCEPT !.status = "terminal"]
          BY <3>3 DEF Marked, Uncooled
        <4>. QED  BY <3>1, <3>2, <4>1
      <3>4. CASE job[r].status # "banned"
        <4> DEFINE n == Lesser(Blamed(r).backoff + 1, MaxBackoffSteps)
        <4>1. Marked(r) = [Blamed(r) EXCEPT !.status = "unavailable",
                                            !.cool = Cooldown(job[r].level),
                                            !.backoff = n]
          BY <1>3, <3>4 DEF Marked
        <4> HIDE DEF n
        <4>2. Marked(r).cool = Cooldown(job[r].level)
          BY <3>2, <4>1
        <4>. QED  BY <3>1, <4>2, CooldownPositive
      <3>. QED  BY <3>3, <3>4
    <2>. QED  BY <2>1, <2>2
  <1>4. ASSUME NEW q \in Requests, NEW c \in Accounts  PROVE LeftOut(q, c)
    <2>1. CASE q = r
      BY <1>1, <1>2, <1>3, <2>1, LeaveMarkExcludes DEF LeftOut
    <2>2. CASE q # r
      BY <1>1, <2>2, LeaveMarkExcludes DEF LeftOut
    <2>. QED  BY <2>1, <2>2
  <1>. QED  BY <1>4

(* A request that falls back leaves the connection that failed cooling or  *)
(* terminal, whoever wrote its mark and however marks interleave.          *)
THEOREM FallbackLeaves ==
  ASSUME DoublingIsPositive
  PROVE  Spec => FallbackLeavesACooldown
  <1>1. ASSUME TypeOK, Next
        PROVE  \A q \in Requests, c \in Accounts : LeftOut(q, c)
    <2>1. ASSUME NothingExcluded  PROVE \A q \in Requests, c \in Accounts : LeftOut(q, c)
      BY <2>1 DEF NothingExcluded, LeftOut
    <2>2. ASSUME NEW r \in Requests, Gate(r) \/ Handle(r) \/ AbandonWait(r)
          PROVE  \A q \in Requests, c \in Accounts : LeftOut(q, c)
      <3>1. CASE NoFallback(r)
        <4>1. LeaveMark(r, Idle)
          BY <3>1 DEF NoFallback
        <4>2. Idle.excluded = {}
          BY DEF Idle
        <4>3. NothingExcluded
          BY <1>1, <4>1, <4>2, LeaveMarkExcludes DEF NothingExcluded
        <4>. QED  BY <2>1, <4>3
      <3>. QED  BY <1>1, <2>1, <2>2, <3>1, MovesExclude, MarksLeaveOut DEF Handle, Fallback
    <2>3. CASE Monitor
      BY <2>1, <2>3 DEF Monitor, NothingExcluded
    <2>4. CASE Restart
      <3>1. Idle.excluded = {}
        BY DEF Idle
      <3>. QED  BY <2>1, <2>4, <3>1 DEF Restart, NothingExcluded
    <2>5. CASE Tick
      <3>1. \A q \in Requests : job'[q].excluded = job[q].excluded
        BY <1>1, <2>5, TypeOKByParts DEF Tick, Jobs
      <3>. QED  BY <2>1, <3>1 DEF NothingExcluded
    <2>. QED  BY <1>1, <2>2, <2>3, <2>4, <2>5 DEF Next
  <1>2. TypeOK /\ [Next]_vars
          => [\A q \in Requests, c \in Accounts : LeftOut(q, c)]_vars
    BY <1>1
  <1>3. [\A q \in Requests, c \in Accounts : LeftOut(q, c)]_vars =>
           [\A r \in Requests, c \in Accounts :
              (/\ c \in job'[r].excluded /\ c \notin job[r].excluded
               /\ job[r].status \notin Uncooled)
                => (row'[c].cool > 0 \/ row'[c].status = "terminal")]_vars
    BY DEF LeftOut
  <1>. QED  BY <1>2, <1>3, TypeCorrect, PTL DEF Spec, FallbackLeavesACooldown

-----------------------------------------------------------------------------
(* What is proved of CircuitBreaker, carried over to the provider's        *)
(* breaker.  Proved renames the definitions of that module once more, so   *)
(* the first lemmas say that both names mean the same.                     *)
Proved == INSTANCE CircuitBreaker_proofs WITH
             Calls <- Requests, calls <- InExecute, Kinds <- {}, NoKind <- None,
             NoRow <- None, CooldownByKind <- NoKinds, KindThresholds <- NoKinds

LEMMA SameLooks ==
  /\ \A b : CB!Row(b) = Proved!Row(b)
  /\ \A b : CB!RefreshOpenState(b) = Proved!RefreshOpenState(b)
  /\ \A b : CB!CanExecute(b) <=> Proved!CanExecute(b)
  /\ \A old, new, s : CB!WindowProbes(old, new, s) = Proved!WindowProbes(old, new, s)
  /\ \A n : CB!Older(n) = Proved!Older(n)
  BY DEF CB!Row, Proved!Row, CB!RefreshOpenState, Proved!RefreshOpenState,
     CB!ShouldAttemptReset, Proved!ShouldAttemptReset, CB!EffectiveCooldown,
     Proved!EffectiveCooldown, CB!EffectiveResetTimeout,
     Proved!EffectiveResetTimeout, CB!Lesser, Proved!Lesser, CB!Transition,
     Proved!Transition, CB!CanExecute, Proved!CanExecute, CB!WindowProbes,
     Proved!WindowProbes, CB!Older, Proved!Older, CB!Never, Proved!Never

LEMMA SameCounts ==
  /\ \A b : CB!OnSuccess(b) = Proved!OnSuccess(b)
  /\ \A b, k : CB!OnFailure(b, k) = Proved!OnFailure(b, k)
  /\ \A b, k : CB!FailurePersists(b, k) <=> Proved!FailurePersists(b, k)
  /\ \A b : CB!ResetBreaker(b) = Proved!ResetBreaker(b)
  /\ \A w : CB!Restore(w) = Proved!Restore(w)
  <1>1. CB!Fresh = Proved!Fresh
    BY DEF CB!Fresh, Proved!Fresh, CB!Never, Proved!Never
  <1>2. \A b : CB!ResetBreaker(b) = Proved!ResetBreaker(b)
    BY <1>1 DEF CB!ResetBreaker, Proved!ResetBreaker
  <1>3. \A b : CB!Recovered(b) = Proved!Recovered(b)
    BY <1>1 DEF CB!Recovered, Proved!Recovered
  <1>4. \A w : CB!Restore(w) = Proved!Restore(w)
    BY <1>1 DEF CB!Restore, Proved!Restore
  <1>5. /\ \A b, s : CB!Transition(b, s) = Proved!Transition(b, s)
        /\ \A b : CB!OneFewer(b) = Proved!OneFewer(b)
    BY DEF CB!Transition, Proved!Transition, CB!OneFewer, Proved!OneFewer
  <1>6. \A b : CB!OnSuccess(b) = Proved!OnSuccess(b)
    BY <1>2, <1>3, <1>5 DEF CB!OnSuccess, Proved!OnSuccess
  <1>7. \A b, k : CB!Counted(b, k) = Proved!Counted(b, k)
    BY DEF CB!Counted, Proved!Counted, CB!OneMore, Proved!OneMore
  <1>8. \A b, k : CB!KindOpens(b, k) <=> Proved!KindOpens(b, k)
    BY <1>7 DEF CB!KindOpens, Proved!KindOpens, CB!KindLimit,
       Proved!KindLimit
  <1>9. \A b, k : CB!FailurePersists(b, k) <=> Proved!FailurePersists(b, k)
    BY <1>8 DEF CB!FailurePersists, Proved!FailurePersists
  <1>10. \A n, m : CB!OneMore(n, m) = Proved!OneMore(n, m)
    BY DEF CB!OneMore, Proved!OneMore
  <1>11. \A b, k : CB!OnFailure(b, k) = Proved!OnFailure(b, k)
    BY <1>5, <1>7, <1>8, <1>10 DEF CB!OnFailure, Proved!OnFailure
  <1>. QED  BY <1>2, <1>4, <1>6, <1>9, <1>11

LEMMA SameSteps ==
  CB!Next => Proved!Next
  <1>1. \A c : CB!Begin(c) => Proved!Begin(c)
    BY SameLooks DEF CB!Begin, Proved!Begin
  <1>2. CB!Inspect => Proved!Inspect
    BY SameLooks DEF CB!Inspect, Proved!Inspect
  <1>3. CB!Operator => Proved!Operator
    BY SameLooks, SameCounts DEF CB!Operator, Proved!Operator, CB!Lookup,
       Proved!Lookup, CB!Reset, Proved!Reset, CB!Restart, Proved!Restart
  <1>4. CB!Tick => Proved!Tick
    BY SameLooks DEF CB!Tick, Proved!Tick
  <1>5. \A c : CB!Succeed(c) => Proved!Succeed(c)
    BY SameLooks, SameCounts DEF CB!Succeed, Proved!Succeed, CB!End,
       Proved!End
  <1>6. \A c, k : CB!Fail(c, k) => Proved!Fail(c, k)
    BY SameLooks, SameCounts DEF CB!Fail, Proved!Fail, CB!End, Proved!End
  <1>7. \A c : CB!Ignore(c) => Proved!Ignore(c)
    BY DEF CB!Ignore, Proved!Ignore, CB!End, Proved!End
  <1>8. CB!CountSuccess => Proved!CountSuccess
    BY SameLooks, SameCounts DEF CB!CountSuccess, Proved!CountSuccess
  <1>9. \A k : CB!CountFailure(k) => Proved!CountFailure(k)
    BY SameLooks, SameCounts DEF CB!CountFailure, Proved!CountFailure
  <1>10. CB!CallStep => Proved!CallStep
    BY <1>1, <1>5, <1>6 DEF CB!CallStep, Proved!CallStep
  <1>. QED
    BY <1>2, <1>3, <1>4, <1>7, <1>8, <1>9, <1>10 DEF CB!Next, Proved!Next,
       CB!NextCounted, Proved!NextCounted

LEMMA SameSpec == ImplementsCircuitBreaker => Proved!Spec
  <1>1. CB!Init => Proved!Init
    BY DEF CB!Init, Proved!Init, CB!Fresh, Proved!Fresh, CB!Never,
       Proved!Never
  <1>2. [CB!Next]_(CB!vars) => [Proved!Next]_(Proved!vars)
    BY SameSteps DEF CB!vars, Proved!vars
  <1>. QED  BY <1>1, <1>2, PTL DEF ImplementsCircuitBreaker, CB!Spec, Proved!Spec

(* However many requests pass the gate, end late, throw or count a result  *)
(* outside execute(): the failure count of the provider's breaker fits its *)
(* state, its backoff ends with the outage, and a half-open window never   *)
(* runs more probes than halfOpenRequests.                                 *)
THEOREM ProviderBreakerSound ==
  Spec => [](CB!CountBands /\ CB!CyclesEndWithOutage /\ CB!ProbeBudget)
  <1>1. Proved!ConfigAssumption
    BY BreakerAssumption DEF Proved!ConfigAssumption
  <1>2. Proved!KindAssumption
    BY DEF Proved!KindAssumption, NoKinds
  <1>3. Proved!BoundAssumption
    BY BreakerAssumption DEF Proved!BoundAssumption, NoKinds
  <1>4. Proved!Spec => []Proved!CountBands
    BY <1>1, <1>2, <1>3, Proved!CountsStayInBand
  <1>5. Proved!Spec => []Proved!CyclesEndWithOutage
    BY <1>1, <1>2, <1>3, Proved!CyclesEnd
  <1>6. Proved!Spec => []Proved!ProbeBudget
    BY <1>1, <1>2, <1>3, Proved!ProbesStayInBudget
  <1>7. \A S : Proved!Cardinality(S) = CB!Cardinality(S)
    BY DEF Proved!Cardinality, CB!Cardinality, Proved!IsFiniteSet, CB!IsFiniteSet
  <1>8. /\ Proved!CountBands => CB!CountBands
        /\ Proved!CyclesEndWithOutage => CB!CyclesEndWithOutage
        /\ Proved!ProbeBudget => CB!ProbeBudget
    BY <1>7 DEF Proved!CountBands, CB!CountBands, Proved!CyclesEndWithOutage,
       CB!CyclesEndWithOutage, Proved!ProbeBudget, CB!ProbeBudget
  <1>. QED  BY BreakerImplemented, SameSpec, <1>4, <1>5, <1>6, <1>8, PTL

-----------------------------------------------------------------------------
(* The conjuncts of MarkQueueSound, of any requests j and map entries t.   *)
Marks(j, r) == j[r].pc \in {"queued", "marking"}

WaitsSound(j) ==
    \A r \in Requests :
       j[r].pred # None => /\ j[r].pc = "queued" /\ Marks(j, j[r].pred)
                           /\ j[j[r].pred].account = j[r].account
OneFollower(j) ==
    \A q, r \in Requests : j[q].pred = j[r].pred => j[q].pred = None \/ q = r
LatestSound(j, t) ==
    \A c \in Accounts :
       t[c] # None => /\ Marks(j, t[c]) /\ j[t[c]].account = c
                      /\ \A r \in Requests : j[r].pred # t[c]
NoCircle(j) ==
    \A S \in SUBSET Requests : S # {} => \E r \in S : j[r].pred \notin S

Chain(j, t) == WaitsSound(j) /\ OneFollower(j) /\ LatestSound(j, t) /\ NoCircle(j)

LEMMA ChainIs ==
  /\ MarkQueueSound <=> Chain(job, tail)
  /\ MarkQueueSound' <=> Chain(job', tail')
  BY DEF MarkQueueSound, Chain, WaitsSound, OneFollower, LatestSound, NoCircle,
     Marks, InMark, At

(* k differs from j in nothing the chain is made of.                       *)
SamePlaces(j, k) ==
    \A q \in Requests :
       /\ k[q].pred = j[q].pred
       /\ Marks(k, q) <=> Marks(j, q)
       /\ Marks(j, q) => k[q].account = j[q].account
       /\ j[q].pred # None => k[q].pc = j[q].pc

LEMMA SameChain ==
  ASSUME NEW j, NEW k, NEW t, Chain(j, t), SamePlaces(j, k),
         \A q \in Requests : j[q].pred \in Requests \cup {None},
         \A c \in Accounts : t[c] \in Requests \cup {None}
  PROVE  Chain(k, t)
  <1>1. WaitsSound(k)
    <2> SUFFICES ASSUME NEW r \in Requests, k[r].pred # None
                 PROVE  /\ k[r].pc = "queued" /\ Marks(k, k[r].pred)
                        /\ k[k[r].pred].account = k[r].account
      BY DEF WaitsSound
    <2>1. k[r].pred = j[r].pred /\ j[r].pred \in Requests /\ k[r].pc = j[r].pc
      BY DEF SamePlaces
    <2>2. /\ j[r].pc = "queued" /\ Marks(j, j[r].pred)
          /\ j[j[r].pred].account = j[r].account
      BY <2>1 DEF Chain, WaitsSound
    <2>3. Marks(j, r)
      BY <2>2 DEF Marks
    <2>. QED  BY <2>1, <2>2, <2>3 DEF SamePlaces
  <1>2. OneFollower(k) /\ NoCircle(k)
    BY DEF Chain, OneFollower, NoCircle, SamePlaces
  <1>3. LatestSound(k, t)
    BY DEF Chain, LatestSound, SamePlaces
  <1>. QED  BY <1>1, <1>2, <1>3 DEF Chain

(* A request joins behind the latest marker of its connection.             *)
LEMMA ChainGrows ==
  ASSUME NEW j, NEW k, NEW t, NEW u, Chain(j, t),
         NEW r \in Requests, NEW c \in Accounts,
         ~Marks(j, r), t[c] \in Requests \cup {None}, j[r].account = c,
         \A q \in Requests : j[q].pred \in Requests \cup {None},
         k[r].pc = "queued", k[r].pred = t[c], k[r].account = c,
         \A q \in Requests \ {r} : k[q] = j[q],
         \A d \in Accounts : t[d] \in Requests \cup {None},
         u[c] = r, \A d \in Accounts \ {c} : u[d] = t[d]
  PROVE  Chain(k, u)
  <1>1. \A q \in Requests : j[q].pred # r
    BY DEF Chain, WaitsSound
  <1>2. j[r].pred = None
    BY DEF Chain, WaitsSound, Marks
  <1>3. t[c] # r
    BY DEF Chain, LatestSound
  <1>4. Marks(k, r) /\ \A q \in Requests : Marks(j, q) => q # r /\ Marks(k, q)
    BY DEF Marks
  <1>5. WaitsSound(k)
    <2> SUFFICES ASSUME NEW q \in Requests, k[q].pred # None
                 PROVE  /\ k[q].pc = "queued" /\ Marks(k, k[q].pred)
                        /\ k[k[q].pred].account = k[q].account
      BY DEF WaitsSound
    <2>1. CASE q = r
      <3>1. Marks(j, t[c]) /\ j[t[c]].account = c /\ t[c] \in Requests
        BY <2>1 DEF Chain, LatestSound
      <3>. QED  BY <2>1, <3>1, <1>4
    <2>2. CASE q # r
      <3>1. /\ k[q] = j[q] /\ j[q].pc = "queued" /\ Marks(j, j[q].pred)
            /\ j[j[q].pred].account = j[q].account /\ j[q].pred \in Requests
        BY <2>2 DEF Chain, WaitsSound
      <3>. QED  BY <3>1, <1>4
    <2>. QED  BY <2>1, <2>2
  <1>6. OneFollower(k)
    BY DEF Chain, OneFollower, LatestSound
  <1>7. LatestSound(k, u)
    <2> SUFFICES ASSUME NEW d \in Accounts, u[d] # None
                 PROVE  /\ Marks(k, u[d]) /\ k[u[d]].account = d
                        /\ \A q \in Requests : k[q].pred # u[d]
      BY DEF LatestSound
    <2>1. CASE d = c
      BY <2>1, <1>1, <1>3, <1>4
    <2>2. CASE d # c
      <3>1. /\ u[d] = t[d] /\ t[d] \in Requests /\ Marks(j, t[d]) /\ j[t[d]].account = d
            /\ \A q \in Requests : j[q].pred # t[d]
        BY <2>2 DEF Chain, LatestSound
      <3>2. t[c] # None => j[t[c]].account = c
        BY DEF Chain, LatestSound
      <3>3. t[c] # t[d]
        BY <2>2, <3>1, <3>2
      <3>. QED  BY <3>1, <3>3, <1>4
    <2>. QED  BY <2>1, <2>2
  <1>8. NoCircle(k)
    <2> SUFFICES ASSUME NEW S \in SUBSET Requests, S # {}
                 PROVE  \E q \in S : k[q].pred \notin S
      BY DEF NoCircle
    <2>1. CASE S \ {r} = {}
      BY <2>1, <1>3
    <2>2. CASE S \ {r} # {}
      <3>1. PICK q \in S \ {r} : j[q].pred \notin S \ {r}
        BY <2>2 DEF Chain, NoCircle
      <3>2. j[q].pred \notin S
        BY <3>1, <1>1
      <3>. QED  BY <3>1, <3>2
    <2>. QED  BY <2>1, <2>2
  <1>. QED  BY <1>5, <1>6, <1>7, <1>8 DEF Chain

(* A request whose turn it was leaves: its follower's turn begins, and the *)
(* entry of its connection goes whoever it names.                          *)
LEMMA ChainShrinks ==
  ASSUME NEW j, NEW k, NEW t, NEW u, Chain(j, t),
         NEW r \in Requests, NEW c \in Accounts,
         j[r].account = c, j[r].pred = None, Marks(j, r),
         ~Marks(k, r), k[r].pred = None,
         \A q \in Requests : j[q].pred \in Requests \cup {None},
         \A q \in Requests \ {r} :
            /\ k[q].pc = j[q].pc /\ k[q].account = j[q].account
            /\ k[q].pred = IF j[q].pred = r THEN None ELSE j[q].pred,
         \A d \in Accounts : t[d] \in Requests \cup {None},
         u[c] = None, \A d \in Accounts \ {c} : u[d] = t[d]
  PROVE  Chain(k, u)
  <1>1. \A q \in Requests : k[q].pred # None =>
                               k[q].pred = j[q].pred /\ q # r /\ j[q].pred # r
    OBVIOUS
  <1>2. \A q \in Requests \ {r} : Marks(k, q) <=> Marks(j, q)
    BY DEF Marks
  <1>3. WaitsSound(k)
    <2> SUFFICES ASSUME NEW q \in Requests, k[q].pred # None
                 PROVE  /\ k[q].pc = "queued" /\ Marks(k, k[q].pred)
                        /\ k[k[q].pred].account = k[q].account
      BY DEF WaitsSound
    <2>1. k[q].pred = j[q].pred /\ q # r /\ j[q].pred \in Requests \ {r}
      BY <1>1
    <2>2. /\ j[q].pc = "queued" /\ Marks(j, j[q].pred)
          /\ j[j[q].pred].account = j[q].account
      BY <2>1 DEF Chain, WaitsSound
    <2>. QED  BY <2>1, <2>2, <1>2
  <1>4. OneFollower(k)
    BY <1>1 DEF Chain, OneFollower
  <1>5. LatestSound(k, u)
    <2> SUFFICES ASSUME NEW d \in Accounts, u[d] # None
                 PROVE  /\ Marks(k, u[d]) /\ k[u[d]].account = d
                        /\ \A q \in Requests : k[q].pred # u[d]
      BY DEF LatestSound
    <2>1. /\ d # c /\ u[d] = t[d] /\ t[d] \in Requests
          /\ Marks(j, t[d]) /\ j[t[d]].account = d
          /\ \A q \in Requests : j[q].pred # t[d]
      BY DEF Chain, LatestSound
    <2>2. t[d] # r
      BY <2>1
    <2>. QED  BY <2>1, <2>2, <1>1, <1>2
  <1>6. NoCircle(k)
    <2> SUFFICES ASSUME NEW S \in SUBSET Requests, S # {}
                 PROVE  \E q \in S : k[q].pred \notin S
      BY DEF NoCircle
    <2>1. PICK q \in S : j[q].pred \notin S
      BY DEF Chain, NoCircle
    <2>. QED  BY <2>1, <1>1
  <1>. QED  BY <1>3, <1>4, <1>5, <1>6 DEF Chain

ChainNow == Chain(job, tail)

LEMMA JobsChained ==
  ASSUME TypeOK
  PROVE  /\ \A q \in Requests : job[q] \in Jobs /\ job[q].pred \in Requests \cup {None}
         /\ \A c \in Accounts : tail[c] \in Requests \cup {None}
         /\ \A q \in Requests : Marks(job, q) => job[q].account \in Accounts
  BY TypeOKByParts DEF Jobs, GoodJob, Working, Marks

LEMMA OutsideWaitsForNobody ==
  ASSUME ChainNow, NEW r \in Requests, ~Marks(job, r)
  PROVE  job[r].pred = None
  BY DEF ChainNow, Chain, WaitsSound, Marks

Outside(j) == j.pc \notin {"queued", "marking"} /\ j.pred = None

(* A request that neither waits nor marks moves, and still does neither.   *)
LEMMA OutsideMove ==
  ASSUME TypeOK, ChainNow, NEW r \in Requests, NEW j, Goto(r, j), tail' = tail,
         ~Marks(job, r), Outside(j)
  PROVE  ChainNow'
  <1>1. job' = [job EXCEPT ![r] = j] /\ job \in [Requests -> Jobs]
    BY TypeOKByParts DEF Goto
  <1>2. SamePlaces(job, job')
    BY <1>1, OutsideWaitsForNobody DEF SamePlaces, Outside, Marks
  <1>3. Chain(job', tail)
    BY <1>2, SameChain, JobsChained DEF ChainNow
  <1>. QED  BY <1>3 DEF ChainNow

LEMMA LeaveChain ==
  ASSUME TypeOK, ChainNow, NEW r \in Requests, NEW j, LeaveMark(r, j),
         Marks(job, r), job[r].pred = None, Outside(j)
  PROVE  ChainNow'
  <1>1. job[r].account \in Accounts /\ tail \in [Accounts -> Requests \cup {None}]
    BY JobsChained, TypeOKByParts
  <1>2. \A q \in Requests \ {r} :
           /\ job'[q].pc = job[q].pc /\ job'[q].account = job[q].account
           /\ job'[q].pred = IF job[q].pred = r THEN None ELSE job[q].pred
    BY JobsChained DEF LeaveMark, Jobs
  <1>3. ~Marks(job', r) /\ job'[r].pred = None
    BY DEF LeaveMark, Marks, Outside
  <1>4. tail'[job[r].account] = None
        /\ \A d \in Accounts \ {job[r].account} : tail'[d] = tail[d]
    BY <1>1 DEF LeaveMark
  <1>5. Chain(job', tail')
    BY <1>1, <1>2, <1>3, <1>4, ChainShrinks, JobsChained DEF ChainNow
  <1>. QED  BY <1>5 DEF ChainNow

LEMMA IdleOutside ==
  /\ Outside(Idle)
  /\ \A p \in Pcs \ {"queued", "marking"} : Outside([Idle EXCEPT !.pc = p])
  /\ Outside([Idle EXCEPT !.pc = "choose", !.budget = RetryBudget])
  BY DEF Idle, Outside

LEMMA GateChain ==
  ASSUME TypeOK, ChainNow, NEW r \in Requests, Gate(r) \/ AbandonWait(r)
  PROVE  ChainNow'
  <1>1. ~Marks(job, r) /\ tail' = tail
    BY DEF Gate, AbandonWait, At, Marks
  <1>2. CASE Goto(r, Idle) \/ Admit(r)
    BY <1>1, <1>2, OutsideMove, IdleOutside DEF Admit
  <1>3. CASE job' = job
    BY <1>1, <1>3 DEF ChainNow
  <1>. QED  BY <1>2, <1>3 DEF Gate, AbandonWait

LEMMA ChooseChain ==
  ASSUME TypeOK, ChainNow, NEW r \in Requests, Choose(r)
  PROVE  ChainNow'
  <1>1. ~Marks(job, r) /\ tail' = tail /\ job[r] \in Jobs
    BY JobsChained DEF Choose, Select, WaitForCooldown, Retry, GiveUp, Exhausted, At, Marks
  <1>2. job[r].pred = None
    BY <1>1, OutsideWaitsForNobody
  <1>3. \E j : Goto(r, j) /\ Outside(j)
    <2>1. ASSUME NEW c \in Accounts, Select(r, c)  PROVE \E j : Goto(r, j) /\ Outside(j)
      <3> DEFINE j == [job[r] EXCEPT !.pc = "execute", !.account = c, !.dirty = (row[c] # Clean)]
      <3>1. Goto(r, j)
        BY <2>1 DEF Select
      <3>2. Outside(j)
        BY <1>1, <1>2 DEF Outside, Jobs
      <3>. QED  BY <3>1, <3>2
    <2>2. CASE WaitForCooldown(r)
      <3>1. PICK c \in Earliest :
               Goto(r, [job[r] EXCEPT !.pc = "waiting", !.wait = row[c].cool,
                                      !.budget = @ - row[c].cool])
        BY <2>2 DEF WaitForCooldown
      <3> DEFINE j == [job[r] EXCEPT !.pc = "waiting", !.wait = row[c].cool,
                                     !.budget = @ - row[c].cool]
      <3>2. Outside(j)
        BY <1>1, <1>2 DEF Outside, Jobs
      <3>. QED  BY <3>1, <3>2
    <2>3. CASE Retry(r)
      <3> DEFINE j == [job[r] EXCEPT !.pc = "choose", !.excluded = {}, !.attempt = @ + 1]
      <3>1. Goto(r, j)
        BY <2>3 DEF Retry
      <3>2. Outside(j)
        BY <1>1, <1>2 DEF Outside, Jobs
      <3>. QED  BY <3>1, <3>2
    <2>4. CASE GiveUp(r)
      BY <2>4, IdleOutside DEF GiveUp
    <2>. QED  BY <2>1, <2>2, <2>3, <2>4 DEF Choose
  <1>. QED  BY <1>1, <1>3, OutsideMove

LEMMA ExecuteChain ==
  ASSUME TypeOK, ChainNow, NEW r \in Requests, Execute(r)
  PROVE  ChainNow'
  <1>1. ~Marks(job, r) /\ tail' = tail /\ job[r] \in Jobs
    BY JobsChained DEF Execute, Start, Refuse, ClearAccountError, Answer, Settle,
       ReturnFailure, ProxyUnreachable, Throw, At, Marks
  <1>2. job[r].pred = None
    BY <1>1, OutsideWaitsForNobody
  <1>3. \E j : Goto(r, j) /\ Outside(j)
    <2>1. \A s : Outside(FailedJob(r, s))
      BY <1>1, <1>2 DEF FailedJob, Outside, Jobs
    <2>2. CASE Start(r)
      BY <1>1, <1>2, <2>2 DEF Start, Outside, Jobs
    <2>3. CASE Refuse(r) \/ (\E s \in Outcomes : ReturnFailure(r, s)) \/ ProxyUnreachable(r)
      BY <2>1, <2>3 DEF Refuse, ReturnFailure, ProxyUnreachable
    <2>4. CASE ClearAccountError(r) \/ Answer(r) \/ Settle(r) \/ Throw(r)
      BY <2>4, IdleOutside DEF ClearAccountError, Answer, Settle, Throw, Pcs
    <2>. QED  BY <2>2, <2>3, <2>4 DEF Execute
  <1>. QED  BY <1>1, <1>3, OutsideMove

LEMMA FallbackChain ==
  ASSUME TypeOK, ChainNow, NEW r \in Requests, Fallback(r)
  PROVE  ChainNow'
  <1>1. job[r] \in Jobs
    BY JobsChained
  <1>2. At(r, "failed") => ~Marks(job, r) /\ job[r].pred = None /\ job[r].account \in Accounts
    BY OutsideWaitsForNobody, TypeOKByParts DEF At, Marks, GoodJob, Working
  <1>3. MarkTurn(r) \/ At(r, "marking")
          => Marks(job, r) /\ job[r].pred = None /\ job[r].account \in Accounts
    BY JobsChained DEF MarkTurn, At, Marks, ChainNow, Chain, WaitsSound
  <1>4. CASE RetryEarlyClose(r)
    <2> DEFINE j == [job[r] EXCEPT !.pc = "choose", !.early = TRUE,
                                   !.account = None, !.status = None]
    <2>1. At(r, "failed") /\ (Goto(r, Idle) \/ Goto(r, j)) /\ tail' = tail
      BY <1>4 DEF RetryEarlyClose
    <2>2. Outside(j)
      BY <1>1, <1>2, <2>1 DEF Outside, Jobs
    <2>. QED  BY <1>2, <2>1, <2>2, IdleOutside, OutsideMove
  <1>5. CASE SkipDisable(r)
    BY <1>2, <1>5, IdleOutside, OutsideMove DEF SkipDisable
  <1>6. CASE QueueMark(r)
    <2> DEFINE c == job[r].account
               k == [job[r] EXCEPT !.pc = "queued", !.pred = tail[job[r].account]]
    <2>1. ~Marks(job, r) /\ c \in Accounts
      BY <1>2, <1>6 DEF QueueMark
    <2>2. k.pc = "queued" /\ k.pred = tail[c] /\ k.account = c
      BY <1>1 DEF Jobs
    <2>3. job'[r] = k /\ \A q \in Requests \ {r} : job'[q] = job[q]
      BY <1>6, TypeOKByParts DEF QueueMark, Goto
    <2>4. tail'[c] = r /\ \A d \in Accounts \ {c} : tail'[d] = tail[d]
      BY <1>6, <2>1, TypeOKByParts DEF QueueMark
    <2>5. Chain(job', tail')
      <3> HIDE DEF k
      <3>. QED  BY <2>1, <2>2, <2>3, <2>4, ChainGrows, JobsChained DEF ChainNow
    <2>. QED  BY <2>5 DEF ChainNow
  <1>7. CASE ReadRow(r)
    <2> DEFINE k == [job[r] EXCEPT !.pc = "marking", !.level = row[job[r].account].backoff]
    <2>1. k.pc = "marking" /\ k.pred = job[r].pred /\ k.account = job[r].account
      BY <1>1 DEF Jobs
    <2>2. job'[r] = k /\ tail' = tail /\ \A q \in Requests \ {r} : job'[q] = job[q]
      BY <1>7, TypeOKByParts DEF ReadRow, Goto
    <2>3. SamePlaces(job, job')
      BY <1>3, <1>7, <2>1, <2>2 DEF SamePlaces, Marks, ReadRow
    <2>4. Chain(job', tail)
      BY <2>3, SameChain, JobsChained DEF ChainNow
    <2>. QED  BY <2>2, <2>4 DEF ChainNow
  <1>8. CASE SkipMark(r) \/ WriteRow(r)
    <2>1. Outside(NextAccount(r))
      BY <1>1 DEF NextAccount, Outside, Jobs
    <2>. QED  BY <1>3, <1>8, <2>1, LeaveChain DEF SkipMark, WriteRow
  <1>9. CASE NoFallback(r)
    BY <1>3, <1>9, IdleOutside, LeaveChain DEF NoFallback
  <1>. QED  BY <1>4, <1>5, <1>6, <1>7, <1>8, <1>9 DEF Fallback

LEMMA ChainInit ==
  ASSUME Init
  PROVE  ChainNow
  <1>1. \A q \in Requests : job[q].pred = None
    BY DEF Init, Idle
  <1>2. \A c \in Accounts : tail[c] = None
    BY DEF Init
  <1>. QED  BY <1>1, <1>2 DEF ChainNow, Chain, WaitsSound, OneFollower, LatestSound, NoCircle

LEMMA ChainStep ==
  ASSUME TypeOK, ChainNow, [Next]_vars
  PROVE  ChainNow'
  <1>1. ASSUME NEW r \in Requests, Gate(r) \/ Handle(r) \/ AbandonWait(r)
        PROVE  ChainNow'
    BY <1>1, GateChain, ChooseChain, ExecuteChain, FallbackChain DEF Handle
  <1>2. CASE Monitor \/ UNCHANGED vars
    BY <1>2 DEF Monitor, vars, ChainNow
  <1>3. CASE Restart
    <2>1. /\ \A q \in Requests : job'[q].pred = None
          /\ \A c \in Accounts : tail'[c] = None
      BY <1>3 DEF Restart, Idle
    <2>. QED  BY <2>1 DEF ChainNow, Chain, WaitsSound, OneFollower, LatestSound, NoCircle
  <1>4. CASE Tick
    <2>1. SamePlaces(job, job') /\ tail' = tail
      BY <1>4, JobsChained DEF Tick, SamePlaces, Marks, Jobs
    <2>2. Chain(job', tail)
      BY <2>1, SameChain, JobsChained DEF ChainNow
    <2>. QED  BY <2>1, <2>2 DEF ChainNow
  <1>. QED  BY <1>1, <1>2, <1>3, <1>4 DEF Next

(* However marks of the same connections interleave, are skipped or lost   *)
(* in a crash, and although each deletes the map entry its followers rely  *)
(* on: the chain of promises stays a line per connection, in which each    *)
(* request waits for one mark still to end and nobody waits in a circle.   *)
THEOREM MarksQueueSoundly == Spec => []MarkQueueSound
  <1>1. Init => ChainNow
    BY ChainInit
  <1>2. TypeOK /\ ChainNow /\ [Next]_vars => ChainNow'
    BY ChainStep
  <1>3. ChainNow <=> MarkQueueSound
    BY ChainIs DEF ChainNow
  <1>. QED  BY <1>1, <1>2, <1>3, TypeCorrect, PTL DEF Spec

(* So the mutex never locks up: whoever waits to mark a connection, some   *)
(* request holds the turn of that connection and can take its next step.   *)
(* It is the one of the waiters' line that waits for nobody.               *)
THEOREM MutexNeverStuck == Spec => []SomeMarkerCanMove
  <1>1. ASSUME TypeOK, MarkQueueSound
        PROVE  SomeMarkerCanMove
    <2> SUFFICES ASSUME NEW r \in Requests, job[r].pred # None
                 PROVE  \E q \in Requests : /\ At(q, "marking") \/ MarkTurn(q)
                                            /\ job[q].account = job[r].account
      BY DEF SomeMarkerCanMove
    <2> DEFINE Waiters == {q \in Requests : /\ job[q].pred # None
                                            /\ job[q].account = job[r].account}
    <2>1. PICK w \in Waiters : job[w].pred \notin Waiters
      <3>1. Waiters \in SUBSET Requests /\ Waiters # {}
        OBVIOUS
      <3>. QED  BY <1>1, <3>1 DEF MarkQueueSound
    <2>2. /\ job[w].pred \in Requests /\ InMark(job[w].pred)
          /\ job[job[w].pred].account = job[r].account
      BY <1>1, <2>1, JobsChained DEF MarkQueueSound
    <2>3. job[job[w].pred].pred = None
      BY <2>1, <2>2
    <2>. QED  BY <2>2, <2>3 DEF InMark, MarkTurn
  <1>. QED  BY <1>1, TypeCorrect, MarksQueueSoundly, PTL

-----------------------------------------------------------------------------
LEMMA Stages ==
  /\ Stage("idle") = 0 /\ Stage("waiting") = 1 /\ Stage("marking") = 2
  /\ Stage("queued") = 3 /\ Stage("settling") = 3 /\ Stage("failed") = 4
  /\ Stage("cleared") = 4 /\ Stage("upstream") = 5 /\ Stage("execute") = 6
  /\ Stage("choose") = 7
  BY DEF Stage

(* A request works on an account it has not excluded, and waits only for   *)
(* an attempt it still has.                                                *)
Untried(j) == /\ j.pc \in Working => j.account \notin j.excluded
              /\ j.pc = "waiting" => j.attempt < MaxRetries

AllUntried == \A r \in Requests : Untried(job[r])

(* One request moves; the others at most lose the mark they waited for.    *)
OneMoves(r) ==
  \A q \in Requests \ {r} : Stands(job'[q], job[q]) /\ job'[q].account = job[q].account

LEMMA GotoOneMoves ==
  ASSUME TypeOK, NEW r \in Requests, NEW j, Goto(r, j) \/ LeaveMark(r, j)
  PROVE  OneMoves(r) /\ job'[r] = j
  BY TypeOKByParts DEF Goto, LeaveMark, OneMoves, Stands, Jobs

Advances(r) == OneMoves(r) /\ Nearer(job'[r], job[r]) /\ Untried(job'[r])

LEMMA ChooseAdvances ==
  ASSUME TypeOK, AllUntried, NEW r \in Requests, Choose(r)
  PROVE  Advances(r)
  <1>. USE Stages
  <1>1. job[r] \in Jobs
    BY TypeOKByParts
  <1>2. ASSUME NEW c \in Accounts, Select(r, c)
        PROVE  Advances(r)
    <2> DEFINE j == [job[r] EXCEPT !.pc = "execute", !.account = c, !.dirty = (row[c] # Clean)]
    <2>1. Goto(r, j) /\ job[r].pc = "choose" /\ c \notin job[r].excluded
      BY <1>2 DEF Select, Usable, At
    <2>2. /\ j.pc = "execute" /\ j.attempt = job[r].attempt /\ j.account = c
          /\ j.early = job[r].early /\ j.excluded = job[r].excluded
      BY <1>1 DEF Jobs
    <2>. HIDE DEF j
    <2>3. job'[r] = j /\ OneMoves(r)
      BY <2>1, GotoOneMoves
    <2>. QED  BY <2>1, <2>2, <2>3 DEF Advances, Nearer, Untried, Working, At
  <1>3. ASSUME WaitForCooldown(r)
        PROVE  Advances(r)
    <2>1. PICK c \in Earliest :
             Goto(r, [job[r] EXCEPT !.pc = "waiting", !.wait = row[c].cool,
                                    !.budget = @ - row[c].cool])
      BY <1>3 DEF WaitForCooldown
    <2> DEFINE j == [job[r] EXCEPT !.pc = "waiting", !.wait = row[c].cool,
                                   !.budget = @ - row[c].cool]
    <2>2. /\ j.pc = "waiting" /\ j.attempt = job[r].attempt
          /\ j.early = job[r].early /\ j.excluded = job[r].excluded
      BY <1>1 DEF Jobs
    <2>3. Goto(r, j)
      BY <2>1
    <2>. HIDE DEF j
    <2>4. job'[r] = j /\ OneMoves(r)
      BY <2>3, GotoOneMoves
    <2>5. job[r].attempt < MaxRetries /\ job[r].pc = "choose"
      BY <1>3 DEF WaitForCooldown, ShouldRetry, Exhausted, At
    <2>. QED  BY <2>2, <2>4, <2>5 DEF Advances, Nearer, Untried, Working, At
  <1>4. ASSUME Retry(r)
        PROVE  Advances(r)
    <2> DEFINE j == [job[r] EXCEPT !.pc = "choose", !.excluded = {}, !.attempt = @ + 1]
    <2>1. Goto(r, j) /\ At(r, "waiting")
      BY <1>4 DEF Retry
    <2>2. j.pc = "choose" /\ j.attempt = job[r].attempt + 1
      BY <1>1 DEF Jobs
    <2>. HIDE DEF j
    <2>3. job'[r] = j /\ OneMoves(r)
      BY <2>1, GotoOneMoves
    <2>4. job[r].attempt \in Nat /\ job[r].attempt < MaxRetries
      BY <1>1, <2>1 DEF Jobs, AllUntried, Untried, At
    <2>5. Nearer(j, job[r]) /\ Untried(j)
      BY <2>2, <2>4 DEF Nearer, Untried, Working
    <2>. QED  BY <2>3, <2>5 DEF Advances
  <1>5. ASSUME GiveUp(r)
        PROVE  Advances(r)
    <2>1. Goto(r, Idle) /\ job[r].pc = "choose"
      BY <1>5 DEF GiveUp, Exhausted, At
    <2>2. job'[r] = Idle /\ OneMoves(r)
      BY <2>1, GotoOneMoves
    <2>3. Idle.pc = "idle"
      BY DEF Idle
    <2>4. Nearer(Idle, job[r]) /\ Untried(Idle)
      BY <2>1, <2>3 DEF Nearer, Untried, Working
    <2>. QED  BY <2>2, <2>4 DEF Advances
  <1>. QED  BY <1>2, <1>3, <1>4, <1>5 DEF Choose

LEMMA ExecuteAdvances ==
  ASSUME TypeOK, AllUntried, NEW r \in Requests, Execute(r)
  PROVE  Advances(r)
  <1>. USE Stages
  <1>1. job[r] \in Jobs
    BY TypeOKByParts
  <1>2. ASSUME NEW s, Goto(r, FailedJob(r, s)), At(r, "upstream") \/ At(r, "execute")
        PROVE  Advances(r)
    <2>1. LET j == FailedJob(r, s)
          IN  /\ j.pc = "failed" /\ j.attempt = job[r].attempt /\ j.account = job[r].account
              /\ j.early = job[r].early /\ j.excluded = job[r].excluded
      BY <1>1 DEF FailedJob, Jobs
    <2>2. job'[r] = FailedJob(r, s) /\ OneMoves(r)
      BY <1>2, GotoOneMoves
    <2>3. job[r].account \notin job[r].excluded
      BY <1>2 DEF AllUntried, Untried, Working, At
    <2>. QED  BY <1>2, <2>1, <2>2, <2>3 DEF Advances, Nearer, Untried, Working, At
  <1>3. CASE Start(r)
    <2> DEFINE j == [job[r] EXCEPT !.pc = "upstream"]
    <2>1. /\ j.pc = "upstream" /\ j.attempt = job[r].attempt /\ j.account = job[r].account
          /\ j.early = job[r].early /\ j.excluded = job[r].excluded
      BY <1>1 DEF Jobs
    <2>2. Goto(r, j) /\ job[r].pc = "execute"
      BY <1>3 DEF Start, At
    <2>. HIDE DEF j
    <2>3. job'[r] = j /\ OneMoves(r)
      BY <2>2, GotoOneMoves
    <2>4. job[r].account \notin job[r].excluded
      BY <2>2 DEF AllUntried, Untried, Working
    <2>. QED  BY <2>1, <2>2, <2>3, <2>4 DEF Advances, Nearer, Untried, Working, At
  <1>4. CASE Refuse(r) \/ (\E s \in Outcomes : ReturnFailure(r, s)) \/ ProxyUnreachable(r)
    BY <1>2, <1>4 DEF Refuse, ReturnFailure, ProxyUnreachable
  <1>5. ASSUME NEW j, Goto(r, j), j.pc \in {"idle", "cleared", "settling"},
               Stage(j.pc) < Stage(job[r].pc)
        PROVE  Advances(r)
    BY <1>5, GotoOneMoves DEF Advances, Nearer, Untried, Working, At
  <1>6. /\ Idle.pc = "idle"
        /\ [Idle EXCEPT !.pc = "cleared"].pc = "cleared"
        /\ [Idle EXCEPT !.pc = "settling"].pc = "settling"
    BY DEF Idle
  <1>7. CASE ClearAccountError(r)
    <2> DEFINE j == [Idle EXCEPT !.pc = "cleared"]
    <2>1. Goto(r, j) /\ job[r].pc = "upstream" /\ j.pc = "cleared"
      BY <1>6, <1>7 DEF ClearAccountError, At
    <2>. HIDE DEF j
    <2>. QED  BY <1>5, <2>1
  <1>8. CASE Answer(r)
    <2> DEFINE j == [Idle EXCEPT !.pc = "settling"]
    <2>1. Goto(r, j) /\ job[r].pc = "cleared" /\ j.pc = "settling"
      BY <1>6, <1>8 DEF Answer, At
    <2>. HIDE DEF j
    <2>. QED  BY <1>5, <2>1
  <1>9. CASE Settle(r) \/ Throw(r)
    BY <1>5, <1>6, <1>9 DEF Settle, Throw, At
  <1>. QED  BY <1>3, <1>4, <1>7, <1>8, <1>9 DEF Execute

LEMMA FallbackAdvances ==
  ASSUME TypeOK, NEW r \in Requests, AllUntried, Fallback(r)
  PROVE  Advances(r)
  <1>. USE Stages
  <1>1. job[r] \in Jobs
    BY TypeOKByParts
  <1>2. ASSUME NEW j, Goto(r, j) \/ LeaveMark(r, j), Nearer(j, job[r]), Untried(j)
        PROVE  Advances(r)
    BY <1>2, GotoOneMoves DEF Advances
  <1>3. At(r, "failed") \/ At(r, "queued") \/ At(r, "marking")
          => Nearer(Idle, job[r]) /\ Untried(Idle) /\ job[r].account \notin job[r].excluded
    <2>1. Idle.pc = "idle"
      BY DEF Idle
    <2>2. At(r, "failed") \/ At(r, "queued") \/ At(r, "marking")
            => Stage(Idle.pc) < Stage(job[r].pc)
      BY <2>1 DEF At
    <2>. QED  BY <2>1, <2>2 DEF Nearer, AllUntried, Untried, Working, At
  <1>4. CASE RetryEarlyClose(r)
    <2> DEFINE j == [job[r] EXCEPT !.pc = "choose", !.early = TRUE,
                                   !.account = None, !.status = None]
    <2>1. At(r, "failed") /\ (Goto(r, Idle) \/ (Goto(r, j) /\ ~job[r].early))
      BY <1>4, <1>1 DEF RetryEarlyClose, Jobs
    <2>2. j.pc = "choose" /\ j.attempt = job[r].attempt /\ j.early
      BY <1>1 DEF Jobs
    <2>3. (~job[r].early => Nearer(j, job[r])) /\ Untried(j)
      BY <2>2 DEF Nearer, Untried, Working
    <2>. QED  BY <1>2, <1>3, <2>1, <2>2, <2>3
  <1>5. CASE SkipDisable(r)
    BY <1>2, <1>3, <1>5 DEF SkipDisable
  <1>6. CASE QueueMark(r)
    <2> DEFINE j == [job[r] EXCEPT !.pc = "queued", !.pred = tail[job[r].account]]
    <2>1. /\ j.pc = "queued" /\ j.attempt = job[r].attempt /\ j.account = job[r].account
          /\ j.early = job[r].early /\ j.excluded = job[r].excluded
      BY <1>1 DEF Jobs
    <2>2. Goto(r, j) /\ job[r].pc = "failed"
      BY <1>6 DEF QueueMark, At
    <2>. HIDE DEF j
    <2>3. Nearer(j, job[r]) /\ Untried(j)
      BY <1>3, <2>1, <2>2 DEF Nearer, Untried, Working, At
    <2>. QED  BY <1>2, <2>1, <2>2, <2>3
  <1>7. CASE ReadRow(r)
    <2> DEFINE j == [job[r] EXCEPT !.pc = "marking", !.level = row[job[r].account].backoff]
    <2>1. /\ j.pc = "marking" /\ j.attempt = job[r].attempt /\ j.account = job[r].account
          /\ j.early = job[r].early /\ j.excluded = job[r].excluded
      BY <1>1 DEF Jobs
    <2>2. Goto(r, j) /\ job[r].pc = "queued"
      BY <1>7 DEF ReadRow, MarkTurn, At
    <2>. HIDE DEF j
    <2>3. Nearer(j, job[r]) /\ Untried(j)
      BY <1>3, <2>1, <2>2 DEF Nearer, Untried, Working, At
    <2>. QED  BY <1>2, <2>1, <2>2, <2>3
  <1>8. CASE SkipMark(r) \/ WriteRow(r)
    <2> DEFINE j == NextAccount(r)
    <2>1. /\ j.pc = "choose" /\ j.attempt = job[r].attempt /\ j.early = job[r].early
          /\ j.excluded = job[r].excluded \cup {job[r].account}
      BY <1>1 DEF NextAccount, Jobs
    <2>2. LeaveMark(r, j) /\ (At(r, "queued") \/ At(r, "marking"))
      BY <1>8 DEF SkipMark, WriteRow, MarkTurn
    <2>. HIDE DEF j
    <2>3. Nearer(j, job[r]) /\ Untried(j)
      BY <1>3, <2>1, <2>2 DEF Nearer, Untried, Working
    <2>. QED  BY <1>2, <2>1, <2>2, <2>3
  <1>9. CASE NoFallback(r)
    BY <1>2, <1>3, <1>9 DEF NoFallback
  <1>. QED  BY <1>4, <1>5, <1>6, <1>7, <1>8, <1>9 DEF Fallback

LEMMA UntriedInit == Init => AllUntried
  BY DEF Init, AllUntried, Untried, Idle, Working

OnlyForward == \A r \in Requests : ~At(r, "idle") =>
                  Nearer(job'[r], job[r]) \/ Stands(job'[r], job[r])

LEMMA ForwardStep ==
  ASSUME TypeOK, AllUntried, Next
  PROVE  AllUntried' /\ OnlyForward
  <1>1. ASSUME \A q \in Requests : Stands(job'[q], job[q]) /\ job'[q].account = job[q].account
        PROVE  AllUntried' /\ OnlyForward
    BY <1>1 DEF AllUntried, Untried, OnlyForward, Stands
  <1>2. ASSUME NEW r \in Requests, OneMoves(r), Untried(job'[r]),
               At(r, "idle") \/ Nearer(job'[r], job[r])
        PROVE  AllUntried' /\ OnlyForward
    BY <1>2 DEF AllUntried, Untried, OnlyForward, OneMoves, Stands
  <1>3. Idle.pc = "idle" /\ Untried(Idle)
    BY DEF Idle, Untried, Working
  <1>4. ASSUME NEW r \in Requests, Gate(r)
        PROVE  AllUntried' /\ OnlyForward
    <2> DEFINE j == [Idle EXCEPT !.pc = "choose", !.budget = RetryBudget]
    <2>1. Untried(j)
      BY DEF Idle, Untried, Working
    <2>2. CASE Goto(r, j)
      <3> HIDE DEF j
      <3>1. At(r, "idle") /\ OneMoves(r) /\ job'[r] = j
        BY <1>4, <2>2, GotoOneMoves DEF Gate
      <3>. QED  BY <1>2, <2>1, <3>1
    <2>3. CASE job' = job
      BY <1>1, <2>3 DEF Stands
    <2>. QED  BY <1>4, <2>2, <2>3 DEF Gate, Admit
  <1>5. ASSUME NEW r \in Requests, Handle(r)
        PROVE  AllUntried' /\ OnlyForward
    <2>1. Advances(r)
      BY <1>5, ChooseAdvances, ExecuteAdvances, FallbackAdvances DEF Handle
    <2>. QED  BY <1>2, <2>1 DEF Advances
  <1>6. ASSUME NEW r \in Requests, AbandonWait(r)
        PROVE  AllUntried' /\ OnlyForward
    <2>1. OneMoves(r) /\ job'[r] = Idle /\ job[r].pc = "waiting"
      BY <1>6, GotoOneMoves DEF AbandonWait, At
    <2>2. Nearer(Idle, job[r])
      BY <1>3, <2>1, Stages DEF Nearer
    <2>. QED  BY <1>2, <1>3, <2>1, <2>2
  <1>7. CASE Monitor
    BY <1>1, <1>7 DEF Monitor, Stands
  <1>8. CASE Restart
    <2>1. \A q \in Requests : job'[q] = Idle
      BY <1>8 DEF Restart
    <2>2. AllUntried'
      BY <1>3, <2>1 DEF AllUntried
    <2>3. ASSUME NEW q \in Requests, ~At(q, "idle")  PROVE Nearer(Idle, job[q])
      <3>1. job[q].pc \in Pcs \ {"idle"}
        BY <2>3, TypeOKByParts DEF At, Jobs
      <3>2. Stage("idle") < Stage(job[q].pc)
        BY <3>1, Stages DEF Pcs
      <3>. QED  BY <1>3, <3>2 DEF Nearer
    <2>. QED  BY <2>1, <2>2, <2>3 DEF OnlyForward
  <1>9. CASE Tick
    <2>1. \A q \in Requests : Stands(job'[q], job[q]) /\ job'[q].account = job[q].account
      BY <1>9, TypeOKByParts DEF Tick, Stands, Jobs
    <2>. QED  BY <1>1, <2>1
  <1>. QED  BY <1>4, <1>5, <1>6, <1>7, <1>8, <1>9 DEF Next

(* Each step of a request is progress through its attempts, early closes,  *)
(* accounts and stages, whatever the other requests, the provider, the     *)
(* operator or a crash do: the loop cannot repeat, and with finitely many  *)
(* accounts it is left after finitely many steps.                          *)
THEOREM LoopOnlyAdvances == Spec => NobodyGoesBack
  <1>1. Init => AllUntried
    BY UntriedInit
  <1>2. TypeOK /\ AllUntried /\ [Next]_vars => AllUntried' /\ [OnlyForward]_vars
    <2>1. ASSUME AllUntried, UNCHANGED vars  PROVE AllUntried'
      BY <2>1 DEF vars, AllUntried
    <2>. QED  BY <2>1, ForwardStep
  <1>3. [OnlyForward]_vars =>
           [\A r \in Requests : ~At(r, "idle") =>
               Nearer(job'[r], job[r]) \/ Stands(job'[r], job[r])]_vars
    BY DEF OnlyForward
  <1>. QED  BY <1>1, <1>2, <1>3, TypeCorrect, PTL DEF Spec, NobodyGoesBack
=============================================================================
