------------------------ MODULE TokenRefresh_proofs ------------------------
(* Proofs about TokenRefresh for any callers, tokens, tries and crashes.   *)
(* ReplayNeedsACause rests on two facts that hold between any two steps: a *)
(* flight about to present a token presents one nobody has seen            *)
(* (QueuedIsNew), and a spent token stays in the row only while the flight *)
(* that spent it holds the mutex with its successor (SpentRow).            *)
EXTENDS TokenRefresh, TLAPS

(* What TypeOK does not say of a flight and of a caller, with n tokens     *)
(* issued: an answer with tokens has one, a flight under way presents one, *)
(* whoever asks has a try left.                                            *)
FlightFits(f, n) ==
    /\ f.answer # "null" => f.stage = "answered"
    /\ f.answer = "tokens" => f.token # 0
    /\ f.stage \in {"checking", "queued"} => f.presented # 0
    /\ f.presented <= n /\ f.token <= n

JobFits(j, n) ==
    /\ j.answer = "tokens" => j.token # 0
    /\ j.pc \in {"holding", "delay"} => j.tries < MaxTries
    /\ j.creds <= n /\ j.token <= n

Fits ==
    /\ \A c \in Callers : FlightFits(flight[c], issued)
    /\ \A c \in Callers : JobFits(caller[c], issued)

(* The mutex holds the one flight there is. *)
MutexIsFlight == \A c \in Callers : flight[c].stage # "none" <=> mutex = c

(* Nothing anybody holds has not been issued. *)
Within ==
    /\ row.token <= issued
    /\ \A t \in Tokens : rotation[t] <= issued
    /\ \A t \in alive : t <= issued
    /\ \A t \in Tokens : t > issued => sent[t] = 0

DeadIsSpent == \A t \in Tokens : t <= issued /\ t \notin alive => sent[t] > 0

QueuedIsNew == \A c \in Callers :
    flight[c].stage = "queued" =>
        sent[flight[c].presented] = 0 \/ flight[c].presented \in excused

SpentRow ==
    row.token # 0 => \/ sent[row.token] = 0
                     \/ row.token \in excused
                     \/ \E c \in Callers : /\ flight[c].stage = "answered"
                                           /\ flight[c].answer = "tokens"
                                           /\ flight[c].presented = row.token

(* Callers that were told go on with no flight under way, and all of them  *)
(* were told the same.                                                     *)
SettledFirst ==
    /\ Settling => mutex = None
    /\ \A c, d \in Callers :
           caller[c].pc = "settled" /\ caller[d].pc = "settled" /\ caller[c].answer = "error"
               => caller[d].answer = "error"

(* A refresh that is refused was of the row's token, unless there was none *)
(* or the account was authenticated anew meanwhile.                        *)
RefusedFlight == \A c \in Callers :
    /\ flight[c].answer = "error" => flight[c].presented \notin alive
    /\ flight[c].stage = "queued" \/ flight[c].answer = "error"
           => row.token \in {0, flight[c].presented} \cup granted

RefusedCaller == \A c \in Callers :
    caller[c].pc = "settled" /\ caller[c].answer = "error"
        => row.token = 0 \/ row.token \notin alive \/ row.token \in granted

(* The inductive invariant. *)
IInv ==
    /\ TypeOK /\ Fits /\ MutexIsFlight /\ Within /\ DeadIsSpent
    /\ QueuedIsNew /\ SpentRow /\ ReplayNeedsACause
    /\ SettledFirst /\ RefusedFlight /\ RefusedCaller

USE RefreshAssumption

-----------------------------------------------------------------------------
(* The initial states satisfy the invariant. *)
LEMMA InitHolds == Init => IInv
<1> SUFFICES ASSUME Init PROVE IInv
  OBVIOUS
<1> USE DEF Init, Tokens, Kinds, Answers, Flights, Jobs, NoFlight, Idle, Job
<1>1. TypeOK
  BY DEF TypeOK
<1>2. Fits /\ MutexIsFlight /\ Within /\ DeadIsSpent
  BY DEF Fits, FlightFits, JobFits, MutexIsFlight, Within, DeadIsSpent
<1>3. QueuedIsNew /\ SpentRow /\ ReplayNeedsACause
  BY DEF QueuedIsNew, SpentRow, ReplayNeedsACause
<1>4. SettledFirst /\ RefusedFlight /\ RefusedCaller
  BY DEF SettledFirst, Settling, RefusedFlight, RefusedCaller
<1> QED
  BY <1>1, <1>2, <1>3, <1>4 DEF IInv

-----------------------------------------------------------------------------
(* One caller's record, or one flight's, is replaced.                      *)
LEMMA JobSet ==
  ASSUME TypeOK, NEW c \in Callers, NEW j \in Jobs, caller' = [caller EXCEPT ![c] = j]
  PROVE  /\ caller' \in [Callers -> Jobs]
         /\ caller'[c] = j
         /\ \A d \in Callers : d # c => caller'[d] = caller[d]
BY DEF TypeOK

LEMMA FlightSet ==
  ASSUME TypeOK, NEW c \in Callers, NEW f \in Flights, flight' = [flight EXCEPT ![c] = f]
  PROVE  /\ flight' \in [Callers -> Flights]
         /\ flight'[c] = f
         /\ \A d \in Callers : d # c => flight'[d] = flight[d]
BY DEF TypeOK

LEMMA IdleFits ==
  ASSUME TypeOK
  PROVE  Idle \in Jobs /\ JobFits(Idle, issued) /\ Idle.pc = "idle"
BY DEF TypeOK, Idle, Job, Jobs, JobFits, Tokens, Kinds, Answers

LEMMA NoFlightFits ==
  ASSUME TypeOK
  PROVE  NoFlight \in Flights /\ FlightFits(NoFlight, issued) /\ NoFlight.stage = "none"
         /\ NoFlight.answer = "null"
BY DEF TypeOK, NoFlight, Flights, FlightFits, Tokens, Answers

LEMMA FitsGrow ==
  ASSUME NEW n \in Nat, NEW m \in Nat, n <= m
  PROVE  /\ \A f \in Flights : FlightFits(f, n) => FlightFits(f, m)
         /\ \A j \in Jobs : JobFits(j, n) => JobFits(j, m)
<1>1. ASSUME NEW f \in Flights, FlightFits(f, n) PROVE FlightFits(f, m)
  <2>1. f.presented \in 0..MaxToken /\ f.token \in 0..MaxToken
    BY DEF Flights
  <2> QED
    BY <1>1, <2>1 DEF FlightFits
<1>2. ASSUME NEW j \in Jobs, JobFits(j, n) PROVE JobFits(j, m)
  <2>1. j.creds \in Tokens /\ j.token \in 0..MaxToken
    BY DEF Jobs
  <2> QED
    BY <1>2, <2>1 DEF JobFits, Tokens
<1> QED
  BY <1>1, <1>2

(* A caller that goes on without touching tokens: the row may only lose    *)
(* its token.                                                              *)
LEMMA CallerKeeps ==
  ASSUME IInv, NEW c \in Callers, NEW j \in Jobs, JobFits(j, issued), j.pc # "settled",
         caller' = [caller EXCEPT ![c] = j],
         row' \in [token : 0..MaxToken, fresh : BOOLEAN, active : BOOLEAN],
         row'.token \in {0, row.token},
         UNCHANGED <<provider, rotation, mutex, flight, crashes, excused>>
  PROVE  IInv'
<1>1. TypeOK
  BY DEF IInv
<1>2. /\ caller' \in [Callers -> Jobs] /\ caller'[c] = j
      /\ \A d \in Callers : d # c => caller'[d] = caller[d]
  BY <1>1, JobSet
<1> USE DEF provider
<1>3. TypeOK'
  BY <1>1, <1>2 DEF TypeOK
<1>4. Fits' /\ MutexIsFlight'
  BY <1>2 DEF IInv, Fits, MutexIsFlight
<1>5. Within' /\ DeadIsSpent' /\ QueuedIsNew' /\ SpentRow' /\ ReplayNeedsACause'
  BY <1>1 DEF IInv, TypeOK, Tokens, Within, DeadIsSpent, QueuedIsNew, SpentRow, ReplayNeedsACause
<1>6. SettledFirst'
  BY <1>2 DEF IInv, SettledFirst, Settling
<1>7. RefusedFlight' /\ RefusedCaller'
  BY <1>2 DEF IInv, RefusedFlight, RefusedCaller
<1> QED
  BY <1>3, <1>4, <1>5, <1>6, <1>7 DEF IInv

LEMMA StartKeeps ==
  ASSUME IInv, NEW c \in Callers, NEW k \in Kinds, Start(c, k)
  PROVE  IInv'
<1> DEFINE j == Job("holding", k, row.token)
<1>1. row \in [token : 0..MaxToken, fresh : BOOLEAN, active : BOOLEAN] /\ row.token \in Tokens /\ row.token <= issued
  BY DEF IInv, TypeOK, Within, Start, Tokens
<1>3. j \in Jobs
  BY <1>1 DEF Job, Jobs, Answers
<1>4. j.pc = "holding" /\ JobFits(j, issued)
  BY <1>1 DEF IInv, TypeOK, Job, JobFits, Tokens
<1>5. caller' = [caller EXCEPT ![c] = j] /\ UNCHANGED <<row, provider, rotation, mutex, flight, crashes, excused>>
  BY DEF Start
<1> HIDE DEF j
<1> QED
  BY <1>1, <1>3, <1>4, <1>5, CallerKeeps

LEMMA LeaveKeeps ==
  ASSUME IInv, NEW c \in Callers, Leave(c),
         row' \in [token : 0..MaxToken, fresh : BOOLEAN, active : BOOLEAN],
         row'.token \in {0, row.token},
         UNCHANGED <<provider, rotation, mutex, flight, crashes, excused>>
  PROVE  IInv'
<1>1. Idle \in Jobs /\ JobFits(Idle, issued) /\ Idle.pc # "settled"
  BY IdleFits DEF IInv
<1>2. caller' = [caller EXCEPT ![c] = Idle]
  BY DEF Leave
<1> HIDE DEF Idle
<1> QED
  BY <1>1, <1>2, CallerKeeps

LEMMA NoRefreshKeeps ==
  ASSUME IInv, NEW c \in Callers, NoRefresh(c)
  PROVE  IInv'
BY LeaveKeeps DEF NoRefresh, IInv, TypeOK

(* A caller that waits has made a try more. *)
LEMMA WaitingFits ==
  ASSUME IInv, NEW c \in Callers, NEW d \in Callers \cup {None}, caller[c].pc \in {"holding", "delay"}
  PROVE  WaitsFor(c, d) \in Jobs /\ JobFits(WaitsFor(c, d), issued) /\ WaitsFor(c, d).pc = "waiting"
<1>1. caller[c] \in Jobs /\ JobFits(caller[c], issued) /\ caller[c].tries < MaxTries
  BY DEF IInv, TypeOK, Fits, JobFits
<1> DEFINE n == caller[c].tries + 1
<1>2. n \in 0..MaxTries
  BY <1>1 DEF Jobs
<1>3. WaitsFor(c, d) = [caller[c] EXCEPT !.pc = "waiting", !.on = d, !.tries = n]
  BY DEF WaitsFor
<1> HIDE DEF n
<1>4. WaitsFor(c, d) \in Jobs
  BY <1>1, <1>2, <1>3 DEF Jobs
<1>5. JobFits(WaitsFor(c, d), issued) /\ WaitsFor(c, d).pc = "waiting"
  BY <1>1, <1>3 DEF Jobs, JobFits
<1> QED
  BY <1>4, <1>5

LEMMA JoinKeeps ==
  ASSUME IInv, NEW c \in Callers, Join(c)
  PROVE  IInv'
<1>1. mutex \in Callers \cup {None} /\ row \in [token : 0..MaxToken, fresh : BOOLEAN, active : BOOLEAN]
  BY DEF IInv, TypeOK
<1> DEFINE j == WaitsFor(c, mutex)
<1>2. j \in Jobs /\ JobFits(j, issued) /\ j.pc = "waiting"
  BY <1>1, WaitingFits DEF Join
<1>3. caller' = [caller EXCEPT ![c] = j] /\ UNCHANGED <<row, provider, rotation, mutex, flight, crashes, excused>>
  BY DEF Join
<1> HIDE DEF j
<1> QED
  BY <1>1, <1>2, <1>3, CallerKeeps

LEMMA TryAgainKeeps ==
  ASSUME IInv, NEW c \in Callers, TryAgain(c),
         UNCHANGED <<row, provider, rotation, mutex, flight, crashes, excused>>
  PROVE  IInv'
<1>1. row \in [token : 0..MaxToken, fresh : BOOLEAN, active : BOOLEAN]
  BY DEF IInv, TypeOK
<1>2. CASE MayRetry(c)
  <2> DEFINE j == [caller[c] EXCEPT !.pc = "delay", !.on = None]
  <2>1. caller[c] \in Jobs /\ JobFits(caller[c], issued) /\ caller[c].tries < MaxTries /\ issued \in Nat
    BY <1>2 DEF IInv, TypeOK, Fits, MayRetry, Tokens
  <2>2. j \in Jobs
    BY <2>1 DEF Jobs, Answers
  <2>4. j.pc = "delay" /\ JobFits(j, issued)
    BY <2>1 DEF Jobs, JobFits
  <2>3. caller' = [caller EXCEPT ![c] = j]
    BY <1>2 DEF TryAgain
  <2> HIDE DEF j
  <2> QED
    BY <1>1, <2>2, <2>3, <2>4, CallerKeeps
<1>3. CASE ~MayRetry(c)
  BY <1>1, <1>3, LeaveKeeps DEF TryAgain
<1> QED
  BY <1>2, <1>3

LEMMA TimeoutKeeps ==
  ASSUME IInv, NEW c \in Callers, Timeout(c)
  PROVE  IInv'
BY TryAgainKeeps DEF Timeout

LEMMA GetsNothingKeeps ==
  ASSUME IInv, NEW c \in Callers, GetsNothing(c),
         UNCHANGED <<provider, rotation, mutex, flight, crashes>>
  PROVE  IInv'
BY TryAgainKeeps DEF GetsNothing

LEMMA GetsErrorKeeps ==
  ASSUME IInv, NEW c \in Callers, GetsError(c),
         UNCHANGED <<provider, rotation, mutex, flight, crashes>>
  PROVE  IInv'
<1>1. row \in [token : 0..MaxToken, fresh : BOOLEAN, active : BOOLEAN]
  BY DEF IInv, TypeOK
<1> DEFINE r == [row EXCEPT !.active = FALSE]
<1>6. r \in [token : 0..MaxToken, fresh : BOOLEAN, active : BOOLEAN] /\ r.token = row.token
  BY <1>1
<1>2. \/ row' = row
      \/ row' = r
      \/ row' = [r EXCEPT !.token = 0]
  BY DEF GetsError
<1> HIDE DEF r
<1>3. row' \in [token : 0..MaxToken, fresh : BOOLEAN, active : BOOLEAN]
  BY <1>1, <1>2, <1>6
<1>5. row'.token \in {0, row.token}
  BY <1>1, <1>2, <1>6
<1>4. Leave(c) /\ UNCHANGED <<provider, rotation, mutex, flight, crashes, excused>>
  BY DEF GetsError
<1> QED
  BY <1>3, <1>4, <1>5, LeaveKeeps

-----------------------------------------------------------------------------
(* A write of token t to the row, by a caller that stores it or by a       *)
(* flight at its end, excuses t if it is spent.                            *)
LEMMA StoredRow ==
  ASSUME IInv, NEW t \in Tokens, t <= issued, Stored(t), excused' = Excuse(t), UNCHANGED provider
  PROVE  /\ row' \in [token : 0..MaxToken, fresh : BOOLEAN, active : BOOLEAN]
         /\ row'.token = t
         /\ excused' \in SUBSET Tokens /\ excused \subseteq excused'
         /\ SpentRow' /\ ReplayNeedsACause'
<1>3. row \in [token : 0..MaxToken, fresh : BOOLEAN, active : BOOLEAN] /\ t \in 0..MaxToken
  BY DEF IInv, TypeOK, Tokens
<1>1. row' \in [token : 0..MaxToken, fresh : BOOLEAN, active : BOOLEAN] /\ row'.token = t
  BY <1>3 DEF Stored
<1>2. excused' \in SUBSET Tokens /\ excused \subseteq excused' /\ (sent[t] > 0 => t \in excused')
  BY DEF IInv, TypeOK, Excuse
<1>5. SpentRow'
  BY <1>1, <1>2 DEF SpentRow, IInv, TypeOK, provider
<1>4. ReplayNeedsACause'
  BY <1>2 DEF ReplayNeedsACause, IInv, provider
<1> QED
  BY <1>1, <1>2, <1>4, <1>5

LEMMA GetsTokensKeeps ==
  ASSUME IInv, NEW c \in Callers, caller[c].pc = "settled", GetsTokens(c),
         UNCHANGED <<provider, rotation, mutex, flight, crashes>>
  PROVE  IInv'
<1>1. CASE UNCHANGED <<row, excused>>
  <2>1. row \in [token : 0..MaxToken, fresh : BOOLEAN, active : BOOLEAN]
    BY DEF IInv, TypeOK
  <2> QED
    BY <1>1, <2>1, LeaveKeeps DEF GetsTokens
<1>2. CASE Stored(caller[c].token) /\ excused' = Excuse(caller[c].token)
  <2> DEFINE t == caller[c].token
  <2>1. t \in Tokens /\ t <= issued /\ caller[c].answer = "tokens"
    BY DEF GetsTokens, IInv, TypeOK, Fits, JobFits, Jobs, Tokens
  <2>2. Stored(t) /\ excused' = Excuse(t) /\ Leave(c)
    BY <1>2 DEF GetsTokens
  <2> HIDE DEF t
  <2>3. /\ row' \in [token : 0..MaxToken, fresh : BOOLEAN, active : BOOLEAN] /\ row'.token = t
        /\ excused' \in SUBSET Tokens /\ excused \subseteq excused'
        /\ SpentRow' /\ ReplayNeedsACause'
    BY <2>1, <2>2, StoredRow
  <2>4. TypeOK
    BY DEF IInv
  <2>5. Idle \in Jobs /\ JobFits(Idle, issued) /\ Idle.pc = "idle"
    BY <2>4, IdleFits
  <2> HIDE DEF Idle
  <2>6. /\ caller' \in [Callers -> Jobs] /\ caller'[c].pc = "idle" /\ JobFits(caller'[c], issued)
        /\ \A d \in Callers : d # c => caller'[d] = caller[d]
    BY <2>2, <2>4, <2>5, JobSet DEF Leave
  <2> USE DEF provider
  <2>7. TypeOK'
    BY <2>3, <2>4, <2>6 DEF TypeOK
  <2>8. Fits' /\ MutexIsFlight'
    BY <2>6 DEF IInv, Fits, MutexIsFlight
  <2>9. Within' /\ DeadIsSpent' /\ QueuedIsNew'
    BY <2>1, <2>3 DEF IInv, Within, DeadIsSpent, QueuedIsNew
  <2>10. SettledFirst'
    BY <2>6 DEF IInv, SettledFirst, Settling
  <2>11. \A d \in Callers : flight[d].stage = "none"
    BY <2>4 DEF IInv, TypeOK, SettledFirst, Settling, MutexIsFlight
  <2>12. \A d \in Callers : flight[d].answer # "error"
    BY <2>11 DEF IInv, Fits, FlightFits
  <2>13. RefusedFlight'
    BY <2>11, <2>12 DEF RefusedFlight
  <2>14. RefusedCaller'
    BY <2>1, <2>6 DEF IInv, SettledFirst, RefusedCaller
  <2> QED
    BY <2>3, <2>7, <2>8, <2>9, <2>10, <2>13, <2>14 DEF IInv
<1> QED
  BY <1>1, <1>2 DEF GetsTokens

-----------------------------------------------------------------------------
(* The steps of a flight.                                                  *)
LEMMA AnsweredFlight ==
  ASSUME IInv, NEW c \in Callers, flight[c].stage = "queued",
         NEW a \in Answers, NEW t \in 0..MaxToken, Answered(c, a, t)
  PROVE  /\ flight[c].presented \in Tokens /\ flight[c].presented <= issued
         /\ flight' \in [Callers -> Flights]
         /\ flight'[c].stage = "answered" /\ flight'[c].answer = a /\ flight'[c].token = t
         /\ flight'[c].presented = flight[c].presented
         /\ \A d \in Callers : d # c => flight'[d] = flight[d]
<1>1. TypeOK /\ flight[c] \in Flights
  BY DEF IInv, TypeOK
<1>2. flight[c].presented \in Tokens /\ flight[c].presented <= issued
  BY <1>1 DEF IInv, Fits, FlightFits, Flights, Tokens
<1> DEFINE f == [flight[c] EXCEPT !.stage = "answered", !.answer = a, !.token = t]
<1>3. f \in Flights
  BY <1>1 DEF Flights
<1>4. f.stage = "answered" /\ f.answer = a /\ f.token = t /\ f.presented = flight[c].presented
  BY <1>1 DEF Flights
<1>5. flight' = [flight EXCEPT ![c] = f]
  BY DEF Answered
<1> HIDE DEF f
<1>6. /\ flight' \in [Callers -> Flights] /\ flight'[c] = f
      /\ \A d \in Callers : d # c => flight'[d] = flight[d]
  BY <1>1, <1>3, <1>5, FlightSet
<1> QED
  BY <1>2, <1>4, <1>6

LEMMA ExchangeKeeps ==
  ASSUME IInv, NEW c \in Callers, ~Settling, flight[c].stage = "queued", Exchange(c),
         UNCHANGED <<row, rotation, mutex, caller, crashes>>
  PROVE  IInv'
<1> DEFINE g == flight[c].presented
<1>1. TypeOK
  BY DEF IInv
<1>2. PICK a \in Answers, t \in 0..MaxToken :
        /\ Answered(c, a, t)
        /\ \/ a = "tokens" /\ t = issued + 1 /\ excused' = excused
           \/ a = "null" /\ t = 0 /\ excused' = excused \cup {g}
  BY <1>1 DEF Exchange, TypeOK, Answers, Tokens
<1>3. /\ g \in Tokens /\ g <= issued
      /\ flight' \in [Callers -> Flights]
      /\ flight'[c].stage = "answered" /\ flight'[c].answer = a /\ flight'[c].token = t
      /\ flight'[c].presented = g
      /\ \A d \in Callers : d # c => flight'[d] = flight[d]
  BY <1>2, AnsweredFlight
<1>4. /\ issued' = issued + 1 /\ issued' \in Tokens /\ g \in alive
      /\ alive' = (alive \ {g}) \cup {issued'} /\ granted' = granted
      /\ sent' = [sent EXCEPT ![g] = IF @ = 0 THEN 1 ELSE 2]
  BY <1>1 DEF Exchange, Seen, TypeOK, Tokens
<1>5. /\ sent' \in [Tokens -> 0..2] /\ sent'[g] > 0 /\ (sent[g] = 0 => sent'[g] = 1)
      /\ \A t1 \in Tokens : t1 # g => sent'[t1] = sent[t1]
  BY <1>1, <1>3, <1>4 DEF TypeOK
<1>6. excused' \in SUBSET Tokens /\ excused \subseteq excused'
  BY <1>1, <1>2, <1>3 DEF TypeOK
<1>7. \A d \in Callers : flight[d].stage # "none" => d = c
  BY <1>1 DEF IInv, MutexIsFlight
<1>17. sent[g] = 0 \/ g \in excused
  BY DEF IInv, QueuedIsNew
<1> HIDE DEF g
<1>8. TypeOK'
  BY <1>1, <1>3, <1>4, <1>5, <1>6 DEF TypeOK, Tokens
<1>9. Fits'
  <2>4. issued \in Nat /\ issued' \in Nat /\ issued <= issued'
    BY <1>1, <1>4 DEF TypeOK, Tokens
  <2>1. \A d \in Callers : JobFits(caller[d], issued')
    BY <1>1, <2>4, FitsGrow DEF IInv, Fits, TypeOK
  <2>2. \A d \in Callers : FlightFits(flight[d], issued')
    BY <1>1, <2>4, FitsGrow DEF IInv, Fits, TypeOK
  <2>3. FlightFits(flight'[c], issued')
    BY <1>1, <1>2, <1>3, <1>4 DEF FlightFits, TypeOK, Tokens
  <2> QED
    BY <1>3, <2>1, <2>2, <2>3 DEF Fits
<1>10. MutexIsFlight'
  BY <1>3 DEF IInv, MutexIsFlight
<1>11. Within' /\ DeadIsSpent'
  BY <1>1, <1>3, <1>4, <1>5 DEF IInv, Within, DeadIsSpent, TypeOK, Tokens
<1>12. QueuedIsNew'
  BY <1>3, <1>7 DEF QueuedIsNew
<1>13. SpentRow'
  <2>1. CASE row.token = g
    BY <1>2, <1>3, <1>6, <2>1 DEF SpentRow
  <2>2. CASE row.token # g
    <3>1. row.token # 0 => sent[row.token] = 0 \/ row.token \in excused
      BY <1>7 DEF IInv, SpentRow
    <3>2. row.token # 0 => row.token \in Tokens
      BY <1>1 DEF TypeOK, Tokens
    <3> QED
      BY <1>5, <1>6, <2>2, <3>1, <3>2 DEF SpentRow
  <2> QED
    BY <2>1, <2>2
<1>14. ReplayNeedsACause'
  BY <1>3, <1>5, <1>6, <1>17 DEF IInv, ReplayNeedsACause
<1>15. SettledFirst'
  BY DEF IInv, SettledFirst, Settling
<1>16. RefusedFlight' /\ RefusedCaller'
  BY <1>2, <1>3, <1>7 DEF IInv, RefusedFlight, RefusedCaller, Settling, Fits, FlightFits
<1> QED
  BY <1>8, <1>9, <1>10, <1>11, <1>12, <1>13, <1>14, <1>15, <1>16 DEF IInv

(* A flight is answered without tokens.  Either the provider has not seen  *)
(* the token, or it has for the second time, which somebody is excused for.*)
LEMMA UnansweredKeeps ==
  ASSUME IInv, NEW c \in Callers, ~Settling, flight[c].stage = "queued",
         NEW a \in {"null", "error"}, Answered(c, a, 0),
         a = "error" => flight[c].presented \notin alive,
         sent' = sent \/ (/\ flight[c].presented \in excused
                          /\ Seen(flight[c].presented) /\ sent[flight[c].presented] > 0),
         UNCHANGED <<row, rotation, mutex, caller, crashes, alive, issued, granted, excused>>
  PROVE  IInv'
<1> DEFINE g == flight[c].presented
<1>1. TypeOK
  BY DEF IInv
<1>2. a \in Answers /\ 0 \in 0..MaxToken
  BY DEF Answers
<1>3. /\ g \in Tokens /\ g <= issued
      /\ flight' \in [Callers -> Flights]
      /\ flight'[c].stage = "answered" /\ flight'[c].answer = a /\ flight'[c].token = 0
      /\ flight'[c].presented = g
      /\ \A d \in Callers : d # c => flight'[d] = flight[d]
  BY <1>2, AnsweredFlight
<1>4. /\ sent' \in [Tokens -> 0..2]
      /\ \A t \in Tokens : sent'[t] = sent[t] \/ (t = g /\ t \in excused /\ sent[t] > 0 /\ sent'[t] > 0)
  BY <1>1, <1>3 DEF TypeOK, Seen
<1>5. \A d \in Callers : flight[d].stage # "none" => d = c
  BY <1>1 DEF IInv, MutexIsFlight
<1> HIDE DEF g
<1>6. TypeOK'
  BY <1>1, <1>3, <1>4 DEF TypeOK
<1>7. Fits'
  <2>1. FlightFits(flight'[c], issued)
    BY <1>1, <1>3 DEF FlightFits, TypeOK, Tokens
  <2> QED
    BY <1>3, <2>1 DEF IInv, Fits
<1>8. MutexIsFlight'
  BY <1>3 DEF IInv, MutexIsFlight
<1>9. Within' /\ DeadIsSpent'
  BY <1>1, <1>3, <1>4 DEF IInv, Within, DeadIsSpent, TypeOK, Tokens
<1>10. QueuedIsNew'
  BY <1>3, <1>5 DEF QueuedIsNew
<1>11. SpentRow'
  BY <1>1, <1>3, <1>4, <1>5 DEF IInv, SpentRow, TypeOK, Tokens
<1>12. ReplayNeedsACause'
  BY <1>4 DEF IInv, ReplayNeedsACause
<1>13. SettledFirst'
  BY DEF IInv, SettledFirst, Settling
<1>14. RefusedFlight' /\ RefusedCaller'
  BY <1>3, <1>5 DEF IInv, RefusedFlight, RefusedCaller, Settling, g
<1> QED
  BY <1>6, <1>7, <1>8, <1>9, <1>10, <1>11, <1>12, <1>13, <1>14 DEF IInv

LEMMA RejectedKeeps ==
  ASSUME IInv, NEW c \in Callers, ~Settling, flight[c].stage = "queued", Rejected(c),
         UNCHANGED <<row, rotation, mutex, caller, crashes>>
  PROVE  IInv'
<1>1. flight[c].presented \in Tokens /\ flight[c].presented <= issued
  BY DEF IInv, TypeOK, Fits, FlightFits, Flights, Tokens
<1>2. sent[flight[c].presented] > 0
  BY <1>1 DEF Rejected, IInv, DeadIsSpent
<1>3. flight[c].presented \in excused
  BY <1>1, <1>2 DEF IInv, QueuedIsNew
<1> QED
  BY <1>2, <1>3, UnansweredKeeps DEF Rejected

LEMMA NeverSentKeeps ==
  ASSUME IInv, NEW c \in Callers, ~Settling, flight[c].stage = "queued", NeverSent(c),
         UNCHANGED <<row, rotation, mutex, caller, crashes>>
  PROVE  IInv'
BY UnansweredKeeps DEF NeverSent, provider

LEMMA CheckKeeps ==
  ASSUME IInv, NEW c \in Callers, Check(c)
  PROVE  IInv'
<1>1. TypeOK /\ flight[c] \in Flights /\ flight[c].stage = "checking" /\ flight[c].presented \in Tokens
  BY DEF IInv, TypeOK, Check, Fits, FlightFits, Flights, Tokens
<1>2. \A d \in Callers : flight[d].stage # "none" => d = c
  BY <1>1 DEF IInv, MutexIsFlight
<1>3. /\ ~Settling
      /\ UNCHANGED <<row, alive, issued, sent, granted, rotation, mutex, crashes>>
  BY DEF Check, provider
<1>4. CASE Outdated(c) /\ row.fresh
  <2> DEFINE f == Known(flight[c].expected, row.token)
  <2>1. row.token \in 0..MaxToken /\ row.token # 0 /\ row.token <= issued
    BY <1>1, <1>4 DEF IInv, TypeOK, Outdated, Within
  <2>2. f \in Flights
    BY <1>1, <2>1 DEF Known, Flights, Answers
  <2>3. f.stage = "answered" /\ f.answer = "tokens" /\ f.presented = 0 /\ f.token = row.token
    BY DEF Known
  <2>4. flight' = [flight EXCEPT ![c] = f] /\ UNCHANGED <<caller, excused>>
    BY <1>4 DEF Check
  <2> HIDE DEF f
  <2>5. /\ flight' \in [Callers -> Flights] /\ flight'[c] = f
        /\ \A d \in Callers : d # c => flight'[d] = flight[d]
    BY <1>1, <2>2, <2>4, FlightSet
  <2>6. TypeOK'
    BY <1>1, <1>3, <2>4, <2>5 DEF TypeOK
  <2>7. Fits' /\ MutexIsFlight'
    BY <1>1, <1>3, <2>1, <2>3, <2>4, <2>5 DEF IInv, TypeOK, Tokens, Fits, FlightFits, MutexIsFlight
  <2>8. Within' /\ DeadIsSpent' /\ ReplayNeedsACause'
    BY <1>3, <2>4 DEF IInv, Within, DeadIsSpent, ReplayNeedsACause
  <2>9. QueuedIsNew' /\ SpentRow'
    BY <1>1, <1>2, <1>3, <2>3, <2>4, <2>5 DEF IInv, QueuedIsNew, SpentRow
  <2>10. SettledFirst'
    BY <1>3, <2>4 DEF IInv, SettledFirst, Settling
  <2>11. RefusedFlight' /\ RefusedCaller'
    BY <1>2, <1>3, <2>3, <2>4, <2>5 DEF IInv, RefusedFlight, RefusedCaller, Settling
  <2> QED
    BY <2>6, <2>7, <2>8, <2>9, <2>10, <2>11 DEF IInv
<1>5. CASE ~(Outdated(c) /\ row.fresh)
  <2> DEFINE g == TokenToPresent(c)
             f == [flight[c] EXCEPT !.stage = "queued", !.presented = g]
             j == Adopted(caller[c], g)
  <2>1. row.token \in 0..MaxToken /\ row.token <= issued /\ flight[c].presented <= issued /\ issued \in Nat
    BY <1>1 DEF IInv, TypeOK, Within, Fits, FlightFits, Tokens
  <2>2. /\ g \in Tokens /\ g <= issued
        /\ (row.token # 0 => g = row.token)
    BY <1>1, <2>1 DEF TokenToPresent, Outdated, Tokens
  <2>3. /\ flight' = [flight EXCEPT ![c] = f] /\ caller' = [caller EXCEPT ![c] = j]
        /\ excused' = IF row.token = 0 THEN Excuse(g) ELSE excused
    BY <1>5 DEF Check
  <2> HIDE DEF g
  <2>17. f \in Flights
    <3> DEFINE f1 == [flight[c] EXCEPT !.stage = "queued"]
    <3>1. f1 \in Flights
      BY <1>1 DEF Flights
    <3>2. f = [f1 EXCEPT !.presented = g]
      OBVIOUS
    <3>3. g \in 0..MaxToken
      BY <2>2 DEF Tokens
    <3> HIDE DEF f1, f
    <3> QED
      BY <3>1, <3>2, <3>3 DEF Flights
  <2>4. /\ f \in Flights /\ f.stage = "queued" /\ f.presented = g
        /\ f.answer = flight[c].answer /\ f.token = flight[c].token
    BY <1>1, <2>17 DEF Flights
  <2>5. f.answer = "null" /\ f.token <= issued
    BY <1>1, <2>4 DEF IInv, Fits, FlightFits, Flights, Answers
  <2>6. /\ j \in Jobs /\ JobFits(j, issued) /\ j.pc = caller[c].pc
        /\ j.answer = caller[c].answer
    <3>1. caller[c] \in Jobs /\ JobFits(caller[c], issued)
      BY <1>1 DEF IInv, TypeOK, Fits
    <3> QED
      BY <3>1, <2>2 DEF Adopted, Jobs, JobFits
  <2> HIDE DEF f, j
  <2>7. /\ flight' \in [Callers -> Flights] /\ flight'[c] = f
        /\ \A d \in Callers : d # c => flight'[d] = flight[d]
    BY <1>1, <2>3, <2>4, FlightSet
  <2>8. /\ caller' \in [Callers -> Jobs] /\ caller'[c] = j
        /\ \A d \in Callers : d # c => caller'[d] = caller[d]
    BY <1>1, <2>3, <2>6, JobSet
  <2>9. /\ excused' \in SUBSET Tokens /\ excused \subseteq excused'
        /\ (row.token = 0 /\ sent[g] # 0 => g \in excused')
    BY <1>1, <2>2, <2>3 DEF TypeOK, Excuse
  <2>10. TypeOK'
    BY <1>1, <1>3, <2>7, <2>8, <2>9 DEF TypeOK
  <2>18. FlightFits(f, issued)
    BY <2>1, <2>2, <2>4, <2>5 DEF FlightFits, Tokens
  <2>19. Fits'
    BY <1>3, <2>6, <2>7, <2>8, <2>18 DEF IInv, Fits
  <2>11. MutexIsFlight'
    BY <1>1, <1>3, <2>4, <2>7 DEF IInv, MutexIsFlight
  <2>12. Within' /\ DeadIsSpent' /\ ReplayNeedsACause'
    BY <1>3, <2>9 DEF IInv, Within, DeadIsSpent, ReplayNeedsACause
  <2>13. sent[g] = 0 \/ g \in excused'
    BY <1>1, <1>2, <2>2, <2>9 DEF IInv, SpentRow
  <2>14. QueuedIsNew' /\ SpentRow'
    BY <1>1, <1>2, <1>3, <2>2, <2>4, <2>7, <2>9, <2>13 DEF IInv, QueuedIsNew, SpentRow
  <2>15. SettledFirst'
    BY <1>3, <2>6, <2>8 DEF IInv, SettledFirst, Settling
  <2>16. RefusedFlight' /\ RefusedCaller'
    BY <1>2, <1>3, <2>2, <2>4, <2>5, <2>6, <2>7, <2>8 DEF IInv, RefusedFlight, RefusedCaller, Settling
  <2> QED
    BY <2>10, <2>11, <2>12, <2>14, <2>15, <2>16, <2>19 DEF IInv
<1> QED
  BY <1>4, <1>5

LEMMA LeadKeeps ==
  ASSUME IInv, NEW c \in Callers, Lead(c)
  PROVE  IInv'
<1> DEFINE t == rotation[caller[c].creds]
           f == IF t # 0
                THEN Known(Guard(c), t)
                ELSE [stage |-> "checking", expected |-> Guard(c), presented |-> caller[c].creds,
                      answer |-> "null", token |-> 0]
           j == WaitsFor(c, c)
<1>1. TypeOK /\ caller[c] \in Jobs
  BY DEF IInv, TypeOK
<1>2. /\ caller[c].creds \in Tokens /\ caller[c].creds <= issued /\ Guard(c) \in 0..MaxToken
      /\ t \in 0..MaxToken /\ t <= issued /\ issued \in Nat
  BY <1>1 DEF IInv, TypeOK, Guard, Jobs, Within, Fits, JobFits, Tokens
<1>3. /\ flight' = [flight EXCEPT ![c] = f] /\ caller' = [caller EXCEPT ![c] = j] /\ mutex' = c
      /\ ~Settling /\ mutex = None
      /\ UNCHANGED <<row, alive, issued, sent, granted, rotation, crashes, excused>>
  BY DEF Lead, Taken, provider
<1>4. j \in Jobs /\ JobFits(j, issued) /\ j.pc = "waiting"
  BY WaitingFits DEF Lead
<1> HIDE DEF t
<1>6. /\ f \in Flights /\ FlightFits(f, issued) /\ f.stage \in {"checking", "answered"}
      /\ f.answer # "error"
  <2>1. CASE t # 0
    BY <1>2, <2>1 DEF Known, Flights, FlightFits, Answers, Tokens
  <2>2. CASE t = 0
    BY <1>2, <2>2 DEF Flights, FlightFits, Answers, Tokens
  <2> QED
    BY <2>1, <2>2
<1> HIDE DEF f, j
<1>7. /\ flight' \in [Callers -> Flights] /\ flight'[c] = f
      /\ \A d \in Callers : d # c => flight'[d] = flight[d]
  BY <1>1, <1>3, <1>6, FlightSet
<1>8. /\ caller' \in [Callers -> Jobs] /\ caller'[c] = j
      /\ \A d \in Callers : d # c => caller'[d] = caller[d]
  BY <1>1, <1>3, <1>4, JobSet
<1>9. \A d \in Callers : flight[d].stage = "none"
  BY <1>3 DEF IInv, MutexIsFlight
<1>10. TypeOK'
  BY <1>1, <1>3, <1>7, <1>8 DEF TypeOK
<1>11. Fits' /\ MutexIsFlight'
  BY <1>3, <1>4, <1>6, <1>7, <1>8, <1>9 DEF IInv, Fits, MutexIsFlight
<1>12. Within' /\ DeadIsSpent' /\ ReplayNeedsACause'
  BY <1>3 DEF IInv, Within, DeadIsSpent, ReplayNeedsACause
<1>13. QueuedIsNew' /\ SpentRow'
  BY <1>3, <1>6, <1>7, <1>9 DEF IInv, QueuedIsNew, SpentRow
<1>14. SettledFirst'
  BY <1>3, <1>4, <1>8 DEF IInv, SettledFirst, Settling
<1>15. RefusedFlight' /\ RefusedCaller'
  BY <1>3, <1>4, <1>6, <1>7, <1>8, <1>9 DEF IInv, RefusedFlight, RefusedCaller, Settling
<1> QED
  BY <1>10, <1>11, <1>12, <1>13, <1>14, <1>15 DEF IInv

(* A caller is told the answer of flight c; j is what it was before, with  *)
(* what a persist left in it.                                              *)
LEMMA ToldFits ==
  ASSUME TypeOK, NEW c \in Callers, FlightFits(flight[c], issued),
         NEW j \in Jobs, JobFits(j, issued)
  PROVE  /\ Told(j, c) \in Jobs /\ JobFits(Told(j, c), issued)
         /\ Told(j, c).pc = "settled" => j.pc = "settled" \/ Told(j, c).answer = flight[c].answer
<1>1. flight[c] \in Flights
  BY DEF TypeOK
<1>2. CASE j.pc = "waiting" /\ j.on = c
  <2> DEFINE j1 == [j EXCEPT !.pc = "settled", !.on = None]
             j2 == [j1 EXCEPT !.answer = flight[c].answer, !.token = flight[c].token]
  <2>1. j1 \in Jobs /\ j1.creds = j.creds /\ j1.pc = "settled"
    BY DEF Jobs
  <2>2. flight[c].answer \in Answers /\ flight[c].token \in 0..MaxToken
    BY <1>1 DEF Flights
  <2>3. Told(j, c) = j2
    BY <1>2 DEF Told
  <2> HIDE DEF j1
  <2>4. j2 \in Jobs
    BY <2>1, <2>2 DEF Jobs
  <2>5. /\ j2.answer = flight[c].answer /\ j2.token = flight[c].token
        /\ j2.creds = j.creds /\ j2.pc = "settled"
    BY <2>1 DEF Jobs
  <2> HIDE DEF j2
  <2>6. JobFits(j2, issued)
    BY <2>5 DEF JobFits, FlightFits
  <2> QED
    BY <2>3, <2>4, <2>5, <2>6
<1>3. CASE ~(j.pc = "waiting" /\ j.on = c)
  BY <1>3 DEF Told
<1> QED
  BY <1>2, <1>3

(* What a persist of token t leaves. *)
LEMMA PersistedFits ==
  ASSUME NEW j \in Jobs, JobFits(j, issued), NEW t \in Tokens, t <= issued
  PROVE  Persisted(j, t) \in Jobs /\ JobFits(Persisted(j, t), issued) /\ Persisted(j, t).pc = j.pc
<1>1. CASE j.pc = "idle"
  BY <1>1 DEF Persisted
<1>2. CASE j.pc # "idle"
  <2> DEFINE u == IF j.kind = "reactive" THEN t ELSE j.creds
             j1 == [j EXCEPT !.ran = TRUE]
             j2 == [j1 EXCEPT !.creds = u]
  <2>1. u \in Tokens /\ u <= issued
    BY DEF Jobs, JobFits
  <2>2. j1 \in Jobs /\ JobFits(j1, issued) /\ j1.pc = j.pc
    BY DEF Jobs, JobFits
  <2>3. Persisted(j, t) = j2
    BY <1>2 DEF Persisted
  <2> HIDE DEF u, j1
  <2>4. j2 \in Jobs
    BY <2>1, <2>2 DEF Jobs
  <2>5. JobFits(j2, issued) /\ j2.pc = j.pc
    BY <2>1, <2>2 DEF Jobs, JobFits
  <2> QED
    BY <2>3, <2>4, <2>5
<1> QED
  BY <1>1, <1>2

(* The end of a flight, whatever is done to the row. *)
LEMMA FlightEndKeeps ==
  ASSUME IInv, NEW c \in Callers, FlightEnds(c),
         NEW jobs \in [Callers -> Jobs],
         \A d \in Callers : JobFits(jobs[d], issued) /\ jobs[d].pc = caller[d].pc,
         caller' = [d \in Callers |-> Told(jobs[d], c)],
         row' \in [token : 0..MaxToken, fresh : BOOLEAN, active : BOOLEAN],
         row'.token <= issued,
         flight[c].answer # "tokens" => row' = row,
         excused' \in SUBSET Tokens, excused \subseteq excused',
         SpentRow'
  PROVE  IInv'
<1>1. TypeOK /\ FlightFits(flight[c], issued) /\ flight[c] \in Flights
  BY DEF IInv, Fits, TypeOK
<1>2. /\ ~Settling /\ flight[c].stage = "answered" /\ mutex' = None
      /\ rotation' = Recorded(c)
      /\ flight' = [flight EXCEPT ![c] = NoFlight]
      /\ UNCHANGED <<alive, issued, sent, granted, crashes>>
  BY DEF FlightEnds, Released, provider
<1>3. \A d \in Callers : /\ Told(jobs[d], c) \in Jobs /\ JobFits(Told(jobs[d], c), issued)
                         /\ Told(jobs[d], c).pc = "settled" =>
                               Told(jobs[d], c).answer = flight[c].answer
  BY <1>1, <1>2, ToldFits DEF Settling
<1>4. caller' \in [Callers -> Jobs] /\ \A d \in Callers : caller'[d] = Told(jobs[d], c)
  BY <1>3
<1>5. /\ flight' \in [Callers -> Flights]
      /\ \A d \in Callers : flight'[d].stage = "none" /\ flight'[d].answer = "null"
      /\ \A d \in Callers : FlightFits(flight'[d], issued)
  <2>1. /\ NoFlight \in Flights /\ FlightFits(NoFlight, issued) /\ NoFlight.stage = "none"
        /\ NoFlight.answer = "null"
    BY <1>1, NoFlightFits
  <2>2. \A d \in Callers : flight[d].stage # "none" => d = c
    BY <1>1, <1>2 DEF IInv, MutexIsFlight
  <2>3. \A d \in Callers : d # c => flight[d].stage = "none" /\ flight[d].answer = "null"
    BY <1>1, <2>2 DEF IInv, Fits, FlightFits, TypeOK, Flights, Answers
  <2> HIDE DEF NoFlight
  <2>4. /\ flight' \in [Callers -> Flights] /\ flight'[c] = NoFlight
        /\ \A d \in Callers : d # c => flight'[d] = flight[d]
    BY <1>1, <1>2, <2>1, FlightSet
  <2> QED
    BY <2>1, <2>3, <2>4 DEF IInv, Fits
<1>6. rotation' \in [Tokens -> 0..MaxToken] /\ \A t \in Tokens : rotation'[t] <= issued
  <2>1. flight[c].presented \in 0..MaxToken /\ flight[c].token \in 0..MaxToken /\ flight[c].token <= issued
    BY <1>1 DEF Flights, FlightFits
  <2> QED
    BY <1>1, <1>2, <2>1 DEF IInv, Within, TypeOK, Recorded, Tokens
<1>7. TypeOK'
  BY <1>1, <1>2, <1>4, <1>5, <1>6 DEF TypeOK
<1>8. Fits' /\ MutexIsFlight'
  BY <1>2, <1>3, <1>4, <1>5 DEF Fits, MutexIsFlight
<1>9. Within' /\ DeadIsSpent' /\ QueuedIsNew' /\ ReplayNeedsACause'
  BY <1>2, <1>5, <1>6 DEF IInv, Within, DeadIsSpent, QueuedIsNew, ReplayNeedsACause
<1>10. SettledFirst'
  BY <1>2, <1>3, <1>4 DEF SettledFirst
<1>11. RefusedFlight'
  BY <1>5 DEF RefusedFlight
<1>12. RefusedCaller'
  <2>1. ASSUME NEW d \in Callers, caller'[d].pc = "settled", caller'[d].answer = "error"
        PROVE  row'.token = 0 \/ row'.token \notin alive' \/ row'.token \in granted'
    <3>1. flight[c].answer = "error" /\ row' = row
      BY <1>3, <1>4, <2>1
    <3> QED
      BY <1>2, <3>1 DEF IInv, RefusedFlight
  <2> QED
    BY <2>1 DEF RefusedCaller
<1> QED
  BY <1>7, <1>8, <1>9, <1>10, <1>11, <1>12 DEF IInv

LEMMA PersistKeeps ==
  ASSUME IInv, NEW c \in Callers, Persist(c)
  PROVE  IInv'
<1> DEFINE t == flight[c].token
           jobs == [d \in Callers |-> IF d = c THEN Persisted(caller[d], t) ELSE caller[d]]
<1>1. /\ FlightEnds(c) /\ flight[c].answer = "tokens" /\ Stored(t) /\ excused' = Excuse(t)
      /\ UNCHANGED provider
  BY DEF Persist, FlightEnds
<1>2. t \in Tokens /\ t <= issued
  BY <1>1 DEF IInv, TypeOK, Flights, Fits, FlightFits, Tokens
<1>3. caller \in [Callers -> Jobs] /\ \A d \in Callers : JobFits(caller[d], issued)
  BY DEF IInv, TypeOK, Fits
<1>4. Persisted(caller[c], t) \in Jobs /\ JobFits(Persisted(caller[c], t), issued)
      /\ Persisted(caller[c], t).pc = caller[c].pc
  BY <1>2, <1>3, PersistedFits
<1>5. caller' = [d \in Callers |-> Told(jobs[d], c)]
  BY DEF Persist
<1>6. /\ row' \in [token : 0..MaxToken, fresh : BOOLEAN, active : BOOLEAN] /\ row'.token = t
      /\ excused' \in SUBSET Tokens /\ excused \subseteq excused' /\ SpentRow'
  BY <1>1, <1>2, StoredRow
<1>7. jobs \in [Callers -> Jobs] /\ \A d \in Callers : JobFits(jobs[d], issued) /\ jobs[d].pc = caller[d].pc
  BY <1>3, <1>4
<1> HIDE DEF t, jobs
<1> QED
  BY <1>1, <1>2, <1>5, <1>6, <1>7, FlightEndKeeps

(* Without a persist the callers are as they were; the row keeps its token. *)
LEMMA UnpersistedKeeps ==
  ASSUME IInv, NEW c \in Callers, FlightEnds(c), row' = row,
         caller' = [d \in Callers |-> Told(caller[d], c)],
         excused' \in SUBSET Tokens, excused \subseteq excused',
         flight[c].answer = "tokens" /\ flight[c].presented = row.token => row.token \in excused' \/ row.token = 0
  PROVE  IInv'
<1>1. /\ row \in [token : 0..MaxToken, fresh : BOOLEAN, active : BOOLEAN] /\ row.token <= issued
      /\ caller \in [Callers -> Jobs] /\ \A d \in Callers : JobFits(caller[d], issued)
  BY DEF IInv, TypeOK, Within, Fits
<1>2. \A d \in Callers : flight[d].stage # "none" => d = c
  BY DEF IInv, TypeOK, MutexIsFlight, FlightEnds
<1>3. SpentRow'
  BY <1>2 DEF IInv, SpentRow, FlightEnds, provider
<1> QED
  BY <1>1, <1>3, FlightEndKeeps

LEMMA SkipKeeps ==
  ASSUME IInv, NEW c \in Callers, Skip(c)
  PROVE  IInv'
<1>1. /\ excused' \in SUBSET Tokens /\ excused \subseteq excused'
      /\ flight[c].presented = row.token => row.token \in excused'
  <2>1. row.token \in Tokens /\ excused \in SUBSET Tokens
    BY DEF Skip, SkipPersist, IInv, TypeOK, Tokens
  <2> QED
    BY <2>1 DEF Skip
<1> QED
  BY <1>1, UnpersistedKeeps DEF Skip

LEMMA FailKeeps ==
  ASSUME IInv, NEW c \in Callers, Fail(c)
  PROVE  IInv'
BY UnpersistedKeeps DEF Fail, IInv, TypeOK

-----------------------------------------------------------------------------
(* Time, the operator, the process.                                        *)
LEMMA ExpireKeeps ==
  ASSUME IInv, Expire
  PROVE  IInv'
<1> USE DEF Expire, provider
<1>1. row' \in [token : 0..MaxToken, fresh : BOOLEAN, active : BOOLEAN] /\ row'.token = row.token
  BY DEF IInv, TypeOK
<1>2. TypeOK' /\ Fits' /\ MutexIsFlight'
  BY <1>1 DEF IInv, TypeOK, Fits, MutexIsFlight
<1>3. Within' /\ DeadIsSpent' /\ QueuedIsNew' /\ SpentRow' /\ ReplayNeedsACause'
  BY <1>1 DEF IInv, Within, DeadIsSpent, QueuedIsNew, SpentRow, ReplayNeedsACause
<1>4. SettledFirst' /\ RefusedFlight' /\ RefusedCaller'
  BY <1>1 DEF IInv, SettledFirst, Settling, RefusedFlight, RefusedCaller
<1> QED
  BY <1>2, <1>3, <1>4 DEF IInv

LEMMA ForgetKeeps ==
  ASSUME IInv, NEW t \in Tokens, Forget(t)
  PROVE  IInv'
<1> USE DEF Forget, provider
<1>1. issued \in Nat
  BY DEF IInv, TypeOK, Tokens
<1>2. rotation' \in [Tokens -> 0..MaxToken] /\ \A u \in Tokens : rotation'[u] <= issued
  BY <1>1 DEF IInv, TypeOK, Within
<1>3. TypeOK' /\ Fits' /\ MutexIsFlight'
  BY <1>2 DEF IInv, TypeOK, Fits, MutexIsFlight
<1>4. Within' /\ DeadIsSpent' /\ QueuedIsNew' /\ SpentRow' /\ ReplayNeedsACause'
  BY <1>2 DEF IInv, Within, DeadIsSpent, QueuedIsNew, SpentRow, ReplayNeedsACause
<1>5. SettledFirst' /\ RefusedFlight' /\ RefusedCaller'
  BY DEF IInv, SettledFirst, Settling, RefusedFlight, RefusedCaller
<1> QED
  BY <1>3, <1>4, <1>5 DEF IInv

LEMMA LoginKeeps ==
  ASSUME IInv, Login
  PROVE  IInv'
<1>1. TypeOK
  BY DEF IInv
<1>2. /\ issued' = issued + 1 /\ issued' \in Tokens /\ issued \in Nat /\ issued' \in Nat
      /\ alive' = alive \cup {issued'} /\ granted' = granted \cup {issued'}
      /\ row' \in [token : 0..MaxToken, fresh : BOOLEAN, active : BOOLEAN] /\ row'.token = issued'
      /\ ~Settling /\ UNCHANGED <<sent, rotation, mutex, flight, caller, crashes, excused>>
  BY <1>1 DEF Login, TypeOK, Tokens
<1>3. TypeOK' /\ MutexIsFlight'
  BY <1>1, <1>2 DEF TypeOK, IInv, MutexIsFlight
<1>4. Fits'
  BY <1>1, <1>2, FitsGrow DEF IInv, Fits, TypeOK
<1>5. Within' /\ DeadIsSpent'
  BY <1>1, <1>2 DEF IInv, Within, DeadIsSpent, TypeOK, Tokens
<1>6. QueuedIsNew' /\ ReplayNeedsACause'
  BY <1>2 DEF IInv, QueuedIsNew, ReplayNeedsACause
<1>7. SpentRow'
  BY <1>2 DEF IInv, Within, SpentRow
<1>8. SettledFirst' /\ RefusedCaller'
  BY <1>2 DEF IInv, SettledFirst, Settling, RefusedCaller
<1>9. RefusedFlight'
  <2>1. \A c \in Callers : flight[c].presented # issued'
    BY <1>1, <1>2 DEF IInv, Fits, FlightFits, TypeOK, Flights
  <2> QED
    BY <1>2, <2>1 DEF IInv, RefusedFlight
<1> QED
  BY <1>3, <1>4, <1>5, <1>6, <1>7, <1>8, <1>9 DEF IInv

LEMMA CrashKeeps ==
  ASSUME IInv, Crash
  PROVE  IInv'
<1>1. TypeOK /\ issued \in Nat
  BY DEF IInv, TypeOK, Tokens
<1>2. /\ rotation' = [t \in Tokens |-> 0] /\ mutex' = None
      /\ flight' = [c \in Callers |-> NoFlight] /\ caller' = [c \in Callers |-> Idle]
      /\ excused' = Excuse(row.token) /\ crashes' \in 0..MaxCrashes
      /\ UNCHANGED <<row, alive, issued, sent, granted>>
  BY <1>1 DEF Crash, provider, TypeOK
<1>3. Idle \in Jobs /\ JobFits(Idle, issued) /\ Idle.pc = "idle"
  BY <1>1, IdleFits
<1>4. /\ NoFlight \in Flights /\ FlightFits(NoFlight, issued) /\ NoFlight.stage = "none"
      /\ NoFlight.answer = "null"
  BY <1>1, NoFlightFits
<1>5. /\ excused' \in SUBSET Tokens /\ excused \subseteq excused'
      /\ (row.token # 0 /\ sent[row.token] # 0 => row.token \in excused')
  <2>1. excused \in SUBSET Tokens /\ excused' = excused \cup ({row.token} \cap {u \in Tokens : sent[u] > 0})
    BY <1>1, <1>2 DEF TypeOK, Excuse
  <2>2. row.token # 0 /\ sent[row.token] # 0 => row.token \in Tokens /\ sent[row.token] > 0
    BY <1>1 DEF TypeOK, Tokens
  <2> QED
    BY <2>1, <2>2
<1> HIDE DEF Idle, NoFlight
<1>6. TypeOK'
  BY <1>1, <1>2, <1>3, <1>4, <1>5 DEF TypeOK
<1>7. Fits' /\ MutexIsFlight'
  BY <1>2, <1>3, <1>4 DEF Fits, MutexIsFlight
<1>8. Within' /\ DeadIsSpent' /\ QueuedIsNew' /\ ReplayNeedsACause'
  BY <1>1, <1>2, <1>4, <1>5 DEF IInv, Within, DeadIsSpent, QueuedIsNew, ReplayNeedsACause
<1>9. SpentRow'
  BY <1>2, <1>5 DEF SpentRow
<1>10. SettledFirst' /\ RefusedFlight' /\ RefusedCaller'
  BY <1>2, <1>3, <1>4 DEF SettledFirst, Settling, RefusedFlight, RefusedCaller
<1> QED
  BY <1>6, <1>7, <1>8, <1>9, <1>10 DEF IInv

-----------------------------------------------------------------------------
LEMMA NextKeeps ==
  ASSUME IInv, Next
  PROVE  IInv'
<1>1. ASSUME NEW c \in Callers, NEW k \in Kinds, Start(c, k) PROVE IInv'
  BY <1>1, StartKeeps
<1>2. ASSUME NEW c \in Callers, Present(c) PROVE IInv'
  BY <1>2, ExchangeKeeps, RejectedKeeps, NeverSentKeeps DEF Present
<1>3. ASSUME NEW c \in Callers, FlightStep(c) PROVE IInv'
  BY <1>2, <1>3, CheckKeeps, PersistKeeps, SkipKeeps, FailKeeps DEF FlightStep
<1>4. ASSUME NEW c \in Callers, Settle(c) PROVE IInv'
  BY <1>4, GetsTokensKeeps, GetsErrorKeeps, GetsNothingKeeps DEF Settle
<1>5. ASSUME NEW c \in Callers, NoRefresh(c) \/ Join(c) \/ Lead(c) \/ Timeout(c) PROVE IInv'
  BY <1>5, NoRefreshKeeps, JoinKeeps, LeadKeeps, TimeoutKeeps
<1>6. ASSUME Expire \/ (\E t \in Tokens : Forget(t)) \/ Login \/ Crash PROVE IInv'
  BY <1>6, ExpireKeeps, ForgetKeeps, LoginKeeps, CrashKeeps
<1> QED
  BY <1>1, <1>3, <1>4, <1>5, <1>6 DEF Next

LEMMA StepKeeps == IInv /\ [Next]_vars => IInv'
<1> SUFFICES ASSUME IInv, [Next]_vars PROVE IInv'
  OBVIOUS
<1>1. CASE Next
  BY <1>1, NextKeeps
<1>2. CASE UNCHANGED vars
  <2> USE <1>2 DEF vars, provider
  <2>1. TypeOK' /\ Fits' /\ MutexIsFlight' /\ Within' /\ DeadIsSpent'
    BY DEF IInv, TypeOK, Fits, MutexIsFlight, Within, DeadIsSpent
  <2>2. QueuedIsNew' /\ SpentRow' /\ ReplayNeedsACause'
    BY DEF IInv, QueuedIsNew, SpentRow, ReplayNeedsACause
  <2>3. SettledFirst' /\ RefusedFlight' /\ RefusedCaller'
    BY DEF IInv, SettledFirst, Settling, RefusedFlight, RefusedCaller
  <2> QED
    BY <2>1, <2>2, <2>3 DEF IInv
<1> QED
  BY <1>1, <1>2

LEMMA Invariance == Spec => []IInv
<1> QED
  BY InitHolds, StepKeeps, PTL DEF Spec

-----------------------------------------------------------------------------
(* Every reachable state has the types TypeOK gives. *)
THEOREM TypeCorrect == Spec => []TypeOK
<1>1. IInv => TypeOK
  BY DEF IInv
<1> QED
  BY <1>1, Invariance, PTL

(* Never two refreshes of the connection at once, whatever callers give up *)
(* and try again (getAccessToken's mutex).                                 *)
THEOREM RefreshesExclude == Spec => []OneRefreshPerConnection
<1>1. IInv => OneRefreshPerConnection
  BY DEF IInv, MutexIsFlight, OneRefreshPerConnection
<1> QED
  BY <1>1, Invariance, PTL

(* The provider sees a token again only after a lost answer, a persist the *)
(* guard skipped, a crash, a write of a spent token or a row without one.  *)
THEOREM ReplaysAreCaused == Spec => []ReplayNeedsACause
<1>1. IInv => ReplayNeedsACause
  BY DEF IInv
<1> QED
  BY <1>1, Invariance, PTL

(* Only an error a caller was told takes an account out of use. *)
LEMMA OnlyErrorsDeactivate ==
  ASSUME IInv, Next, row.active, ~row'.active
  PROVE  \E c \in Callers : caller[c].pc = "settled" /\ caller[c].answer = "error"
<1>1. \A c \in Callers : Settle(c) => caller[c].pc = "settled"
  BY DEF Settle
<1>2. \A c \in Callers : Settle(c) => caller[c].answer = "error"
  BY DEF Settle, GetsTokens, GetsNothing, GetsError, Stored, IInv, TypeOK
<1>3. \A c \in Callers : ~FlightStep(c)
  BY DEF FlightStep, Check, Present, Persist, Skip, Fail, Stored, IInv, TypeOK
<1>4. \A c \in Callers :
        ~NoRefresh(c) /\ ~Join(c) /\ ~Lead(c) /\ ~Timeout(c) /\ \A k \in Kinds : ~Start(c, k)
  BY DEF NoRefresh, Join, Lead, Timeout, Start
<1>5. ~Expire /\ ~Login /\ ~Crash /\ \A t \in Tokens : ~Forget(t)
  BY DEF Expire, Login, Crash, Forget, IInv, TypeOK
<1> QED
  BY <1>1, <1>2, <1>3, <1>4, <1>5 DEF Next

(* A healthy account is never taken out of use for a refresh that failed,  *)
(* except one that was authenticated anew while the refresh went on.       *)
THEOREM DeactivationsAreDue == Spec => DeactivatedOnlyDead
<1>1. IInv /\ [Next]_vars =>
        [row.active /\ ~row'.active => row.token \notin alive \/ row.token \in granted]_vars
  <2> SUFFICES ASSUME IInv, Next, row.active, ~row'.active
               PROVE  row.token \notin alive \/ row.token \in granted
    BY DEF vars
  <2>1. PICK c \in Callers : caller[c].pc = "settled" /\ caller[c].answer = "error"
    BY OnlyErrorsDeactivate
  <2> QED
    BY <2>1 DEF IInv, RefusedCaller, TypeOK, Tokens
<1> QED
  BY <1>1, Invariance, PTL DEF Spec, DeactivatedOnlyDead

-----------------------------------------------------------------------------
(* Every caller that waits, waits for the flight in the mutex.             *)
Joined == \A c \in Callers : caller[c].pc = "waiting" => mutex # None /\ caller[c].on = mutex

(* Steps that leave the mutex alone and make nobody wait.                  *)
LEMMA NoNewWaiter ==
  ASSUME Joined, mutex' = mutex,
         \A c \in Callers : caller'[c].pc = "waiting" => caller'[c] = caller[c]
  PROVE  Joined'
BY DEF Joined

(* The mutex changes hands only where nobody waits.                        *)
LEMMA LeadJoined ==
  ASSUME IInv, Joined, NEW c \in Callers, Lead(c)
  PROVE  Joined'
<1>1. mutex = None /\ mutex' = c /\ caller' = [caller EXCEPT ![c] = WaitsFor(c, c)]
  BY DEF Lead, Taken
<1>2. \A d \in Callers : caller[d].pc # "waiting"
  BY <1>1 DEF Joined
<1>3. caller[c] \in Jobs /\ caller \in [Callers -> Jobs]
  BY DEF IInv, TypeOK
<1>4. WaitsFor(c, c).on = c
  BY <1>3 DEF WaitsFor, Jobs
<1> QED
  BY <1>1, <1>2, <1>3, <1>4 DEF Joined

LEMMA JoinJoined ==
  ASSUME IInv, Joined, NEW c \in Callers, Join(c)
  PROVE  Joined'
<1>1. mutex # None /\ mutex' = mutex /\ caller' = [caller EXCEPT ![c] = WaitsFor(c, mutex)]
  BY DEF Join, Taken
<1>2. caller[c] \in Jobs /\ caller \in [Callers -> Jobs]
  BY DEF IInv, TypeOK
<1>3. WaitsFor(c, mutex).on = mutex
  BY <1>2 DEF WaitsFor, Jobs
<1> QED
  BY <1>1, <1>2, <1>3 DEF Joined

(* A flight that ends tells everybody who waits.                           *)
LEMMA EndJoined ==
  ASSUME IInv, Joined, NEW c \in Callers, Persist(c) \/ Skip(c) \/ Fail(c)
  PROVE  Joined'
<1>1. caller \in [Callers -> Jobs] /\ flight[c].stage = "answered"
  BY DEF IInv, TypeOK, Persist, Skip, Fail, FlightEnds
<1>2. mutex = c
  BY <1>1 DEF IInv, MutexIsFlight
<1>3. \A d \in Callers : caller[d].pc = "waiting" => caller[d].on = c
  BY <1>2 DEF Joined
<1>4. \A j \in Jobs : j.pc = "waiting" /\ j.on = c => Told(j, c).pc = "settled"
  BY DEF Told, Jobs
<1>5. \A j \in Jobs : j.pc # "waiting" => Told(j, c).pc # "waiting"
  BY DEF Told
<1>6. \A j \in Jobs, t \in Tokens : /\ Persisted(j, t) \in Jobs
                                    /\ Persisted(j, t).pc = j.pc /\ Persisted(j, t).on = j.on
  BY DEF Persisted, Jobs
<1>7. ASSUME Persist(c)  PROVE \A d \in Callers : caller'[d].pc # "waiting"
  <2>1. flight[c].token \in Tokens
    BY <1>7 DEF Persist, IInv, TypeOK, Fits, FlightFits, Flights, Tokens
  <2> DEFINE t == flight[c].token
  <2>2. caller' = [d \in Callers |->
                     Told(IF d = c THEN Persisted(caller[d], t) ELSE caller[d], c)]
    BY <1>7 DEF Persist
  <2>3. \A d \in Callers : Told(caller[d], c).pc # "waiting"
    BY <1>1, <1>3, <1>4, <1>5
  <2>4. Told(Persisted(caller[c], t), c).pc # "waiting"
    BY <1>1, <1>3, <1>4, <1>5, <1>6, <2>1
  <2> QED
    BY <2>2, <2>3, <2>4
<1>8. ASSUME Skip(c) \/ Fail(c)  PROVE \A d \in Callers : caller'[d].pc # "waiting"
  <2>1. caller' = [d \in Callers |-> Told(caller[d], c)]
    BY <1>8 DEF Skip, Fail
  <2> QED
    BY <1>1, <1>3, <1>4, <1>5, <2>1
<1> QED
  BY <1>7, <1>8 DEF Joined

(* One caller goes on, without waiting.                                    *)
LEMMA OthersJoined ==
  ASSUME IInv, Joined, mutex' = mutex, NEW c \in Callers, NEW j, j.pc # "waiting",
         caller' = [caller EXCEPT ![c] = j]
  PROVE  Joined'
<1>1. caller \in [Callers -> Jobs]
  BY DEF IInv, TypeOK
<1> QED
  BY <1>1, NoNewWaiter

LEMMA TryAgainJoined ==
  ASSUME IInv, Joined, mutex' = mutex, NEW c \in Callers, TryAgain(c) \/ Leave(c)
  PROVE  Joined'
<1>1. caller[c] \in Jobs
  BY DEF IInv, TypeOK
<1> DEFINE j == [caller[c] EXCEPT !.pc = "delay", !.on = None]
<1>2. j.pc = "delay" /\ Idle.pc = "idle"
  BY <1>1 DEF Jobs, Idle, Job
<1>3. caller' = [caller EXCEPT ![c] = j] \/ caller' = [caller EXCEPT ![c] = Idle]
  BY DEF TryAgain, Leave
<1> HIDE DEF j
<1> QED
  BY <1>2, <1>3, OthersJoined

LEMMA JoinedNext ==
  ASSUME IInv, Joined, Next
  PROVE  Joined'
<1>1. ASSUME NEW c \in Callers, NEW k \in Kinds, Start(c, k)  PROVE Joined'
  <2>1. Job("holding", k, row.token).pc = "holding"
    BY DEF Job
  <2>2. mutex' = mutex /\ caller' = [caller EXCEPT ![c] = Job("holding", k, row.token)]
    BY <1>1 DEF Start
  <2> QED
    BY <2>1, <2>2, OthersJoined
<1>2. ASSUME NEW c \in Callers, NoRefresh(c) \/ Timeout(c) \/ Settle(c)  PROVE Joined'
  BY <1>2, TryAgainJoined DEF NoRefresh, Timeout, Settle, GetsTokens, GetsError, GetsNothing
<1>3. ASSUME NEW c \in Callers, Check(c)  PROVE Joined'
  <2>1. caller \in [Callers -> Jobs] /\ mutex' = mutex
    BY <1>3 DEF Check, IInv, TypeOK
  <2>2. \A j \in Jobs : \A t : /\ Adopted(j, t).pc = j.pc
                               /\ Adopted(j, t).on = j.on
    BY DEF Adopted, Jobs
  <2>3. \A d \in Callers : caller'[d].pc = caller[d].pc /\ caller'[d].on = caller[d].on
    BY <1>3, <2>1, <2>2 DEF Check
  <2> QED
    BY <2>1, <2>3 DEF Joined
<1>4. ASSUME NEW c \in Callers, Present(c)  PROVE Joined'
  BY <1>4 DEF Present, Joined
<1>5. CASE Crash
  <2>1. Idle.pc = "idle"
    BY DEF Idle, Job
  <2> QED
    BY <1>5, <2>1 DEF Crash, Joined
<1>6. CASE Expire \/ (\E t \in Tokens : Forget(t)) \/ Login
  BY <1>6 DEF Expire, Forget, Login, Joined
<1> QED
  BY <1>1, <1>2, <1>3, <1>4, <1>5, <1>6, LeadJoined, JoinJoined, EndJoined DEF Next, FlightStep

(* Whoever waits for a refresh waits for one that is under way and holds   *)
(* the mutex: no time out, retry, shared flight or crash leaves a caller   *)
(* with a promise nobody will resolve, or the mutex with no flight.        *)
THEOREM NobodyWaitsInVain == Spec => []WaitersHaveTheFlight
<1>1. Init => Joined
  BY DEF Init, Joined, Idle, Job
<1>2. IInv /\ Joined /\ [Next]_vars => Joined'
  <2>1. ASSUME Joined, UNCHANGED vars  PROVE Joined'
    BY <2>1 DEF Joined, vars
  <2> QED
    BY <2>1, JoinedNext
<1>3. IInv /\ Joined => WaitersHaveTheFlight
  BY DEF IInv, MutexIsFlight, Joined, WaitersHaveTheFlight
<1> QED
  BY <1>1, <1>2, <1>3, Invariance, PTL DEF Spec
=============================================================================
