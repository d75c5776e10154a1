---------------------------- MODULE TokenRefresh ----------------------------
(***************************************************************************)
(* Refreshing the OAuth tokens of one connection of a rotating provider:   *)
(* the per-connection mutex, the rotation map, the staleness check and the *)
(* persist under the guard (open-sse/services/tokenRefresh.ts and its      *)
(* directory).  Its callers are of three kinds: a request that was answered *)
(* 401, "reactive" (chatCore.ts), one that finds the token about to expire, *)
(* "proactive" (base.ts, checkAndRefreshToken), and the "sweep"            *)
(* (tokenHealthCheck.ts).                                                  *)
(*                                                                         *)
(* Refresh tokens are numbered in the order the provider issues them; each *)
(* exchange spends the token presented.  A flight is the promise a caller  *)
(* put into the mutex; it goes on when its caller has given it up.  Once a *)
(* flight is over, its callers go on before any timer or answer comes in   *)
(* (their awaits stay in the microtask queue): Settle goes first.          *)
(***************************************************************************)
EXTENDS Integers, FiniteSets

CONSTANTS
    Callers,
    None,
    MaxToken,     \* bound on the tokens issued
    MaxTries,     \* maxRetries of refreshWithRetry
    MaxCrashes    \* bound on the crashes of a behaviour

ASSUME RefreshAssumption ==
    /\ MaxToken \in Nat \ {0} /\ MaxTries \in Nat \ {0} /\ MaxCrashes \in Nat
    /\ None \notin Callers

VARIABLES
    row,        \* refresh token (0: none), access token good for a minute, isActive
    alive,      \* the tokens the provider would accept
    issued,     \* the last token issued
    rotation,   \* tokenRotationMap: the token that one was rotated to, or 0
    mutex,      \* connectionRefreshMutex: the caller whose flight is in it
    flight,     \* per caller, the promise it started
    caller,
    crashes,
    sent,       \* history: how often the provider has seen each token, up to twice
    excused,    \* history: the spent tokens somebody may have to present again
    granted     \* history: the tokens that came from an authentication

provider == <<alive, issued, sent, granted>>
vars     == <<row, provider, rotation, mutex, flight, caller, crashes, excused>>

Tokens == 1..MaxToken
Kinds  == {"reactive", "proactive", "sweep"}

Answers == {"null", "error", "tokens"}

Flights ==
    [stage : {"none", "checking", "queued", "answered"}, expected : 0..MaxToken,
     presented : 0..MaxToken, answer : Answers, token : 0..MaxToken]

Jobs ==
    [pc : {"idle", "holding", "waiting", "delay", "settled"}, kind : Kinds,
     attempted : Tokens, creds : Tokens, tries : 0..MaxTries, on : Callers \cup {None},
     answer : Answers, token : 0..MaxToken, ran : BOOLEAN]

NoFlight == [stage |-> "none", expected |-> 0, presented |-> 0, answer |-> "null", token |-> 0]

Job(pc, k, t) ==
    [pc |-> pc, kind |-> k, attempted |-> t, creds |-> t, tries |-> 0,
     on |-> None, answer |-> "null", token |-> 0, ran |-> FALSE]

Idle == Job("idle", "proactive", 1)

TypeOK ==
    /\ row \in [token : 0..MaxToken, fresh : BOOLEAN, active : BOOLEAN]
    /\ alive \in SUBSET Tokens
    /\ issued \in Tokens
    /\ rotation \in [Tokens -> 0..MaxToken]
    /\ mutex \in Callers \cup {None}
    /\ flight \in [Callers -> Flights]
    /\ caller \in [Callers -> Jobs]
    /\ crashes \in 0..MaxCrashes
    /\ sent \in [Tokens -> 0..2]
    /\ excused \in SUBSET Tokens
    /\ granted \in SUBSET Tokens

Init ==
    /\ row = [token |-> 1, fresh |-> FALSE, active |-> TRUE]
    /\ alive = {1}
    /\ issued = 1
    /\ rotation = [t \in Tokens |-> 0]
    /\ mutex = None
    /\ flight = [c \in Callers |-> NoFlight]
    /\ caller = [c \in Callers |-> Idle]
    /\ crashes = 0
    /\ sent = [t \in Tokens |-> 0]
    /\ excused = {}
    /\ granted = {}

Settling == \E c \in Callers : caller[c].pc = "settled"

Leave(c) == caller' = [caller EXCEPT ![c] = Idle]

-----------------------------------------------------------------------------
(* A caller reads the row.  There is one sweep at a time.                  *)
Start(c, k) ==
    /\ ~Settling
    /\ caller[c].pc = "idle" /\ flight[c].stage = "none"
    /\ row.active /\ row.token # 0
    /\ k = "sweep" => \A d \in Callers : caller[d].pc # "idle" => caller[d].kind # "sweep"
    /\ caller' = [caller EXCEPT ![c] = Job("holding", k, row.token)]
    /\ UNCHANGED <<row, provider, rotation, mutex, flight, crashes, excused>>

(* Its token is still good, or the provider's refreshes are blocked after  *)
(* the failures of any connection.                                         *)
NoRefresh(c) ==
    /\ ~Settling
    /\ caller[c].pc = "holding"
    /\ Leave(c)
    /\ UNCHANGED <<row, provider, rotation, mutex, flight, crashes, excused>>

(* Mutant: a retry does not look for a flight to join. *)
TakenForFirstTry(c) == mutex # None /\ caller[c].tries = 0

Taken(c) == mutex # None

WaitsFor(c, d) == [caller[c] EXCEPT !.pc = "waiting", !.on = d, !.tries = @ + 1]

(* getAccessToken joins the flight in the mutex, *)
Join(c) ==
    /\ ~Settling
    /\ caller[c].pc \in {"holding", "delay"}
    /\ Taken(c)
    /\ caller' = [caller EXCEPT ![c] = WaitsFor(c, mutex)]
    /\ UNCHANGED <<row, provider, rotation, mutex, flight, crashes, excused>>

(* A flight that is answered without a request, by the rotation map or the row. *)
Known(expected, t) ==
    [stage |-> "answered", expected |-> expected, presented |-> 0, answer |-> "tokens", token |-> t]

(* The token of the guard, which only chatCore sets. *)
Guard(c) == IF caller[c].kind = "reactive" THEN caller[c].attempted ELSE 0

(* or starts one and looks the token up before its first await. *)
Lead(c) ==
    /\ ~Settling
    /\ caller[c].pc \in {"holding", "delay"}
    /\ ~Taken(c)
    /\ mutex' = c
    /\ flight' = [flight EXCEPT ![c] =
           IF rotation[caller[c].creds] # 0
           THEN Known(Guard(c), rotation[caller[c].creds])
           ELSE [stage |-> "checking", expected |-> Guard(c), presented |-> caller[c].creds,
                 answer |-> "null", token |-> 0]]
    /\ caller' = [caller EXCEPT ![c] = WaitsFor(c, c)]
    /\ UNCHANGED <<row, provider, rotation, crashes, excused>>

(* That somebody may present t again is accounted for, if it is spent. *)
Excuse(t) == excused \cup ({t} \cap {u \in Tokens : sent[u] > 0})

(* The row knows a token the flight's caller does not. *)
Outdated(c) == row.token # 0 /\ row.token # flight[c].presented

(* Mutant: the caller's token is presented whatever the row says. *)
TokenToPresentUnchecked(c) == flight[c].presented

TokenToPresent(c) == IF Outdated(c) THEN row.token ELSE flight[c].presented

Answered(c, answer, t) ==
    flight' = [flight EXCEPT ![c] = [@ EXCEPT !.stage = "answered", !.answer = answer, !.token = t]]

(* The credentials of the caller that started the flight, if it still waits. *)
Adopted(j, t) == IF j.pc = "idle" THEN j ELSE [j EXCEPT !.creds = t]

(* _getAccessTokenWithStalenessCheck: a row without a token stops nobody. *)
Check(c) ==
    /\ ~Settling
    /\ flight[c].stage = "checking"
    /\ IF Outdated(c) /\ row.fresh
       THEN /\ flight' = [flight EXCEPT ![c] = Known(@.expected, row.token)]
            /\ UNCHANGED <<caller, excused>>
       ELSE LET g == TokenToPresent(c) IN
            /\ flight' = [flight EXCEPT ![c] = [@ EXCEPT !.stage = "queued", !.presented = g]]
            /\ caller' = [caller EXCEPT ![c] = Adopted(@, g)]
            /\ excused' = IF row.token = 0 THEN Excuse(g) ELSE excused
    /\ UNCHANGED <<row, provider, rotation, mutex, crashes>>

Seen(g) == sent' = [sent EXCEPT ![g] = IF @ = 0 THEN 1 ELSE 2]

(* The provider exchanges the token; its answer may be lost on the way. *)
Exchange(c) == LET g == flight[c].presented IN
    /\ g \in alive /\ issued < MaxToken
    /\ issued' = issued + 1
    /\ alive' = (alive \ {g}) \cup {issued'}
    /\ UNCHANGED granted
    /\ Seen(g)
    /\ \/ Answered(c, "tokens", issued') /\ UNCHANGED excused
       \/ Answered(c, "null", 0) /\ excused' = excused \cup {g}

Rejected(c) == LET g == flight[c].presented IN
    /\ g \notin alive
    /\ Seen(g)
    /\ Answered(c, "error", 0)
    /\ UNCHANGED <<alive, issued, granted, excused>>

NeverSent(c) == Answered(c, "null", 0) /\ UNCHANGED <<provider, excused>>

(* The lane of refreshSerializer lets the flight through, in the end. *)
Present(c) ==
    /\ ~Settling
    /\ flight[c].stage = "queued"
    /\ Exchange(c) \/ Rejected(c) \/ NeverSent(c)
    /\ UNCHANGED <<row, rotation, mutex, caller, crashes>>

(* updateProviderCredentials *)
Stored(t) == row' = [row EXCEPT !.token = t, !.fresh = TRUE]

(* casGuardShouldSkipPersist *)
SkipPersist(c) ==
    /\ flight[c].expected # 0
    /\ row.token # 0 /\ row.token # flight[c].expected

(* Mutant: a failed refresh leaves the mutex taken. *)
ReleasedOnSuccess(c) == IF flight[c].answer = "tokens" THEN None ELSE mutex

Released(c) == None

Recorded(c) == LET f == flight[c] IN
    IF f.answer = "tokens" /\ f.presented # 0
    THEN [rotation EXCEPT ![f.presented] = f.token] ELSE rotation

(* What its persist leaves with the caller that started the flight, unless *)
(* that has gone; only chatCore's goes on with the new credentials.        *)
Persisted(j, t) ==
    IF j.pc = "idle" THEN j
    ELSE [j EXCEPT !.ran = TRUE, !.creds = IF j.kind = "reactive" THEN t ELSE j.creds]

(* The callers that wait for the flight get its answer. *)
Told(j, c) ==
    IF j.pc = "waiting" /\ j.on = c
    THEN [j EXCEPT !.pc = "settled", !.on = None, !.answer = flight[c].answer, !.token = flight[c].token]
    ELSE j

FlightEnds(c) ==
    /\ ~Settling
    /\ flight[c].stage = "answered"
    /\ rotation' = Recorded(c)
    /\ mutex' = Released(c)
    /\ flight' = [flight EXCEPT ![c] = NoFlight]
    /\ UNCHANGED <<provider, crashes>>

Persist(c) == LET t == flight[c].token IN
    /\ FlightEnds(c)
    /\ flight[c].answer = "tokens" /\ ~SkipPersist(c)
    /\ Stored(t)
    /\ excused' = Excuse(t)
    /\ caller' = [d \in Callers |-> Told(IF d = c THEN Persisted(caller[d], t) ELSE caller[d], c)]

(* The guard keeps the new token from the row, whatever the row holds. *)
Skip(c) ==
    /\ FlightEnds(c)
    /\ flight[c].answer = "tokens" /\ SkipPersist(c)
    /\ excused' = IF flight[c].presented = row.token THEN excused \cup {row.token} ELSE excused
    /\ caller' = [d \in Callers |-> Told(caller[d], c)]
    /\ UNCHANGED row

Fail(c) ==
    /\ FlightEnds(c)
    /\ flight[c].answer # "tokens"
    /\ caller' = [d \in Callers |-> Told(caller[d], c)]
    /\ UNCHANGED <<row, excused>>

-----------------------------------------------------------------------------
(* refreshWithRetry; only chatCore goes through it.                        *)

(* Mutant: one attempt too many. *)
MayRetryOnceMore(c) == caller[c].kind = "reactive" /\ caller[c].tries <= MaxTries

MayRetry(c) == caller[c].kind = "reactive" /\ caller[c].tries < MaxTries

TryAgain(c) ==
    IF MayRetry(c)
    THEN caller' = [caller EXCEPT ![c] = [@ EXCEPT !.pc = "delay", !.on = None]]
    ELSE Leave(c)

(* withTimeout gives the flight up and leaves it running. *)
Timeout(c) ==
    /\ ~Settling
    /\ caller[c].kind = "reactive" /\ caller[c].pc = "waiting"
    /\ TryAgain(c)
    /\ UNCHANGED <<row, provider, rotation, mutex, flight, crashes, excused>>

(* A caller whose own persist has not run stores the tokens itself, except *)
(* checkAndRefreshToken, which leaves that to whoever started the flight.  *)
GetsTokens(c) ==
    /\ caller[c].answer = "tokens"
    /\ \/ ~caller[c].ran /\ Stored(caller[c].token) /\ excused' = Excuse(caller[c].token)
       \/ (caller[c].ran \/ caller[c].kind = "proactive") /\ UNCHANGED <<row, excused>>
    /\ Leave(c)

(* wasRefreshTokenRotated(attempted, row): the failure was of an old token.*)
AlreadyRotated(c) == row.token # 0 /\ row.token # caller[c].attempted

(* An unrecoverable error: the account is taken out of use, by the sweep   *)
(* only when its access token has run out, and with its refresh token.     *)
GetsError(c) == LET k == caller[c].kind IN
    /\ caller[c].answer = "error"
    /\ \/ k = "reactive" /\ ~AlreadyRotated(c) /\ row' = [row EXCEPT !.active = FALSE]
       \/ k = "sweep" /\ row.token = caller[c].attempted
          /\ row' = [row EXCEPT !.active = FALSE, !.token = 0]
       \/ k = "sweep" /\ (row.fresh \/ row.token # caller[c].attempted) /\ UNCHANGED row
       \/ k = "reactive" /\ AlreadyRotated(c) /\ UNCHANGED row
       \/ k = "proactive" /\ UNCHANGED row
    /\ Leave(c)
    /\ UNCHANGED excused

GetsNothing(c) ==
    /\ caller[c].answer = "null"
    /\ TryAgain(c)
    /\ UNCHANGED <<row, excused>>

Settle(c) ==
    /\ caller[c].pc = "settled"
    /\ GetsTokens(c) \/ GetsError(c) \/ GetsNothing(c)
    /\ UNCHANGED <<provider, rotation, mutex, flight, crashes>>

-----------------------------------------------------------------------------
(* Time, the operator, the process.                                        *)

Expire ==
    /\ ~Settling
    /\ row.fresh
    /\ row' = [row EXCEPT !.fresh = FALSE]
    /\ UNCHANGED <<provider, rotation, mutex, flight, caller, crashes, excused>>

(* An entry's minute is over; the oldest goes first. *)
Forget(t) ==
    /\ ~Settling
    /\ rotation[t] # 0
    /\ \A u \in Tokens : rotation[u] # 0 => rotation[t] <= rotation[u]
    /\ rotation' = [rotation EXCEPT ![t] = 0]
    /\ UNCHANGED <<row, provider, mutex, flight, caller, crashes, excused>>

Login ==
    /\ ~Settling
    /\ issued < MaxToken
    /\ issued' = issued + 1
    /\ alive' = alive \cup {issued'}
    /\ granted' = granted \cup {issued'}
    /\ row' = [token |-> issued', fresh |-> TRUE, active |-> TRUE]
    /\ UNCHANGED <<sent, rotation, mutex, flight, caller, crashes, excused>>

Crash ==
    /\ crashes < MaxCrashes
    /\ crashes' = crashes + 1
    /\ excused' = Excuse(row.token)
    /\ rotation' = [t \in Tokens |-> 0]
    /\ mutex' = None
    /\ flight' = [c \in Callers |-> NoFlight]
    /\ caller' = [c \in Callers |-> Idle]
    /\ UNCHANGED <<row, provider>>

-----------------------------------------------------------------------------
FlightStep(c) == Check(c) \/ Present(c) \/ Persist(c) \/ Skip(c) \/ Fail(c)

Next ==
    \/ \E c \in Callers :
           \/ \E k \in Kinds : Start(c, k)
           \/ NoRefresh(c) \/ Join(c) \/ Lead(c) \/ Timeout(c) \/ Settle(c)
           \/ FlightStep(c)
    \/ Expire \/ (\E t \in Tokens : Forget(t)) \/ Login \/ Crash

Spec == Init /\ [][Next]_vars

(* Promises that are resolved run on, and a refresh request ends (the lane *)
(* before it always moves on, see RefreshSerializer).                      *)
FairSpec == Spec /\ \A c \in Callers : WF_vars(Settle(c)) /\ SF_vars(FlightStep(c))

-----------------------------------------------------------------------------
(* However often callers give up and try again, no two refreshes of the    *)
(* connection are under way at the same time (getAccessToken).             *)
OneRefreshPerConnection == \A c, d \in Callers :
    flight[c].stage # "none" /\ flight[d].stage # "none" => c = d

(* Nobody waits for an answer that will not come: the mutex names the one  *)
(* flight under way, and every caller that waits, waits for that flight,   *)
(* though callers time out of it, join it again and die.                   *)
WaitersHaveTheFlight ==
    /\ \A c \in Callers : flight[c].stage # "none" <=> mutex = c
    /\ \A c \in Callers : caller[c].pc = "waiting" => mutex # None /\ caller[c].on = mutex

(* The mutex, the rotation map, the staleness check and the persist inside *)
(* the mutex together: the provider sees a token a second time only if the *)
(* answer with its successor was lost, the guard or a crash kept that from *)
(* the row, a stale caller wrote the spent token back, or the row had none.*)
ReplayNeedsACause == \A t \in Tokens : sent[t] > 1 => t \in excused

(* An account is taken out of use only if its row's token is really dead,  *)
(* though the error was of a flight shared with others or of a token that  *)
(* has been rotated since; an account just authenticated anew is the one   *)
(* exception, a caller with its token can share the failure of the old.    *)
DeactivatedOnlyDead ==
    [][row.active /\ ~row'.active => row.token \notin alive \/ row.token \in granted]_vars

(* The mutex always comes free again. *)
MutexFreed == mutex # None ~> mutex = None
=============================================================================
