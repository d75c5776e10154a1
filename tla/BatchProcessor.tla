--------------------------- MODULE BatchProcessor ---------------------------
(***************************************************************************)
(* The batch processor (open-sse/services/batchProcessor.ts), its rows and *)
(* checkpoints (src/lib/db/batches.ts) and the routes that create, cancel  *)
(* and delete a batch, with crashes of the process.                        *)
(*                                                                         *)
(* What the database holds (status, counts, checkpoint, files, input)      *)
(* survives a crash; the rest is the process's memory.  A pass of the      *)
(* poller awaits only functions that never leave the microtask queue, so   *)
(* no route and no answer of a provider comes inside one (a worker it has  *)
(* just started may run on, but touches nothing the pass still looks at);  *)
(* a crash can come anywhere.                                              *)
(***************************************************************************)
EXTENDS Integers, FiniteSets

CONSTANTS
    Batches,
    Size,            \* the number of request lines of each batch's input file
    MaxConcurrent,   \* BATCH_MAX_CONCURRENT
    MaxAttempts,     \* maxRetries of processSingleItemWithRetry (200 in the code)
    Answers,         \* what may become of a line that was sent: see Recorded
    Deletable,       \* the batches whose input file a client may delete
    MaxCrashes       \* bound on the crashes of a behaviour

ASSUME BatchAssumption ==
    /\ Size \in [Batches -> Nat]
    /\ MaxConcurrent \in Nat \ {0}
    /\ MaxAttempts \in Nat \ {0}
    /\ MaxCrashes \in Nat

ASSUME EnvironmentAssumption ==
    /\ Answers \subseteq {"succeeded", "refused", "errored"}
    /\ Deletable \subseteq Batches

ASSUME FiniteBatches == IsFiniteSet(Batches)

VARIABLES
    status,       \* of the row; "new" before createBatch, "deleted" after deleteBatch
    counts,       \* requestCountsTotal, requestCountsCompleted, requestCountsFailed
    checkpoint,   \* per line; the "completed" of the code split by the provider's answer
    output,       \* the lines in the file the row names as output; {} for none
    errors,       \* the lines in the file the row names as error file
    input,        \* the input file: "valid", "invalid" or "gone"
    active,       \* activeBatches
    pc,           \* where processBatchItems is
    line,         \* the line it is at
    attempt,
    known,        \* the checkpoints it read when it started, then its own results
    pass,         \* where processPendingBatches is
    todo,         \* the batches its current loop has left
    slots,        \* its activeCount
    crashes,
    calls         \* history: how often each line was handed to the provider, retries included

rows    == <<status, counts, checkpoint, output, errors, input>>
worker  == <<pc, line, attempt, known>>
poller  == <<pass, todo, slots>>
history == <<crashes, calls>>
vars    == <<rows, active, worker, poller, history>>

Lines(b)  == 1..Size[b]
AllLines  == UNION {Lines(b) : b \in Batches}
Terminal  == {"completed", "failed", "cancelled", "expired"}
Pending   == {"validating", "in_progress", "finalizing", "cancelling"}
Statuses  == {"new", "deleted"} \cup Terminal \cup Pending
Recorded  == {"succeeded", "refused", "errored"}
Unstarted == {"none", "pending"}
Marks     == Unstarted \cup {"processing"} \cup Recorded

TypeOK ==
    /\ status \in [Batches -> Statuses]
    /\ counts \in [Batches -> [total : Nat, completed : Nat, failed : Nat]]
    /\ checkpoint \in [Batches -> [AllLines -> Marks]]
    /\ output \in [Batches -> SUBSET AllLines]
    /\ errors \in [Batches -> SUBSET AllLines]
    /\ input \in [Batches -> {"valid", "invalid", "gone"}]
    /\ active \in SUBSET Batches
    /\ pc \in [Batches -> {"none", "starting", "next", "throttled", "calling", "backoff"}]
    /\ line \in [Batches -> Nat]
    /\ attempt \in [Batches -> 0..MaxAttempts]
    /\ known \in [Batches -> [AllLines -> Marks]]
    /\ pass \in {"idle", "recovering", "acting"}
    /\ todo \in SUBSET Batches
    /\ slots \in Nat
    /\ crashes \in 0..MaxCrashes
    /\ calls \in [Batches -> [AllLines -> Nat]]

NoLines(m) == [l \in AllLines |-> m]

(* The database may come from a release without checkpoints (migration 112)*)
(* that was stopped while it ran the batches in old: their lines may all   *)
(* have been sent.                                                         *)
InitFrom(old) ==
    /\ status = [b \in Batches |-> IF b \in old THEN "in_progress" ELSE "new"]
    /\ counts = [b \in Batches |->
                    [total |-> IF b \in old THEN Size[b] ELSE 0, completed |-> 0, failed |-> 0]]
    /\ calls = [b \in Batches |-> NoLines(IF b \in old THEN 1 ELSE 0)]
    /\ checkpoint = [b \in Batches |-> NoLines("none")]
    /\ output = [b \in Batches |-> {}]
    /\ errors = [b \in Batches |-> {}]
    /\ input \in [Batches -> {"valid", "invalid"}]
    /\ active = {}
    /\ pc = [b \in Batches |-> "none"]
    /\ line = [b \in Batches |-> 0]
    /\ attempt = [b \in Batches |-> 0]
    /\ known = [b \in Batches |-> NoLines("none")]
    /\ pass = "idle" /\ todo = {} /\ slots = 0
    /\ crashes = 0

Init == \E old \in SUBSET Batches : InitFrom(old)

SetStatus(b, s) == status' = [status EXCEPT ![b] = s]

-----------------------------------------------------------------------------
(* The routes.                                                             *)

CreateBatch(b) ==
    /\ status[b] = "new"
    /\ SetStatus(b, "validating")
    /\ UNCHANGED <<counts, checkpoint, output, errors, input, active, worker, poller, history>>

(* The files route does not ask whether a batch still needs the file. *)
DeleteInput(b) ==
    /\ b \in Deletable
    /\ status[b] \in Pending /\ input[b] # "gone"
    /\ input' = [input EXCEPT ![b] = "gone"]
    /\ UNCHANGED <<status, counts, checkpoint, output, errors, active, worker, poller, history>>

Cancel(b) ==
    /\ status[b] \in Pending \ {"cancelling"}
    /\ SetStatus(b, "cancelling")
    /\ UNCHANGED <<counts, checkpoint, output, errors, input, active, worker, poller, history>>

(* The row, its checkpoints and the files it names go; a worker may still run. *)
DeleteBatch(b) ==
    /\ status[b] \in Terminal
    /\ SetStatus(b, "deleted")
    /\ checkpoint' = [checkpoint EXCEPT ![b] = NoLines("none")]
    /\ output' = [output EXCEPT ![b] = {}]
    /\ errors' = [errors EXCEPT ![b] = {}]
    /\ input' = [input EXCEPT ![b] = "gone"]
    /\ counts' = [counts EXCEPT ![b] = [total |-> 0, completed |-> 0, failed |-> 0]]
    /\ UNCHANGED <<active, worker, poller, history>>

-----------------------------------------------------------------------------
(* The poller.                                                             *)

Stale == {b \in Batches : status[b] \in {"in_progress", "finalizing"} /\ b \notin active}

BeginPass ==
    /\ pass = "idle"
    /\ pass' = "recovering"
    /\ todo' = Stale
    /\ UNCHANGED <<rows, active, worker, slots, history>>

NoCheckpoints(b) == \A l \in AllLines : checkpoint[b][l] = "none"

MayHaveCalled(b) ==
    counts[b].total > 0 \/ counts[b].completed > 0 \/ counts[b].failed > 0 \/ status[b] = "finalizing"

(* recoverStaleBatch: nothing shows which lines were sent, so none is sent again. *)
RefuseRecovery(b) ==
    /\ pass = "recovering" /\ b \in todo
    /\ NoCheckpoints(b) /\ MayHaveCalled(b)
    /\ todo' = todo \ {b}
    /\ SetStatus(b, "failed")
    /\ active' = active \ {b}
    /\ UNCHANGED <<counts, checkpoint, output, errors, input, worker, pass, slots, history>>

Recover(b) ==
    /\ pass = "recovering" /\ b \in todo
    /\ ~(NoCheckpoints(b) /\ MayHaveCalled(b))
    /\ todo' = todo \ {b}
    /\ SetStatus(b, "validating")
    /\ output' = [output EXCEPT ![b] = {}]
    /\ errors' = [errors EXCEPT ![b] = {}]
    /\ counts' = IF NoCheckpoints(b)
                 THEN [counts EXCEPT ![b].completed = 0, ![b].failed = 0] ELSE counts
    /\ UNCHANGED <<checkpoint, input, active, worker, pass, slots, history>>

FetchRemaining ==
    /\ pass = "recovering" /\ todo = {}
    /\ pass' = "acting"
    /\ todo' = {b \in Batches : status[b] \in {"validating", "cancelling"}}
    /\ slots' = Cardinality(active)
    /\ UNCHANGED <<rows, active, worker, history>>

(* Mutant: the limit is compared one too late. *)
SlotFreeOffByOne == slots <= MaxConcurrent

SlotFree == slots < MaxConcurrent

Defer(b) ==
    /\ pass = "acting" /\ b \in todo
    /\ status[b] = "validating" /\ ~SlotFree
    /\ todo' = todo \ {b}
    /\ UNCHANGED <<rows, active, worker, pass, slots, history>>

AcknowledgeCancel(b) ==
    /\ pass = "acting" /\ b \in todo
    /\ status[b] = "cancelling"
    /\ todo' = todo \ {b}
    /\ SetStatus(b, "cancelled")
    /\ UNCHANGED <<counts, checkpoint, output, errors, input, active, worker, pass, slots, history>>

TakeSlot(b) ==
    /\ pass = "acting" /\ b \in todo
    /\ status[b] = "validating" /\ SlotFree
    /\ todo' = todo \ {b}
    /\ slots' = slots + 1
    /\ UNCHANGED pass

(* A file that is there but does not parse counts all its lines as failed. *)
RejectedCounts(b) ==
    IF input[b] = "gone" THEN counts
    ELSE [counts EXCEPT ![b].total = Size[b], ![b].failed = Size[b]]

(* An attempt to start that fails keeps its slot until the pass ends. *)
RejectInput(b) ==
    /\ TakeSlot(b)
    /\ input[b] # "valid"
    /\ SetStatus(b, "failed")
    /\ counts' = RejectedCounts(b)
    /\ active' = active \ {b}
    /\ UNCHANGED <<checkpoint, output, errors, input, worker, history>>

(* INSERT OR IGNORE *)
Ensured(b) == [l \in AllLines |->
    IF l \in Lines(b) /\ checkpoint[b][l] = "none" THEN "pending" ELSE checkpoint[b][l]]

(* startBatch: the checkpoints are read back before the worker's first await. *)
StartBatch(b) ==
    /\ TakeSlot(b)
    /\ input[b] = "valid"
    /\ checkpoint' = [checkpoint EXCEPT ![b] = Ensured(b)]
    /\ SetStatus(b, "in_progress")
    /\ counts' = [counts EXCEPT ![b].total = Size[b]]
    /\ active' = active \cup {b}
    /\ pc' = [pc EXCEPT ![b] = "starting"]
    /\ line' = [line EXCEPT ![b] = 1]
    /\ known' = [known EXCEPT ![b] = checkpoint'[b]]
    /\ UNCHANGED <<output, errors, input, attempt, history>>

(* cleanupExpiredBatches: any batch still validating may be past its window. *)
EndPass ==
    /\ pass = "acting" /\ todo = {}
    /\ pass' = "idle" /\ slots' = 0
    /\ \E late \in SUBSET {b \in Batches : status[b] = "validating"} :
           status' = [b \in Batches |-> IF b \in late THEN "expired" ELSE status[b]]
    /\ UNCHANGED <<counts, checkpoint, output, errors, input, active, worker, todo, history>>

-----------------------------------------------------------------------------
(* processBatchItems.                                                      *)

(* Mutant: the batch stays in activeBatches. *)
WorkerEndsStaysActive(b) ==
    /\ active' = active
    /\ pc' = [pc EXCEPT ![b] = "none"]
    /\ line' = [line EXCEPT ![b] = 0]
    /\ attempt' = [attempt EXCEPT ![b] = 0]
    /\ known' = [known EXCEPT ![b] = NoLines("none")]

(* What the promise's finally leaves; the worker's locals are dropped. *)
WorkerEnds(b) ==
    /\ active' = active \ {b}
    /\ pc' = [pc EXCEPT ![b] = "none"]
    /\ line' = [line EXCEPT ![b] = 0]
    /\ attempt' = [attempt EXCEPT ![b] = 0]
    /\ known' = [known EXCEPT ![b] = NoLines("none")]

(* The catch of startBatch: failBatch does not look at the status. *)
WorkerThrows(b) ==
    /\ status' = IF status[b] = "deleted" THEN status ELSE [status EXCEPT ![b] = "failed"]
    /\ WorkerEnds(b)
    /\ UNCHANGED <<counts, checkpoint, output, errors, input, poller, history>>

ResolveApiKey(b) ==
    /\ pc[b] = "starting"
    /\ pc' = [pc EXCEPT ![b] = "next"]
    /\ UNCHANGED <<rows, active, line, attempt, known, poller, history>>

ApiKeyFails(b) == pc[b] = "starting" /\ WorkerThrows(b)

IsBatchCancelled(b) == status[b] \in {"deleted", "cancelling", "cancelled"}

AtItem(b) == pc[b] = "next" /\ line[b] <= Size[b] /\ ~IsBatchCancelled(b)

Good(k, n) == {l \in 1..n : k[l] = "succeeded"}

(* Mutant: an error recorded by the processor is not counted. *)
BadOnlyRefused(k, n) == {l \in 1..n : k[l] = "refused"}

Bad(k, n) == {l \in 1..n : k[l] \in {"refused", "errored"}}

(* maybePersistProgress after the current line; k is what is known by then. *)
Progress(b, k) ==
    IF status[b] = "deleted" THEN counts
    ELSE [counts EXCEPT ![b].completed = Cardinality(Good(k, line[b])),
                        ![b].failed = Cardinality(Bad(k, line[b]))]

(* An UPDATE of one line's checkpoint; a deleted row has none. *)
MarkLine(b, m) ==
    IF status[b] = "deleted" THEN checkpoint ELSE [checkpoint EXCEPT ![b][line[b]] = m]

NextLine(b, k) ==
    /\ known' = [known EXCEPT ![b] = k]
    /\ counts' = Progress(b, k)
    /\ line' = [line EXCEPT ![b] = @ + 1]
    /\ attempt' = [attempt EXCEPT ![b] = 0]
    /\ pc' = [pc EXCEPT ![b] = "next"]

(* applyRecoveredCheckpoint: a recorded line is taken over as it is, *)
ReuseCheckpoint(b) ==
    /\ AtItem(b)
    /\ known[b][line[b]] \in Recorded
    /\ NextLine(b, known[b])
    /\ UNCHANGED <<status, checkpoint, output, errors, input, active, poller, history>>

(* and one that was on its way to the provider is given up. *)
GiveUpInterrupted(b) ==
    /\ AtItem(b)
    /\ known[b][line[b]] = "processing"
    /\ checkpoint' = MarkLine(b, "errored")
    /\ NextLine(b, [known[b] EXCEPT ![line[b]] = "errored"])
    /\ UNCHANGED <<status, output, errors, input, active, poller, history>>

(* Mutant: an interrupted line is sent once more. *)
IsFreshOrInterrupted(b) == known[b][line[b]] \in Unstarted \cup {"processing"}

IsFresh(b) == known[b][line[b]] \in Unstarted

(* The rate-limit headers of an earlier answer ask for a pause. *)
Throttle(b) ==
    /\ AtItem(b) /\ IsFresh(b)
    /\ pc' = [pc EXCEPT ![b] = "throttled"]
    /\ UNCHANGED <<rows, active, line, attempt, known, poller, history>>

(* After the pause nothing looks at the status again. *)
ReadyToSend(b) == pc[b] = "throttled" \/ (AtItem(b) /\ IsFresh(b))

SendItem(b) ==
    /\ ReadyToSend(b)
    /\ status[b] # "deleted"
    /\ checkpoint' = [checkpoint EXCEPT ![b][line[b]] = "processing"]
    /\ calls' = [calls EXCEPT ![b][line[b]] = @ + 1]
    /\ pc' = [pc EXCEPT ![b] = "calling"]
    /\ attempt' = [attempt EXCEPT ![b] = 1]
    /\ UNCHANGED <<status, counts, output, errors, input, active, line, known, poller, crashes>>

(* The checkpoint's foreign key refuses the line of a deleted batch. *)
SendRefused(b) ==
    /\ pc[b] = "throttled" /\ status[b] = "deleted"
    /\ WorkerThrows(b)

(* Mutant: one attempt too many. *)
HasAttemptLeftOffByOne(b) == attempt[b] <= MaxAttempts

HasAttemptLeft(b) == attempt[b] < MaxAttempts

(* 429, 502 and 504 are tried again within the call. *)
BackOff(b) ==
    /\ pc[b] = "calling" /\ HasAttemptLeft(b)
    /\ pc' = [pc EXCEPT ![b] = "backoff"]
    /\ UNCHANGED <<rows, active, line, attempt, known, poller, history>>

Retry(b) ==
    /\ pc[b] = "backoff"
    /\ pc' = [pc EXCEPT ![b] = "calling"]
    /\ attempt' = [attempt EXCEPT ![b] = @ + 1]
    /\ calls' = [calls EXCEPT ![b][line[b]] = @ + 1]
    /\ UNCHANGED <<rows, active, line, known, poller, crashes>>

(* The answer, or the exception instead of one, is recorded. *)
RecordItem(b, m) ==
    /\ pc[b] = "calling"
    /\ checkpoint' = MarkLine(b, m)
    /\ NextLine(b, [known[b] EXCEPT ![line[b]] = m])
    /\ UNCHANGED <<status, output, errors, input, active, poller, history>>

AtEnd(b) == pc[b] = "next" /\ (line[b] > Size[b] \/ IsBatchCancelled(b))

(* finalizeBatch: handleCancellation first. *)
StopCancelled(b) ==
    /\ AtEnd(b)
    /\ status[b] \in {"deleted", "cancelling", "cancelled"}
    /\ status' = IF status[b] = "cancelling" THEN [status EXCEPT ![b] = "cancelled"] ELSE status
    /\ WorkerEnds(b)
    /\ UNCHANGED <<counts, checkpoint, output, errors, input, poller, history>>

FinalCounts(b) ==
    [total |-> IF counts[b].total > 0 THEN counts[b].total
               ELSE Cardinality(Good(known[b], line[b] - 1)) + Cardinality(Bad(known[b], line[b] - 1)),
     completed |-> Cardinality(Good(known[b], line[b] - 1)),
     failed |-> Cardinality(Bad(known[b], line[b] - 1))]

(* Mutant: finalizeBatch does not look for a cancellation. *)
MayCompleteAlways(b) == AtEnd(b) /\ status[b] # "deleted"

MayComplete(b) == AtEnd(b) /\ status[b] \notin {"deleted", "cancelling", "cancelled"}

CompleteBatch(b) ==
    /\ MayComplete(b)
    /\ SetStatus(b, "completed")
    /\ counts' = [counts EXCEPT ![b] = FinalCounts(b)]
    /\ output' = [output EXCEPT ![b] = Good(known[b], line[b] - 1)]
    /\ errors' = [errors EXCEPT ![b] = Bad(known[b], line[b] - 1)]
    /\ WorkerEnds(b)
    /\ UNCHANGED <<checkpoint, input, poller, history>>

-----------------------------------------------------------------------------
(* Crashes: between two steps, or between two writes of one.               *)

ProcessDies ==
    /\ crashes < MaxCrashes
    /\ crashes' = crashes + 1
    /\ active' = {}
    /\ pc' = [b \in Batches |-> "none"]
    /\ line' = [b \in Batches |-> 0]
    /\ attempt' = [b \in Batches |-> 0]
    /\ known' = [b \in Batches |-> NoLines("none")]
    /\ pass' = "idle" /\ todo' = {} /\ slots' = 0
    /\ UNCHANGED calls

Crash ==
    /\ ProcessDies
    /\ UNCHANGED rows

(* Between the two writes of startBatch. *)
CrashInStart(b) ==
    /\ pass = "acting" /\ b \in todo /\ status[b] = "validating" /\ SlotFree
    /\ \/ /\ input[b] = "valid"
          /\ checkpoint' = [checkpoint EXCEPT ![b] = Ensured(b)]
          /\ UNCHANGED counts
       \/ /\ input[b] = "invalid"
          /\ counts' = RejectedCounts(b)
          /\ UNCHANGED checkpoint
    /\ ProcessDies
    /\ UNCHANGED <<status, output, errors, input>>

(* Mutant: the row's counts are written before the line's checkpoint. *)
CrashInRecordCountsFirst(b, m) ==
    /\ pass = "idle"
    /\ pc[b] = "calling"
    /\ counts' = Progress(b, [known[b] EXCEPT ![line[b]] = m])
    /\ ProcessDies
    /\ UNCHANGED <<status, checkpoint, output, errors, input>>

(* Between the checkpoint of a line and the row's counts. *)
CrashInRecord(b, m) ==
    /\ pass = "idle"
    /\ pc[b] = "calling"
    /\ checkpoint' = MarkLine(b, m)
    /\ ProcessDies
    /\ UNCHANGED <<status, counts, output, errors, input>>

(* After markFinalizing and before completeBatch: the counts may have been *)
(* written, and the files, but no row names them: they are not read again. *)
CrashInFinalize(b) ==
    /\ pass = "idle"
    /\ MayComplete(b)
    /\ SetStatus(b, "finalizing")
    /\ counts' \in {counts, [counts EXCEPT ![b] = FinalCounts(b)]}
    /\ ProcessDies
    /\ UNCHANGED <<checkpoint, output, errors, input>>

-----------------------------------------------------------------------------
Route == pass = "idle" /\ \E b \in Batches :
    CreateBatch(b) \/ DeleteInput(b) \/ Cancel(b) \/ DeleteBatch(b)

PassStep ==
    \/ BeginPass \/ FetchRemaining \/ EndPass
    \/ \E b \in Batches :
           \/ RefuseRecovery(b) \/ Recover(b)
           \/ Defer(b) \/ AcknowledgeCancel(b) \/ RejectInput(b) \/ StartBatch(b)

WorkerStep(b) == pass = "idle" /\
    \/ ResolveApiKey(b) \/ ApiKeyFails(b)
    \/ ReuseCheckpoint(b) \/ GiveUpInterrupted(b)
    \/ Throttle(b) \/ SendItem(b) \/ SendRefused(b)
    \/ BackOff(b) \/ Retry(b)
    \/ \E m \in Answers : RecordItem(b, m)
    \/ StopCancelled(b) \/ CompleteBatch(b)

AnyCrash ==
    \/ Crash
    \/ \E b \in Batches :
           CrashInStart(b) \/ (\E m \in Answers : CrashInRecord(b, m)) \/ CrashInFinalize(b)

Next == Route \/ PassStep \/ (\E b \in Batches : WorkerStep(b)) \/ AnyCrash

Spec == Init /\ [][Next]_vars

(* The poll timer keeps firing, every await of a worker ends (a call by    *)
(* the timeouts of the route it goes through), and crashes are finitely    *)
(* many by their bound.  A pass only holds a worker up for the length of   *)
(* its own callback, so a worker's step is strongly fair.  Nobody has to   *)
(* cancel or delete anything.                                              *)
FairSpec ==
    /\ Spec
    /\ WF_vars(PassStep)
    /\ \A b \in Batches : SF_vars(WorkerStep(b))

-----------------------------------------------------------------------------
(* All dispatches of a line belong to one call of                          *)
(* processSingleItemWithRetry, at most maxRetries of them: a line that was *)
(* once handed to the provider is handed over again only as a retry of     *)
(* that call, and never by a worker that was started after a crash.        *)
SentByOneCall == \A b \in Batches, l \in AllLines :
    /\ calls[b][l] <= MaxAttempts
    /\ pc[b] \in {"calling", "backoff"} /\ line[b] = l => calls[b][l] = attempt[b]

(* A completed batch accounts for every line exactly once: its files and   *)
(* its counts agree with the checkpoints, also after a recovery.           *)
CompletedAccountsForAll ==
    \A b \in Batches : status[b] = "completed" =>
        /\ counts[b].total = Size[b]
        /\ counts[b].completed + counts[b].failed = Size[b]
        /\ output[b] = {l \in Lines(b) : checkpoint[b][l] = "succeeded"}
        /\ errors[b] = Lines(b) \ output[b]
        /\ counts[b].completed = Cardinality(output[b])

(* No more than BATCH_MAX_CONCURRENT batches run, and each running worker  *)
(* is in activeBatches, so that recovery cannot take its batch for stale.  *)
WithinConcurrency ==
    /\ Cardinality(active) <= MaxConcurrent
    /\ {b \in Batches : pc[b] # "none"} \subseteq active

(* A batch is in activeBatches exactly while its worker runs: no entry is  *)
(* left behind to take a slot for ever and to hide the batch from          *)
(* recovery.  A worker runs on a row in progress, or cancelled or deleted  *)
(* under it, and never on one that waits to be started once more.          *)
ActiveIsRunning ==
    /\ active = {b \in Batches : pc[b] # "none"}
    /\ \A b \in active :
          status[b] \in {"in_progress", "cancelling", "cancelled", "deleted"}

(* What a line's checkpoint records is final, through retries, crashes,    *)
(* recoveries and cancellations: it goes only with the batch's row.        *)
RecordsAreFinal ==
    [][\A b \in Batches, l \in AllLines :
          checkpoint[b][l] \in Recorded =>
             checkpoint'[b][l] = checkpoint[b][l] \/ status'[b] = "deleted"]_vars

(* The counts a client reads never run ahead of the results that survive a *)
(* crash, and never of the total.                                          *)
CountsFollowRecords ==
    \A b \in Batches :
        LET recorded == {l \in Lines(b) : checkpoint[b][l] = "succeeded"} IN
        /\ counts[b].completed <= Cardinality(recorded)
        /\ counts[b].completed + counts[b].failed <= counts[b].total

(* A terminal status is final: the row can only be deleted, except that    *)
(* the catch of a failing worker turns a cancelled batch into a failed one.*)
TerminalIsFinal == [][\A b \in Batches :
    /\ status[b] \in Terminal =>
           status'[b] \in {status[b], "deleted"} \/ (status[b] = "cancelled" /\ status'[b] = "failed")
    /\ status[b] = "cancelling" => status'[b] \in {"cancelling", "cancelled", "failed"}]_vars

(* Every batch created ends, through crashes and behind other batches.     *)
EveryBatchEnds == \A b \in Batches :
    status[b] \in Pending ~> status[b] \in Terminal \cup {"deleted"}
=============================================================================
