----------------------- MODULE BatchProcessor_proofs -----------------------
(* Proofs about BatchProcessor for any number of batches, lines, attempts, *)
(* concurrent workers and crashes.  SentByOneCall rests on what a line's   *)
(* checkpoint says of the past: a line still unstarted was not sent unless *)
(* its batch cannot be started again (Sent, Unsendable), and the worker's  *)
(* copy of the checkpoints agrees with the rows except at the line it has  *)
(* in hand (Current, Placed).                                              *)
EXTENDS BatchProcessor, FiniteSetTheorems, TLAPS

(* The statuses a batch may have while its worker runs. *)
Held == {"in_progress", "cancelling", "cancelled", "deleted"}

(* A batch is in activeBatches exactly while its worker runs. *)
Owned(b) ==
    /\ b \in active <=> pc[b] # "none"
    /\ pc[b] # "none" => status[b] \in Held

(* Where the worker stands: every line behind it is recorded. *)
Placed(b) ==
    /\ pc[b] # "none" => line[b] \in 1..(Size[b] + 1)
    /\ pc[b] \in {"throttled", "calling", "backoff"} => line[b] \in Lines(b)
    /\ pc[b] = "throttled" => known[b][line[b]] \in Unstarted
    /\ pc[b] = "backoff" => attempt[b] < MaxAttempts
    /\ pc[b] # "none" => \A l \in Lines(b) : l < line[b] => known[b][l] \in Recorded

(* The worker's copy of the checkpoints is that of the rows. *)
Current(b) ==
    pc[b] # "none" /\ status[b] # "deleted" =>
        /\ counts[b].total = Size[b]
        /\ \A l \in Lines(b) :
               known[b][l] = checkpoint[b][l] \/ (l = line[b] /\ pc[b] \in {"calling", "backoff"})

(* Lines sent without a checkpoint belong to a batch recovery refuses. *)
Unsendable(b) ==
    \/ status[b] = "deleted"
    \/ /\ NoCheckpoints(b) /\ pc[b] = "none"
       /\ \/ status[b] \in {"cancelling", "cancelled", "failed"}
          \/ status[b] = "in_progress" /\ counts[b].total > 0

(* What was sent, against the checkpoints. *)
Sent(b) ==
    /\ \A l \in AllLines : calls[b][l] <= MaxAttempts
    /\ pc[b] \in {"calling", "backoff"} => calls[b][line[b]] = attempt[b] /\ attempt[b] # 0
    /\ \A l \in Lines(b) : checkpoint[b][l] \in Unstarted => calls[b][l] = 0 \/ Unsendable(b)

(* CompletedAccountsForAll, of one batch. *)
Accounts(b) ==
    status[b] = "completed" =>
        /\ counts[b].total = Size[b]
        /\ counts[b].completed + counts[b].failed = Size[b]
        /\ output[b] = {l \in Lines(b) : checkpoint[b][l] = "succeeded"}
        /\ errors[b] = Lines(b) \ output[b]
        /\ counts[b].completed = Cardinality(output[b])

BatchInv(b) == Owned(b) /\ Placed(b) /\ Current(b) /\ Sent(b) /\ Accounts(b)

(* activeCount is never below the running batches it was read from. *)
SlotsInv ==
    /\ Cardinality(active) <= MaxConcurrent
    /\ pass = "acting" => Cardinality(active) <= slots /\ slots <= MaxConcurrent

(* What recovery has left to do is not running. *)
TodoInv ==
    pass = "recovering" => \A b \in todo : status[b] \in {"in_progress", "finalizing"} /\ b \notin active

(* The inductive invariant. *)
IInv == TypeOK /\ (\A b \in Batches : BatchInv(b)) /\ SlotsInv /\ TodoInv

(* A step that leaves a batch alone. *)
Same(c) ==
    /\ status'[c] = status[c] /\ counts'[c] = counts[c] /\ checkpoint'[c] = checkpoint[c]
    /\ output'[c] = output[c] /\ errors'[c] = errors[c]
    /\ pc'[c] = pc[c] /\ line'[c] = line[c] /\ attempt'[c] = attempt[c] /\ known'[c] = known[c]
    /\ (c \in active') = (c \in active)
    /\ calls'[c] = calls[c] /\ crashes' = crashes

USE BatchAssumption, FiniteBatches

-----------------------------------------------------------------------------
(* Lines, counts and slots.                                                *)
LEMMA Typing ==
  ASSUME NEW b \in Batches
  PROVE  Lines(b) \subseteq AllLines /\ AllLines \subseteq Nat /\ Size[b] \in Nat
BY DEF Lines, AllLines

(* A batch the step leaves alone keeps its part of the invariant. *)
LEMMA OthersKept ==
  ASSUME NEW c \in Batches, BatchInv(c), Same(c)
  PROVE  BatchInv(c)'
BY DEF Same, BatchInv, Owned, Placed, Current, Sent, Unsendable, NoCheckpoints, Accounts

(* The results counted are finitely many. *)
LEMMA CountsAreNat ==
  ASSUME TypeOK, NEW n \in Nat, NEW k
  PROVE  /\ IsFiniteSet(Good(k, n)) /\ Cardinality(Good(k, n)) \in Nat
         /\ IsFiniteSet(Bad(k, n)) /\ Cardinality(Bad(k, n)) \in Nat
<1>1. IsFiniteSet(1..n)
  BY FS_Interval
<1>2. Good(k, n) \subseteq 1..n /\ Bad(k, n) \subseteq 1..n
  BY DEF Good, Bad
<1> QED
  BY <1>1, <1>2, FS_Subset, FS_CardinalityType

(* A batch more or less in activeBatches. *)
LEMMA ActiveCard ==
  ASSUME TypeOK, NEW b
  PROVE  /\ Cardinality(active) \in Nat
         /\ Cardinality(active \ {b}) \in Nat /\ Cardinality(active \cup {b}) \in Nat
         /\ Cardinality(active \ {b}) <= Cardinality(active)
         /\ Cardinality(active \cup {b}) <= Cardinality(active) + 1
<1>1. IsFiniteSet(active)
  BY FS_Subset DEF TypeOK
<1>2. Cardinality(active) \in Nat
  BY <1>1, FS_CardinalityType
<1>3. Cardinality(active \cup {b}) \in {Cardinality(active), Cardinality(active) + 1}
  BY <1>1, FS_AddElement
<1>4. Cardinality(active \ {b}) \in {Cardinality(active), Cardinality(active) - 1}
  BY <1>1, FS_RemoveElement
<1>5. Cardinality(active \ {b}) \in Nat
  BY <1>1, FS_RemoveElement, FS_CardinalityType
<1> QED
  BY <1>2, <1>3, <1>4, <1>5

(* A batch that leaves activeBatches only lowers the count. *)
LEMMA FewerActive ==
  ASSUME TypeOK, SlotsInv, NEW b, active' = active \ {b}, pass' = pass, slots' = slots
  PROVE  SlotsInv'
<1>1. slots \in Nat
  BY DEF TypeOK
<1>2. /\ Cardinality(active) \in Nat /\ Cardinality(active \ {b}) \in Nat
      /\ Cardinality(active \ {b}) <= Cardinality(active)
  BY ActiveCard
<1> QED
  BY <1>1, <1>2 DEF SlotsInv

(* A slot taken covers a batch that starts. *)
LEMMA OneMoreActive ==
  ASSUME TypeOK, SlotsInv, NEW b, pass = "acting", SlotFree, pass' = pass, slots' = slots + 1,
         active' = active \cup {b} \/ active' = active \ {b}
  PROVE  SlotsInv'
<1>1. slots \in Nat
  BY DEF TypeOK
<1>2. /\ Cardinality(active) \in Nat
      /\ Cardinality(active \ {b}) \in Nat /\ Cardinality(active \cup {b}) \in Nat
      /\ Cardinality(active \ {b}) <= Cardinality(active)
      /\ Cardinality(active \cup {b}) <= Cardinality(active) + 1
  BY ActiveCard
<1>3. Cardinality(active) <= slots /\ slots < MaxConcurrent 
  BY DEF SlotsInv, SlotFree
<1> QED
  BY <1>1, <1>2, <1>3 DEF SlotsInv

Tally == [total : Nat, completed : Nat, failed : Nat]

(* Setting parts of a batch's counts. *)
LEMMA TallyParts ==
  ASSUME NEW f \in [Batches -> Tally], NEW b \in Batches, NEW x \in Nat, NEW y \in Nat
  PROVE  /\ [f EXCEPT ![b].completed = x, ![b].failed = y] \in [Batches -> Tally]
         /\ [f EXCEPT ![b].total = x, ![b].failed = y] \in [Batches -> Tally]
         /\ [f EXCEPT ![b].total = x] \in [Batches -> Tally]
         /\ [f EXCEPT ![b].completed = x, ![b].failed = y][b].total = f[b].total
         /\ \A c \in Batches : c # b => [f EXCEPT ![b].completed = x, ![b].failed = y][c] = f[c]
BY DEF Tally

LEMMA ProgressTyped ==
  ASSUME TypeOK, NEW b \in Batches, NEW k
  PROVE  /\ Progress(b, k) \in [Batches -> Tally]
         /\ Progress(b, k)[b].total = counts[b].total
         /\ \A c \in Batches : c # b => Progress(b, k)[c] = counts[c]
<1>1. line[b] \in Nat /\ counts \in [Batches -> Tally]
  BY DEF TypeOK, Tally
<1>2. Cardinality(Good(k, line[b])) \in Nat /\ Cardinality(Bad(k, line[b])) \in Nat
  BY <1>1, CountsAreNat
<1>3. CASE status[b] = "deleted"
  BY <1>1, <1>3 DEF Progress
<1>4. CASE status[b] # "deleted"
  <2> DEFINE x == Cardinality(Good(k, line[b]))
             y == Cardinality(Bad(k, line[b]))
  <2>1. Progress(b, k) = [counts EXCEPT ![b].completed = x, ![b].failed = y]
    BY <1>4 DEF Progress
  <2>2. x \in Nat /\ y \in Nat
    BY <1>2
  <2> HIDE DEF x, y
  <2> DEFINE f == [counts EXCEPT ![b].completed = x, ![b].failed = y]
  <2>3. f \in [Batches -> Tally] /\ f[b].total = counts[b].total
    BY <1>1, <2>2 DEF Tally
  <2>4. \A c \in Batches : c # b => f[c] = counts[c]
    BY <1>1, <2>2, TallyParts
  <2> HIDE DEF f
  <2>5. Progress(b, k) = f
    BY <2>1 DEF f
  <2> QED
    BY <2>3, <2>4, <2>5
<1> QED
  BY <1>3, <1>4

LEMMA NextLineTyped ==
  ASSUME TypeOK, NEW b \in Batches, NEW k \in [AllLines -> Marks], NextLine(b, k)
  PROVE  /\ counts' \in [Batches -> [total : Nat, completed : Nat, failed : Nat]]
         /\ known' \in [Batches -> [AllLines -> Marks]]
         /\ line' \in [Batches -> Nat]
         /\ attempt' \in [Batches -> 0..MaxAttempts]
         /\ pc' \in [Batches -> {"none", "starting", "next", "throttled", "calling", "backoff"}]
<1>1. counts' \in [Batches -> [total : Nat, completed : Nat, failed : Nat]]
  BY ProgressTyped DEF NextLine, Tally
<1>2. known' \in [Batches -> [AllLines -> Marks]] /\ line' \in [Batches -> Nat]
  BY DEF NextLine, TypeOK
<1>3. attempt' \in [Batches -> 0..MaxAttempts]
  BY DEF NextLine, TypeOK
<1>4. pc' \in [Batches -> {"none", "starting", "next", "throttled", "calling", "backoff"}]
  BY DEF NextLine, TypeOK
<1> QED
  BY <1>1, <1>2, <1>3, <1>4

LEMMA MarkLineTyped ==
  ASSUME TypeOK, NEW b \in Batches, NEW m \in Marks, line[b] \in AllLines
  PROVE  /\ MarkLine(b, m) \in [Batches -> [AllLines -> Marks]]
         /\ status[b] # "deleted" => MarkLine(b, m)[b][line[b]] = m
         /\ \A l \in AllLines : l # line[b] => MarkLine(b, m)[b][l] = checkpoint[b][l]
BY DEF MarkLine, TypeOK

(* The worker has recorded k for its line and goes on with the next. *)
LEMMA NextLinePlaced ==
  ASSUME TypeOK, NEW b \in Batches, NEW k \in [AllLines -> Marks], NextLine(b, k),
         Placed(b), pc[b] # "none", line[b] \in Lines(b), k[line[b]] \in Recorded,
         \A l \in Lines(b) : l # line[b] => k[l] = known[b][l]
  PROVE  Placed(b)'
<1>1. pc'[b] = "next" /\ line'[b] = line[b] + 1 /\ known'[b] = k
  BY DEF NextLine, TypeOK
<1>2. line[b] \in Nat /\ Size[b] \in Nat /\ line[b] <= Size[b]
  BY DEF Lines, TypeOK
<1>3. ASSUME NEW l \in Lines(b), l < line[b] + 1
      PROVE  k[l] \in Recorded
  <2>1. CASE l = line[b]
    BY <2>1
  <2>2. CASE l # line[b]
    BY <1>2, <1>3, <2>2 DEF Placed, Lines
  <2> QED
    BY <2>1, <2>2
<1> QED
  BY <1>1, <1>2, <1>3 DEF Placed, Lines

LEMMA NextLineCurrent ==
  ASSUME TypeOK, NEW b \in Batches, NEW k \in [AllLines -> Marks], NextLine(b, k),
         Current(b), pc[b] # "none", line[b] \in Lines(b), status' = status,
         status[b] # "deleted" => checkpoint'[b][line[b]] = k[line[b]],
         \A l \in Lines(b) : l # line[b] => k[l] = known[b][l] /\ checkpoint'[b][l] = checkpoint[b][l]
  PROVE  Current(b)'
<1>1. counts'[b].total = counts[b].total
  BY ProgressTyped DEF NextLine
<1>2. known'[b] = k
  BY DEF NextLine, TypeOK
<1> QED
  BY <1>1, <1>2 DEF Current

LEMMA FinalCountsTyped ==
  ASSUME TypeOK, NEW b \in Batches
  PROVE  FinalCounts(b) \in Tally
<1> DEFINE x == Cardinality(Good(known[b], line[b] - 1))
           y == Cardinality(Bad(known[b], line[b] - 1))
<1>1. counts[b].total \in Nat
  BY DEF TypeOK
<1>2. line[b] - 1 \in Int
  BY DEF TypeOK
<1>3. x \in Nat /\ y \in Nat
  <2>1. IsFiniteSet(1..(line[b] - 1))
    BY <1>2, FS_Interval
  <2>2. /\ Good(known[b], line[b] - 1) \subseteq 1..(line[b] - 1)
        /\ Bad(known[b], line[b] - 1) \subseteq 1..(line[b] - 1)
    BY DEF Good, Bad
  <2> QED
    BY <2>1, <2>2, FS_Subset, FS_CardinalityType
<1>4. FinalCounts(b) = [total |-> IF counts[b].total > 0 THEN counts[b].total ELSE x + y,
                        completed |-> x, failed |-> y]
  BY DEF FinalCounts
<1> HIDE DEF x, y
<1> QED
  BY <1>1, <1>3, <1>4 DEF Tally

(* At the end every line is good or bad, never both, and so are its counts.*)
LEMMA ResultsOfAll ==
  ASSUME TypeOK, NEW b \in Batches, MayComplete(b), Placed(b), Current(b)
  PROVE  /\ Good(known[b], line[b] - 1) = {l \in Lines(b) : checkpoint[b][l] = "succeeded"}
         /\ Bad(known[b], line[b] - 1) = Lines(b) \ Good(known[b], line[b] - 1)
         /\ Good(known[b], line[b] - 1) \subseteq AllLines
         /\ Bad(known[b], line[b] - 1) \subseteq AllLines
         /\ FinalCounts(b).total = Size[b]
         /\ FinalCounts(b).completed = Cardinality(Good(known[b], line[b] - 1))
         /\ FinalCounts(b).completed + FinalCounts(b).failed = Size[b]
<1>1. pc[b] = "next" /\ line[b] = Size[b] + 1 /\ status[b] # "deleted"
  BY DEF MayComplete, AtEnd, IsBatchCancelled, Placed, TypeOK
<1>2. Size[b] \in Nat /\ line[b] - 1 = Size[b]
  BY <1>1
<1> DEFINE G == Good(known[b], Size[b])
           B == Bad(known[b], Size[b])
<1>3. \A l \in Lines(b) : known[b][l] = checkpoint[b][l] /\ known[b][l] \in Recorded
  BY <1>1, <1>2 DEF Current, Placed, Lines
<1>4. G = {l \in Lines(b) : checkpoint[b][l] = "succeeded"} /\ B = Lines(b) \ G
  BY <1>3 DEF Good, Bad, Lines, Recorded
<1>5. IsFiniteSet(Lines(b)) /\ Cardinality(Lines(b)) = Size[b]
  BY <1>2, FS_Interval DEF Lines
<1>6. IsFiniteSet(G) /\ IsFiniteSet(B) /\ G \cap B = {} /\ G \cup B = Lines(b)
  BY <1>4, <1>5, FS_Subset
<1>7. Cardinality(G) \in Nat /\ Cardinality(B) \in Nat /\ Cardinality(G) + Cardinality(B) = Size[b]
  <2> HIDE DEF G, B
  <2>1. Cardinality(G) \in Nat /\ Cardinality(B) \in Nat
    BY <1>6, FS_CardinalityType
  <2>2. Cardinality(G \cup B) = Cardinality(G) + Cardinality(B) - Cardinality(G \cap B)
    BY <1>6, FS_Union
  <2>3. Cardinality(G \cap B) = 0
    BY <1>6, FS_EmptySet
  <2>4. Cardinality(G \cup B) = Size[b]
    BY <1>5, <1>6, Zenon
  <2> QED
    BY <2>1, <2>2, <2>3, <2>4
<1>8. counts[b].total = Size[b]
  BY <1>1 DEF Current
<1>9. FinalCounts(b) = [total |-> IF counts[b].total > 0 THEN counts[b].total
                                  ELSE Cardinality(G) + Cardinality(B),
                        completed |-> Cardinality(G), failed |-> Cardinality(B)]
  BY <1>2 DEF FinalCounts
<1>10. G \subseteq AllLines /\ B \subseteq AllLines
  BY <1>4, Typing
<1> HIDE DEF G, B
<1>11. /\ FinalCounts(b).total = Size[b] /\ FinalCounts(b).completed = Cardinality(G)
       /\ FinalCounts(b).completed + FinalCounts(b).failed = Size[b]
  BY <1>2, <1>7, <1>8, <1>9
<1> USE DEF G, B
<1> QED
  BY <1>2, <1>4, <1>10, <1>11

-----------------------------------------------------------------------------
(* One lemma per action: it keeps the invariant. *)
LEMMA CreateBatchKeeps ==
  ASSUME IInv, NEW b \in Batches, pass = "idle", CreateBatch(b)
  PROVE  IInv'
<1>1. TypeOK'
  BY Typing, CountsAreNat DEF IInv, BatchInv, Placed, Lines, TypeOK, Statuses, Terminal, Pending, Marks, Recorded, Unstarted, CreateBatch, SetStatus, worker, poller, history
<1>2. ASSUME NEW c \in Batches, c # b PROVE Same(c)
  BY <1>2 DEF IInv, Same, TypeOK, CreateBatch, SetStatus, worker, poller, history
<1>3. Owned(b)'
  BY DEF IInv, BatchInv, Owned, Held, TodoInv, TypeOK, CreateBatch, SetStatus, worker, poller, history
<1>4. Placed(b)'
  BY Typing DEF IInv, BatchInv, Owned, Placed, Lines, TypeOK, Recorded, Unstarted, CreateBatch, SetStatus, worker, poller, history
<1>5. Current(b)'
  BY Typing DEF IInv, BatchInv, Owned, Placed, Current, Lines, TypeOK, Recorded, Unstarted, CreateBatch, SetStatus, worker, poller, history
<1>6. Sent(b)'
  BY DEF IInv, BatchInv, Sent, Unsendable, NoCheckpoints, CreateBatch, SetStatus, worker, history, TypeOK
<1>7. Accounts(b)'
  BY DEF IInv, BatchInv, Owned, Held, Accounts, TodoInv, TypeOK, CreateBatch, SetStatus, worker, poller, history
<1>8. SlotsInv'
  BY ActiveCard DEF IInv, SlotsInv, TypeOK, CreateBatch, SetStatus, worker, poller, history
<1>9. TodoInv'
  BY DEF IInv, TodoInv, TypeOK, CreateBatch, SetStatus, worker, poller, history
<1> QED
  BY <1>1, <1>2, <1>3, <1>4, <1>5, <1>6, <1>7, <1>8, <1>9, OthersKept DEF IInv, BatchInv

LEMMA DeleteInputKeeps ==
  ASSUME IInv, NEW b \in Batches, pass = "idle", DeleteInput(b)
  PROVE  IInv'
<1>1. TypeOK'
  BY Typing, CountsAreNat DEF IInv, BatchInv, Placed, Lines, TypeOK, Statuses, Terminal, Pending, Marks, Recorded, Unstarted, DeleteInput, worker, poller, history
<1>2. ASSUME NEW c \in Batches, c # b PROVE Same(c)
  BY <1>2 DEF IInv, Same, TypeOK, DeleteInput, Pending, worker, poller, history
<1>3. Owned(b)'
  BY DEF IInv, BatchInv, Owned, Held, TodoInv, TypeOK, Pending, DeleteInput, worker, poller, history
<1>4. Placed(b)'
  BY Typing DEF IInv, BatchInv, Owned, Placed, Lines, TypeOK, Recorded, Unstarted, DeleteInput, Pending, worker, poller, history
<1>5. Current(b)'
  BY Typing DEF IInv, BatchInv, Owned, Placed, Current, Lines, TypeOK, Recorded, Unstarted, DeleteInput, Pending, worker, poller, history
<1>6. Sent(b)'
  BY Typing DEF IInv, BatchInv, Owned, Placed, Current, Sent, Unsendable, NoCheckpoints, TodoInv, Lines, Held, TypeOK, Statuses, Terminal, Pending, Marks, Recorded, Unstarted, DeleteInput, worker, poller, history
<1>7. Accounts(b)'
  BY DEF IInv, BatchInv, Owned, Held, Accounts, TodoInv, TypeOK, DeleteInput, Pending, worker, poller, history
<1>8. SlotsInv'
  BY ActiveCard DEF IInv, SlotsInv, TypeOK, DeleteInput, Pending, worker, poller, history
<1>9. TodoInv'
  BY DEF IInv, TodoInv, TypeOK, DeleteInput, Pending, worker, poller, history
<1> QED
  BY <1>1, <1>2, <1>3, <1>4, <1>5, <1>6, <1>7, <1>8, <1>9, OthersKept DEF IInv, BatchInv

LEMMA CancelKeeps ==
  ASSUME IInv, NEW b \in Batches, pass = "idle", Cancel(b)
  PROVE  IInv'
<1>1. TypeOK'
  BY Typing, CountsAreNat DEF IInv, BatchInv, Placed, Lines, TypeOK, Statuses, Terminal, Pending, Marks, Recorded, Unstarted, Cancel, SetStatus, worker, poller, history
<1>2. ASSUME NEW c \in Batches, c # b PROVE Same(c)
  BY <1>2 DEF IInv, Same, TypeOK, Cancel, Pending, SetStatus, worker, poller, history
<1>3. Owned(b)'
  BY DEF IInv, BatchInv, Owned, Held, TodoInv, TypeOK, Pending, Cancel, SetStatus, worker, poller, history
<1>4. Placed(b)'
  BY Typing DEF IInv, BatchInv, Owned, Placed, Lines, TypeOK, Recorded, Unstarted, Cancel, Pending, SetStatus, worker, poller, history
<1>5. Current(b)'
  BY Typing DEF IInv, BatchInv, Owned, Placed, Current, Lines, TypeOK, Recorded, Unstarted, Cancel, Pending, SetStatus, worker, poller, history
<1>6. Sent(b)'
  BY Typing DEF IInv, BatchInv, Owned, Placed, Current, Sent, Unsendable, NoCheckpoints, TodoInv, Lines, Held, TypeOK, Statuses, Terminal, Pending, Marks, Recorded, Unstarted, Cancel, SetStatus, worker, poller, history
<1>7. Accounts(b)'
  BY DEF IInv, BatchInv, Owned, Held, Accounts, TodoInv, TypeOK, Cancel, Pending, SetStatus, worker, poller, history
<1>8. SlotsInv'
  BY ActiveCard DEF IInv, SlotsInv, TypeOK, Cancel, Pending, SetStatus, worker, poller, history
<1>9. TodoInv'
  BY DEF IInv, TodoInv, TypeOK, Cancel, Pending, SetStatus, worker, poller, history
<1> QED
  BY <1>1, <1>2, <1>3, <1>4, <1>5, <1>6, <1>7, <1>8, <1>9, OthersKept DEF IInv, BatchInv

LEMMA DeleteBatchKeeps ==
  ASSUME IInv, NEW b \in Batches, pass = "idle", DeleteBatch(b)
  PROVE  IInv'
<1>1. TypeOK'
  BY Typing, CountsAreNat DEF IInv, BatchInv, Placed, Lines, TypeOK, Statuses, Terminal, Pending, Marks, Recorded, Unstarted, DeleteBatch, NoLines, SetStatus, worker, poller, history
<1>2. ASSUME NEW c \in Batches, c # b PROVE Same(c)
  BY <1>2 DEF IInv, Same, TypeOK, DeleteBatch, Terminal, NoLines, SetStatus, worker, poller, history
<1>3. Owned(b)'
  BY DEF IInv, BatchInv, Owned, Held, TodoInv, TypeOK, Terminal, DeleteBatch, NoLines, SetStatus, worker, poller, history
<1>4. Placed(b)'
  BY Typing DEF IInv, BatchInv, Owned, Placed, Lines, TypeOK, Recorded, Unstarted, DeleteBatch, Terminal, NoLines, SetStatus, worker, poller, history
<1>5. Current(b)'
  BY Typing DEF IInv, BatchInv, Owned, Placed, Current, Lines, TypeOK, Recorded, Unstarted, DeleteBatch, Terminal, NoLines, SetStatus, worker, poller, history
<1>6. Sent(b)'
  BY Typing DEF IInv, BatchInv, Owned, Placed, Current, Sent, Unsendable, NoCheckpoints, TodoInv, Lines, Held, TypeOK, Statuses, Terminal, Pending, Marks, Recorded, Unstarted, DeleteBatch, NoLines, SetStatus, worker, poller, history
<1>7. Accounts(b)'
  BY DEF IInv, BatchInv, Owned, Held, Accounts, TodoInv, TypeOK, DeleteBatch, Terminal, NoLines, SetStatus, worker, poller, history
<1>8. SlotsInv'
  BY ActiveCard DEF IInv, SlotsInv, TypeOK, DeleteBatch, Terminal, NoLines, SetStatus, worker, poller, history
<1>9. TodoInv'
  BY DEF IInv, TodoInv, TypeOK, DeleteBatch, Terminal, NoLines, SetStatus, worker, poller, history
<1> QED
  BY <1>1, <1>2, <1>3, <1>4, <1>5, <1>6, <1>7, <1>8, <1>9, OthersKept DEF IInv, BatchInv

LEMMA RefuseRecoveryKeeps ==
  ASSUME IInv, NEW b \in Batches, RefuseRecovery(b)
  PROVE  IInv'
<1>1. TypeOK'
  BY Typing, CountsAreNat DEF IInv, BatchInv, Placed, Lines, TypeOK, Statuses, Terminal, Pending, Marks, Recorded, Unstarted, RefuseRecovery, SetStatus, worker, history
<1>2. ASSUME NEW c \in Batches, c # b PROVE Same(c)
  BY <1>2 DEF IInv, Same, TypeOK, RefuseRecovery, SetStatus, worker, history
<1>3. Owned(b)'
  BY DEF IInv, BatchInv, Owned, Held, TodoInv, TypeOK, RefuseRecovery, SetStatus, worker, history
<1>4. Placed(b)'
  BY Typing DEF IInv, BatchInv, Owned, Placed, Lines, TypeOK, Recorded, Unstarted, RefuseRecovery, SetStatus, worker, history
<1>5. Current(b)'
  BY DEF IInv, BatchInv, Owned, TodoInv, Current, RefuseRecovery, worker
<1>6. Sent(b)'
  BY Typing DEF IInv, BatchInv, Owned, Placed, Current, Sent, Unsendable, NoCheckpoints, MayHaveCalled, TodoInv, Lines, Held, TypeOK, Statuses, Terminal, Pending, Marks, Recorded, Unstarted, RefuseRecovery, SetStatus, worker, history
<1>7. Accounts(b)'
  BY DEF IInv, BatchInv, Owned, Held, Accounts, TodoInv, TypeOK, RefuseRecovery, SetStatus, worker, history
<1>8. SlotsInv'
  BY FewerActive DEF IInv, RefuseRecovery
<1>9. TodoInv'
  BY DEF IInv, TodoInv, TypeOK, RefuseRecovery, SetStatus, worker, history
<1> QED
  BY <1>1, <1>2, <1>3, <1>4, <1>5, <1>6, <1>7, <1>8, <1>9, OthersKept DEF IInv, BatchInv

LEMMA RecoverKeeps ==
  ASSUME IInv, NEW b \in Batches, Recover(b)
  PROVE  IInv'
<1>1. TypeOK'
  <2>1. counts' \in [Batches -> Tally]
    BY TallyParts DEF IInv, TypeOK, Tally, Recover
  <2>2. status' \in [Batches -> Statuses]
    BY DEF IInv, TypeOK, Recover, SetStatus, Statuses, Pending
  <2>3. output' \in [Batches -> SUBSET AllLines] /\ errors' \in [Batches -> SUBSET AllLines]
    BY DEF IInv, TypeOK, Recover
  <2> QED
    BY <2>1, <2>2, <2>3 DEF IInv, TypeOK, Tally, Recover, worker, history
<1>2. ASSUME NEW c \in Batches, c # b PROVE Same(c)
  BY <1>2 DEF IInv, Same, TypeOK, Recover, NoCheckpoints, SetStatus, worker, history
<1>3. Owned(b)'
  BY DEF IInv, BatchInv, Owned, Held, TodoInv, TypeOK, Recover, NoCheckpoints, SetStatus, worker, history
<1>4. Placed(b)'
  BY Typing DEF IInv, BatchInv, Owned, Placed, Lines, TypeOK, Recorded, Unstarted, Recover, NoCheckpoints, SetStatus, worker, history
<1>5. Current(b)'
  BY DEF IInv, BatchInv, Owned, TodoInv, Current, Recover, worker
<1>6. Sent(b)'
  <2>1. status[b] # "deleted" /\ pc[b] = "none"
    BY DEF IInv, TodoInv, BatchInv, Owned, Recover
  <2>2. ~Unsendable(b)
    BY <2>1 DEF IInv, TodoInv, Unsendable, MayHaveCalled, Recover
  <2>3. pc'[b] = "none"
    BY <2>1 DEF Recover, worker
  <2> QED
    BY <2>2, <2>3 DEF IInv, BatchInv, Sent, Recover, history
<1>7. Accounts(b)'
  BY DEF IInv, BatchInv, Owned, Held, Accounts, TodoInv, TypeOK, Recover, NoCheckpoints, SetStatus, worker, history
<1>8. SlotsInv'
  BY ActiveCard DEF IInv, SlotsInv, TypeOK, Recover, NoCheckpoints, SetStatus, worker, history
<1>9. TodoInv'
  BY DEF IInv, TodoInv, TypeOK, Recover, NoCheckpoints, SetStatus, worker, history
<1> QED
  BY <1>1, <1>2, <1>3, <1>4, <1>5, <1>6, <1>7, <1>8, <1>9, OthersKept DEF IInv, BatchInv

LEMMA DeferKeeps ==
  ASSUME IInv, NEW b \in Batches, Defer(b)
  PROVE  IInv'
<1>1. TypeOK'
  BY Typing, CountsAreNat DEF IInv, BatchInv, Placed, Lines, TypeOK, Statuses, Terminal, Pending, Marks, Recorded, Unstarted, Defer, rows, worker, history
<1>2. ASSUME NEW c \in Batches, c # b PROVE Same(c)
  BY <1>2 DEF IInv, Same, TypeOK, Defer, rows, worker, history
<1>3. Owned(b)'
  BY DEF IInv, BatchInv, Owned, Held, TodoInv, TypeOK, Defer, rows, worker, history
<1>4. Placed(b)'
  BY Typing DEF IInv, BatchInv, Owned, Placed, Lines, TypeOK, Recorded, Unstarted, Defer, rows, worker, history
<1>5. Current(b)'
  BY Typing DEF IInv, BatchInv, Owned, Placed, Current, Lines, TypeOK, Recorded, Unstarted, Defer, rows, worker, history
<1>6. Sent(b)'
  BY DEF IInv, BatchInv, Sent, Unsendable, NoCheckpoints, Defer, rows, worker, history
<1>7. Accounts(b)'
  BY DEF IInv, BatchInv, Owned, Held, Accounts, TodoInv, TypeOK, Defer, rows, worker, history
<1>8. SlotsInv'
  BY ActiveCard DEF IInv, SlotsInv, TypeOK, Defer, rows, worker, history
<1>9. TodoInv'
  BY DEF IInv, TodoInv, TypeOK, Defer, rows, worker, history
<1> QED
  BY <1>1, <1>2, <1>3, <1>4, <1>5, <1>6, <1>7, <1>8, <1>9, OthersKept DEF IInv, BatchInv

LEMMA AcknowledgeCancelKeeps ==
  ASSUME IInv, NEW b \in Batches, AcknowledgeCancel(b)
  PROVE  IInv'
<1>1. TypeOK'
  BY Typing, CountsAreNat DEF IInv, BatchInv, Placed, Lines, TypeOK, Statuses, Terminal, Pending, Marks, Recorded, Unstarted, AcknowledgeCancel, SetStatus, worker, history
<1>2. ASSUME NEW c \in Batches, c # b PROVE Same(c)
  BY <1>2 DEF IInv, Same, TypeOK, AcknowledgeCancel, SetStatus, worker, history
<1>3. Owned(b)'
  BY DEF IInv, BatchInv, Owned, Held, TodoInv, TypeOK, AcknowledgeCancel, SetStatus, worker, history
<1>4. Placed(b)'
  BY Typing DEF IInv, BatchInv, Owned, Placed, Lines, TypeOK, Recorded, Unstarted, AcknowledgeCancel, SetStatus, worker, history
<1>5. Current(b)'
  BY Typing DEF IInv, BatchInv, Owned, Placed, Current, Lines, TypeOK, Recorded, Unstarted, AcknowledgeCancel, SetStatus, worker, history
<1>6. Sent(b)'
  BY Typing DEF IInv, BatchInv, Owned, Placed, Current, Sent, Unsendable, NoCheckpoints, TodoInv, Lines, Held, TypeOK, Statuses, Terminal, Pending, Marks, Recorded, Unstarted, AcknowledgeCancel, SetStatus, worker, history
<1>7. Accounts(b)'
  BY DEF IInv, BatchInv, Owned, Held, Accounts, TodoInv, TypeOK, AcknowledgeCancel, SetStatus, worker, history
<1>8. SlotsInv'
  BY ActiveCard DEF IInv, SlotsInv, TypeOK, AcknowledgeCancel, SetStatus, worker, history
<1>9. TodoInv'
  BY DEF IInv, TodoInv, TypeOK, AcknowledgeCancel, SetStatus, worker, history
<1> QED
  BY <1>1, <1>2, <1>3, <1>4, <1>5, <1>6, <1>7, <1>8, <1>9, OthersKept DEF IInv, BatchInv

LEMMA RejectInputKeeps ==
  ASSUME IInv, NEW b \in Batches, RejectInput(b)
  PROVE  IInv'
<1>1. TypeOK'
  <2>1. counts \in [Batches -> Tally] /\ Size[b] \in Nat
    BY DEF IInv, TypeOK, Tally
  <2>2. [counts EXCEPT ![b].total = Size[b], ![b].failed = Size[b]] \in [Batches -> Tally]
    BY <2>1, TallyParts
  <2>3. counts' \in [Batches -> [total : Nat, completed : Nat, failed : Nat]]
    BY <2>1, <2>2 DEF RejectInput, RejectedCounts, Tally
  <2>4. status' \in [Batches -> Statuses]
    BY DEF IInv, TypeOK, RejectInput, SetStatus, Statuses, Terminal
  <2> QED
    BY <2>3, <2>4 DEF IInv, TypeOK, RejectInput, TakeSlot, worker, history
<1>2. ASSUME NEW c \in Batches, c # b PROVE Same(c)
  BY <1>2 DEF IInv, Same, TypeOK, RejectInput, TakeSlot, SlotFree, RejectedCounts, SetStatus, worker, history
<1>3. Owned(b)'
  BY DEF IInv, BatchInv, Owned, Held, TodoInv, TypeOK, RejectInput, TakeSlot, SlotFree, RejectedCounts, SetStatus, worker, history
<1>4. Placed(b)'
  BY Typing DEF IInv, BatchInv, Owned, Placed, Lines, TypeOK, Recorded, Unstarted, RejectInput, TakeSlot, SlotFree, RejectedCounts, SetStatus, worker, history
<1>5. Current(b)'
  BY Typing DEF IInv, BatchInv, Owned, Placed, Current, Lines, TypeOK, Recorded, Unstarted, RejectInput, TakeSlot, SlotFree, RejectedCounts, SetStatus, worker, history
<1>6. Sent(b)'
  BY Typing DEF IInv, BatchInv, Owned, Placed, Current, Sent, Unsendable, NoCheckpoints, TodoInv, Lines, Held, TypeOK, Statuses, Terminal, Pending, Marks, Recorded, Unstarted, RejectInput, TakeSlot, SlotFree, RejectedCounts, SetStatus, worker, history
<1>7. Accounts(b)'
  BY DEF IInv, BatchInv, Owned, Held, Accounts, TodoInv, TypeOK, RejectInput, TakeSlot, SlotFree, RejectedCounts, SetStatus, worker, history
<1>8. SlotsInv'
  BY OneMoreActive DEF IInv, RejectInput, TakeSlot
<1>9. TodoInv'
  BY DEF IInv, TodoInv, TypeOK, RejectInput, TakeSlot, SlotFree, RejectedCounts, SetStatus, worker, history
<1> QED
  BY <1>1, <1>2, <1>3, <1>4, <1>5, <1>6, <1>7, <1>8, <1>9, OthersKept DEF IInv, BatchInv

LEMMA StartBatchKeeps ==
  ASSUME IInv, NEW b \in Batches, StartBatch(b)
  PROVE  IInv'
<1>1. TypeOK'
  <2>1. counts' \in [Batches -> [total : Nat, completed : Nat, failed : Nat]]
    BY DEF IInv, TypeOK, StartBatch
  <2>2. Ensured(b) \in [AllLines -> Marks]
    BY DEF IInv, TypeOK, Ensured, Marks, Unstarted
  <2>3. /\ checkpoint' \in [Batches -> [AllLines -> Marks]]
        /\ known' \in [Batches -> [AllLines -> Marks]]
    BY <2>2 DEF IInv, TypeOK, StartBatch
  <2> QED
    BY <2>1, <2>3 DEF IInv, TypeOK, StartBatch, TakeSlot, Statuses, Pending, SetStatus, history
<1>2. ASSUME NEW c \in Batches, c # b PROVE Same(c)
  BY <1>2 DEF IInv, Same, TypeOK, StartBatch, TakeSlot, SlotFree, Ensured, SetStatus, history
<1>3. Owned(b)'
  BY DEF IInv, BatchInv, Owned, Held, TodoInv, TypeOK, StartBatch, TakeSlot, SlotFree, Ensured, SetStatus, history
<1>4. Placed(b)'
  BY Typing DEF IInv, BatchInv, Owned, Placed, Lines, TypeOK, Recorded, Unstarted, StartBatch, TakeSlot, SlotFree, Ensured, SetStatus, history
<1>5. Current(b)'
  BY Typing DEF IInv, BatchInv, Owned, Placed, Current, Lines, TypeOK, Recorded, Unstarted, StartBatch, TakeSlot, SlotFree, Ensured, SetStatus, history
<1>6. Sent(b)'
  <2>1. ~Unsendable(b)
    BY DEF Unsendable, StartBatch, TakeSlot
  <2>2. \A l \in Lines(b) : Ensured(b)[l] \in Unstarted => checkpoint[b][l] \in Unstarted
    BY Typing DEF Ensured, Unstarted
  <2> QED
    BY <2>1, <2>2 DEF IInv, BatchInv, Sent, StartBatch, TypeOK, history
<1>7. Accounts(b)'
  BY DEF IInv, BatchInv, Owned, Held, Accounts, TodoInv, TypeOK, StartBatch, TakeSlot, SlotFree, Ensured, SetStatus, history
<1>8. SlotsInv'
  BY OneMoreActive DEF IInv, StartBatch, TakeSlot
<1>9. TodoInv'
  BY DEF IInv, TodoInv, TypeOK, StartBatch, TakeSlot, SlotFree, Ensured, SetStatus, history
<1> QED
  BY <1>1, <1>2, <1>3, <1>4, <1>5, <1>6, <1>7, <1>8, <1>9, OthersKept DEF IInv, BatchInv

LEMMA ResolveApiKeyKeeps ==
  ASSUME IInv, NEW b \in Batches, pass = "idle", ResolveApiKey(b)
  PROVE  IInv'
<1>1. TypeOK'
  BY Typing, CountsAreNat DEF IInv, BatchInv, Placed, Lines, TypeOK, Statuses, Terminal, Pending, Marks, Recorded, Unstarted, ResolveApiKey, rows, poller, history
<1>2. ASSUME NEW c \in Batches, c # b PROVE Same(c)
  BY <1>2 DEF IInv, Same, TypeOK, ResolveApiKey, rows, poller, history
<1>3. Owned(b)'
  BY DEF IInv, BatchInv, Owned, Held, TodoInv, TypeOK, ResolveApiKey, rows, poller, history
<1>4. Placed(b)'
  BY Typing DEF IInv, BatchInv, Owned, Placed, Lines, TypeOK, Recorded, Unstarted, ResolveApiKey, rows, poller, history
<1>5. Current(b)'
  BY Typing DEF IInv, BatchInv, Owned, Placed, Current, Lines, TypeOK, Recorded, Unstarted, ResolveApiKey, rows, poller, history
<1>6. Sent(b)'
  BY Typing DEF IInv, BatchInv, Owned, Placed, Current, Sent, Unsendable, NoCheckpoints, TodoInv, Lines, Held, TypeOK, Statuses, Terminal, Pending, Marks, Recorded, Unstarted, ResolveApiKey, rows, poller, history
<1>7. Accounts(b)'
  BY DEF IInv, BatchInv, Owned, Held, Accounts, TodoInv, TypeOK, ResolveApiKey, rows, poller, history
<1>8. SlotsInv'
  BY ActiveCard DEF IInv, SlotsInv, TypeOK, ResolveApiKey, rows, poller, history
<1>9. TodoInv'
  BY DEF IInv, TodoInv, TypeOK, ResolveApiKey, rows, poller, history
<1> QED
  BY <1>1, <1>2, <1>3, <1>4, <1>5, <1>6, <1>7, <1>8, <1>9, OthersKept DEF IInv, BatchInv

LEMMA ApiKeyFailsKeeps ==
  ASSUME IInv, NEW b \in Batches, pass = "idle", ApiKeyFails(b)
  PROVE  IInv'
<1>1. TypeOK'
  BY Typing, CountsAreNat DEF IInv, BatchInv, Placed, Lines, TypeOK, Statuses, Terminal, Pending, Marks, Recorded, Unstarted, ApiKeyFails, WorkerThrows, WorkerEnds, NoLines, poller, history
<1>2. ASSUME NEW c \in Batches, c # b PROVE Same(c)
  BY <1>2 DEF IInv, Same, TypeOK, ApiKeyFails, WorkerThrows, WorkerEnds, NoLines, poller, history
<1>3. Owned(b)'
  BY DEF IInv, BatchInv, Owned, Held, TodoInv, TypeOK, ApiKeyFails, WorkerThrows, WorkerEnds, NoLines, poller, history
<1>4. Placed(b)'
  BY Typing DEF IInv, BatchInv, Owned, Placed, Lines, TypeOK, Recorded, Unstarted, ApiKeyFails, WorkerThrows, WorkerEnds, NoLines, poller, history
<1>5. Current(b)'
  BY Typing DEF IInv, BatchInv, Owned, Placed, Current, Lines, TypeOK, Recorded, Unstarted, ApiKeyFails, WorkerThrows, WorkerEnds, NoLines, poller, history
<1>6. Sent(b)'
  BY Typing DEF IInv, BatchInv, Owned, Placed, Current, Sent, Unsendable, NoCheckpoints, TodoInv, Lines, Held, TypeOK, Statuses, Terminal, Pending, Marks, Recorded, Unstarted, ApiKeyFails, WorkerThrows, WorkerEnds, NoLines, poller, history
<1>7. Accounts(b)'
  BY DEF IInv, BatchInv, Owned, Held, Accounts, TodoInv, TypeOK, ApiKeyFails, WorkerThrows, WorkerEnds, NoLines, poller, history
<1>8. SlotsInv'
  BY FewerActive DEF IInv, ApiKeyFails, WorkerThrows, WorkerEnds, poller
<1>9. TodoInv'
  BY DEF IInv, TodoInv, TypeOK, ApiKeyFails, WorkerThrows, WorkerEnds, NoLines, poller, history
<1> QED
  BY <1>1, <1>2, <1>3, <1>4, <1>5, <1>6, <1>7, <1>8, <1>9, OthersKept DEF IInv, BatchInv

LEMMA ReuseCheckpointKeeps ==
  ASSUME IInv, NEW b \in Batches, pass = "idle", ReuseCheckpoint(b)
  PROVE  IInv'
<1> DEFINE k == known[b]
<1>a. pc[b] # "none" /\ line[b] \in Lines(b) /\ line[b] \in AllLines
  BY Typing DEF IInv, BatchInv, Placed, ReuseCheckpoint, AtItem, Lines, TypeOK
<1>b. /\ k \in [AllLines -> Marks] /\ k[line[b]] \in Recorded
      /\ \A l \in AllLines : l # line[b] => k[l] = known[b][l]
  BY <1>a DEF IInv, TypeOK, ReuseCheckpoint, Marks, Recorded
<1>c. TypeOK /\ BatchInv(b) /\ NextLine(b, k) /\ checkpoint' = checkpoint /\ status' = status
  BY DEF IInv, ReuseCheckpoint
<1>d. /\ checkpoint' \in [Batches -> [AllLines -> Marks]]
      /\ status[b] # "deleted" => checkpoint'[b][line[b]] = k[line[b]]
      /\ \A l \in AllLines : l # line[b] => checkpoint'[b][l] = checkpoint[b][l]
  <2>1. status[b] # "deleted" => known[b][line[b]] = checkpoint[b][line[b]]
    BY <1>a, <1>c DEF BatchInv, Current, ReuseCheckpoint, AtItem
  <2> QED
    BY <1>c, <2>1 DEF TypeOK
<1> HIDE DEF k
<1>1. TypeOK'
  BY <1>b, <1>c, <1>d, NextLineTyped DEF TypeOK, ReuseCheckpoint, poller, history
<1>2. ASSUME NEW c \in Batches, c # b PROVE Same(c)
  BY <1>2 DEF IInv, Same, TypeOK, ReuseCheckpoint, AtItem, NextLine, Progress, IsBatchCancelled, poller, history
<1>3. Owned(b)'
  BY DEF IInv, BatchInv, Owned, Held, TodoInv, TypeOK, ReuseCheckpoint, AtItem, NextLine, Progress, IsBatchCancelled, poller, history
<1>4. Placed(b)'
  BY <1>a, <1>b, <1>c, Typing, NextLinePlaced DEF BatchInv
<1>5. Current(b)'
  BY <1>a, <1>b, <1>c, <1>d, Typing, NextLineCurrent DEF BatchInv
<1>6. Sent(b)'
  BY Typing DEF IInv, BatchInv, Owned, Placed, Current, Sent, Unsendable, NoCheckpoints, TodoInv, Lines, Held, TypeOK, Statuses, Terminal, Pending, Marks, Recorded, Unstarted, ReuseCheckpoint, AtItem, NextLine, Progress, IsBatchCancelled, poller, history
<1>7. Accounts(b)'
  BY DEF IInv, BatchInv, Owned, Held, Accounts, TodoInv, TypeOK, ReuseCheckpoint, AtItem, NextLine, Progress, IsBatchCancelled, poller, history
<1>8. SlotsInv'
  BY ActiveCard DEF IInv, SlotsInv, TypeOK, ReuseCheckpoint, AtItem, NextLine, Progress, IsBatchCancelled, poller, history
<1>9. TodoInv'
  BY DEF IInv, TodoInv, TypeOK, ReuseCheckpoint, AtItem, NextLine, Progress, IsBatchCancelled, poller, history
<1> QED
  BY <1>1, <1>2, <1>3, <1>4, <1>5, <1>6, <1>7, <1>8, <1>9, OthersKept DEF IInv, BatchInv

LEMMA GiveUpInterruptedKeeps ==
  ASSUME IInv, NEW b \in Batches, pass = "idle", GiveUpInterrupted(b)
  PROVE  IInv'
<1> DEFINE k == [known[b] EXCEPT ![line[b]] = "errored"]
<1>a. pc[b] # "none" /\ line[b] \in Lines(b) /\ line[b] \in AllLines
  BY Typing DEF IInv, BatchInv, Placed, GiveUpInterrupted, AtItem, Lines, TypeOK
<1>b. /\ k \in [AllLines -> Marks] /\ k[line[b]] \in Recorded
      /\ \A l \in AllLines : l # line[b] => k[l] = known[b][l]
  BY <1>a DEF IInv, TypeOK, GiveUpInterrupted, Marks, Recorded
<1>c. TypeOK /\ BatchInv(b) /\ NextLine(b, k) /\ checkpoint' = MarkLine(b, "errored") /\ status' = status
  BY DEF IInv, GiveUpInterrupted
<1>d. /\ checkpoint' \in [Batches -> [AllLines -> Marks]]
      /\ status[b] # "deleted" => checkpoint'[b][line[b]] = k[line[b]]
      /\ \A l \in AllLines : l # line[b] => checkpoint'[b][l] = checkpoint[b][l]
  BY <1>a, <1>b, <1>c, MarkLineTyped DEF Marks, Recorded
<1> HIDE DEF k
<1>1. TypeOK'
  BY <1>b, <1>c, <1>d, NextLineTyped DEF TypeOK, GiveUpInterrupted, poller, history
<1>2. ASSUME NEW c \in Batches, c # b PROVE Same(c)
  BY <1>2 DEF IInv, Same, TypeOK, GiveUpInterrupted, AtItem, NextLine, Progress, MarkLine, IsBatchCancelled, poller, history
<1>3. Owned(b)'
  BY DEF IInv, BatchInv, Owned, Held, TodoInv, TypeOK, GiveUpInterrupted, AtItem, NextLine, Progress, MarkLine, IsBatchCancelled, poller, history
<1>4. Placed(b)'
  BY <1>a, <1>b, <1>c, Typing, NextLinePlaced DEF BatchInv
<1>5. Current(b)'
  BY <1>a, <1>b, <1>c, <1>d, Typing, NextLineCurrent DEF BatchInv
<1>6. Sent(b)'
  BY Typing DEF IInv, BatchInv, Owned, Placed, Current, Sent, Unsendable, NoCheckpoints, TodoInv, Lines, Held, TypeOK, Statuses, Terminal, Pending, Marks, Recorded, Unstarted, GiveUpInterrupted, AtItem, NextLine, Progress, MarkLine, IsBatchCancelled, poller, history
<1>7. Accounts(b)'
  BY DEF IInv, BatchInv, Owned, Held, Accounts, TodoInv, TypeOK, GiveUpInterrupted, AtItem, NextLine, Progress, MarkLine, IsBatchCancelled, poller, history
<1>8. SlotsInv'
  BY ActiveCard DEF IInv, SlotsInv, TypeOK, GiveUpInterrupted, AtItem, NextLine, Progress, MarkLine, IsBatchCancelled, poller, history
<1>9. TodoInv'
  BY DEF IInv, TodoInv, TypeOK, GiveUpInterrupted, AtItem, NextLine, Progress, MarkLine, IsBatchCancelled, poller, history
<1> QED
  BY <1>1, <1>2, <1>3, <1>4, <1>5, <1>6, <1>7, <1>8, <1>9, OthersKept DEF IInv, BatchInv

LEMMA ThrottleKeeps ==
  ASSUME IInv, NEW b \in Batches, pass = "idle", Throttle(b)
  PROVE  IInv'
<1>1. TypeOK'
  BY Typing, CountsAreNat DEF IInv, BatchInv, Placed, Lines, TypeOK, Statuses, Terminal, Pending, Marks, Recorded, Unstarted, Throttle, AtItem, IsFresh, IsBatchCancelled, rows, poller, history
<1>2. ASSUME NEW c \in Batches, c # b PROVE Same(c)
  BY <1>2 DEF IInv, Same, TypeOK, Throttle, AtItem, IsFresh, IsBatchCancelled, rows, poller, history
<1>3. Owned(b)'
  BY DEF IInv, BatchInv, Owned, Held, TodoInv, TypeOK, Throttle, AtItem, IsFresh, IsBatchCancelled, rows, poller, history
<1>4. Placed(b)'
  BY Typing DEF IInv, BatchInv, Owned, Placed, Lines, TypeOK, Recorded, Unstarted, Throttle, AtItem, IsFresh, IsBatchCancelled, rows, poller, history
<1>5. Current(b)'
  BY Typing DEF IInv, BatchInv, Owned, Placed, Current, Lines, TypeOK, Recorded, Unstarted, Throttle, AtItem, IsFresh, IsBatchCancelled, rows, poller, history
<1>6. Sent(b)'
  BY Typing DEF IInv, BatchInv, Owned, Placed, Current, Sent, Unsendable, NoCheckpoints, TodoInv, Lines, Held, TypeOK, Statuses, Terminal, Pending, Marks, Recorded, Unstarted, Throttle, AtItem, IsFresh, IsBatchCancelled, rows, poller, history
<1>7. Accounts(b)'
  BY DEF IInv, BatchInv, Owned, Held, Accounts, TodoInv, TypeOK, Throttle, AtItem, IsFresh, IsBatchCancelled, rows, poller, history
<1>8. SlotsInv'
  BY ActiveCard DEF IInv, SlotsInv, TypeOK, Throttle, AtItem, IsFresh, IsBatchCancelled, rows, poller, history
<1>9. TodoInv'
  BY DEF IInv, TodoInv, TypeOK, Throttle, AtItem, IsFresh, IsBatchCancelled, rows, poller, history
<1> QED
  BY <1>1, <1>2, <1>3, <1>4, <1>5, <1>6, <1>7, <1>8, <1>9, OthersKept DEF IInv, BatchInv

LEMMA SendItemKeeps ==
  ASSUME IInv, NEW b \in Batches, pass = "idle", SendItem(b)
  PROVE  IInv'
<1>1. TypeOK'
  BY Typing, CountsAreNat DEF IInv, BatchInv, Placed, Lines, TypeOK, Statuses, Terminal, Pending, Marks, Recorded, Unstarted, SendItem, ReadyToSend, AtItem, IsFresh, IsBatchCancelled, poller
<1>2. ASSUME NEW c \in Batches, c # b PROVE Same(c)
  BY <1>2 DEF IInv, Same, TypeOK, SendItem, ReadyToSend, AtItem, IsFresh, IsBatchCancelled, poller
<1>3. Owned(b)'
  BY DEF IInv, BatchInv, Owned, Held, TodoInv, TypeOK, SendItem, ReadyToSend, AtItem, IsFresh, IsBatchCancelled, poller
<1>4. Placed(b)'
  BY Typing DEF IInv, BatchInv, Owned, Placed, Lines, TypeOK, Recorded, Unstarted, SendItem, ReadyToSend, AtItem, IsFresh, IsBatchCancelled, poller
<1>5. Current(b)'
  BY Typing DEF IInv, BatchInv, Owned, Placed, Current, Lines, TypeOK, Recorded, Unstarted, SendItem, ReadyToSend, AtItem, IsFresh, IsBatchCancelled, poller
<1>6. Sent(b)'
  BY Typing DEF IInv, BatchInv, Owned, Placed, Current, Sent, Unsendable, NoCheckpoints, TodoInv, Lines, Held, TypeOK, Statuses, Terminal, Pending, Marks, Recorded, Unstarted, SendItem, ReadyToSend, AtItem, IsFresh, IsBatchCancelled, poller
<1>7. Accounts(b)'
  BY DEF IInv, BatchInv, Owned, Held, Accounts, TodoInv, TypeOK, SendItem, ReadyToSend, AtItem, IsFresh, IsBatchCancelled, poller
<1>8. SlotsInv'
  BY ActiveCard DEF IInv, SlotsInv, TypeOK, SendItem, ReadyToSend, AtItem, IsFresh, IsBatchCancelled, poller
<1>9. TodoInv'
  BY DEF IInv, TodoInv, TypeOK, SendItem, ReadyToSend, AtItem, IsFresh, IsBatchCancelled, poller
<1> QED
  BY <1>1, <1>2, <1>3, <1>4, <1>5, <1>6, <1>7, <1>8, <1>9, OthersKept DEF IInv, BatchInv

LEMMA SendRefusedKeeps ==
  ASSUME IInv, NEW b \in Batches, pass = "idle", SendRefused(b)
  PROVE  IInv'
<1>1. TypeOK'
  BY Typing, CountsAreNat DEF IInv, BatchInv, Placed, Lines, TypeOK, Statuses, Terminal, Pending, Marks, Recorded, Unstarted, SendRefused, WorkerThrows, WorkerEnds, NoLines, poller, history
<1>2. ASSUME NEW c \in Batches, c # b PROVE Same(c)
  BY <1>2 DEF IInv, Same, TypeOK, SendRefused, WorkerThrows, WorkerEnds, NoLines, poller, history
<1>3. Owned(b)'
  BY DEF IInv, BatchInv, Owned, Held, TodoInv, TypeOK, SendRefused, WorkerThrows, WorkerEnds, NoLines, poller, history
<1>4. Placed(b)'
  BY Typing DEF IInv, BatchInv, Owned, Placed, Lines, TypeOK, Recorded, Unstarted, SendRefused, WorkerThrows, WorkerEnds, NoLines, poller, history
<1>5. Current(b)'
  BY Typing DEF IInv, BatchInv, Owned, Placed, Current, Lines, TypeOK, Recorded, Unstarted, SendRefused, WorkerThrows, WorkerEnds, NoLines, poller, history
<1>6. Sent(b)'
  BY Typing DEF IInv, BatchInv, Owned, Placed, Current, Sent, Unsendable, NoCheckpoints, TodoInv, Lines, Held, TypeOK, Statuses, Terminal, Pending, Marks, Recorded, Unstarted, SendRefused, WorkerThrows, WorkerEnds, NoLines, poller, history
<1>7. Accounts(b)'
  BY DEF IInv, BatchInv, Owned, Held, Accounts, TodoInv, TypeOK, SendRefused, WorkerThrows, WorkerEnds, NoLines, poller, history
<1>8. SlotsInv'
  BY FewerActive DEF IInv, SendRefused, WorkerThrows, WorkerEnds, poller
<1>9. TodoInv'
  BY DEF IInv, TodoInv, TypeOK, SendRefused, WorkerThrows, WorkerEnds, NoLines, poller, history
<1> QED
  BY <1>1, <1>2, <1>3, <1>4, <1>5, <1>6, <1>7, <1>8, <1>9, OthersKept DEF IInv, BatchInv

LEMMA BackOffKeeps ==
  ASSUME IInv, NEW b \in Batches, pass = "idle", BackOff(b)
  PROVE  IInv'
<1>1. TypeOK'
  BY Typing, CountsAreNat DEF IInv, BatchInv, Placed, Lines, TypeOK, Statuses, Terminal, Pending, Marks, Recorded, Unstarted, BackOff, HasAttemptLeft, rows, poller, history
<1>2. ASSUME NEW c \in Batches, c # b PROVE Same(c)
  BY <1>2 DEF IInv, Same, TypeOK, BackOff, HasAttemptLeft, rows, poller, history
<1>3. Owned(b)'
  BY DEF IInv, BatchInv, Owned, Held, TodoInv, TypeOK, BackOff, HasAttemptLeft, rows, poller, history
<1>4. Placed(b)'
  BY Typing DEF IInv, BatchInv, Owned, Placed, Lines, TypeOK, Recorded, Unstarted, BackOff, HasAttemptLeft, rows, poller, history
<1>5. Current(b)'
  BY Typing DEF IInv, BatchInv, Owned, Placed, Current, Lines, TypeOK, Recorded, Unstarted, BackOff, HasAttemptLeft, rows, poller, history
<1>6. Sent(b)'
  BY Typing DEF IInv, BatchInv, Owned, Placed, Current, Sent, Unsendable, NoCheckpoints, TodoInv, Lines, Held, TypeOK, Statuses, Terminal, Pending, Marks, Recorded, Unstarted, BackOff, HasAttemptLeft, rows, poller, history
<1>7. Accounts(b)'
  BY DEF IInv, BatchInv, Owned, Held, Accounts, TodoInv, TypeOK, BackOff, HasAttemptLeft, rows, poller, history
<1>8. SlotsInv'
  BY ActiveCard DEF IInv, SlotsInv, TypeOK, BackOff, HasAttemptLeft, rows, poller, history
<1>9. TodoInv'
  BY DEF IInv, TodoInv, TypeOK, BackOff, HasAttemptLeft, rows, poller, history
<1> QED
  BY <1>1, <1>2, <1>3, <1>4, <1>5, <1>6, <1>7, <1>8, <1>9, OthersKept DEF IInv, BatchInv

LEMMA RetryKeeps ==
  ASSUME IInv, NEW b \in Batches, pass = "idle", Retry(b)
  PROVE  IInv'
<1>1. TypeOK'
  BY Typing, CountsAreNat DEF IInv, BatchInv, Placed, Lines, TypeOK, Statuses, Terminal, Pending, Marks, Recorded, Unstarted, Retry, rows, poller, history
<1>2. ASSUME NEW c \in Batches, c # b PROVE Same(c)
  BY <1>2 DEF IInv, Same, TypeOK, Retry, rows, poller, history
<1>3. Owned(b)'
  BY DEF IInv, BatchInv, Owned, Held, TodoInv, TypeOK, Retry, rows, poller, history
<1>4. Placed(b)'
  BY Typing DEF IInv, BatchInv, Owned, Placed, Lines, TypeOK, Recorded, Unstarted, Retry, rows, poller, history
<1>5. Current(b)'
  BY Typing DEF IInv, BatchInv, Owned, Placed, Current, Lines, TypeOK, Recorded, Unstarted, Retry, rows, poller, history
<1>6. Sent(b)'
  <2>1. /\ TypeOK /\ BatchInv(b) /\ pc[b] = "backoff" /\ checkpoint' = checkpoint
        /\ status' = status /\ pc'[b] = "calling" /\ line' = line
    BY DEF IInv, TypeOK, Retry, rows
  <2>2. line[b] \in Lines(b) /\ line[b] \in AllLines
    BY <2>1, Typing DEF BatchInv, Placed
  <2>3. /\ attempt[b] \in Nat /\ attempt'[b] = attempt[b] + 1 /\ attempt[b] < MaxAttempts
        /\ calls[b][line[b]] = attempt[b]
        /\ calls'[b] = [calls[b] EXCEPT ![line[b]] = @ + 1]
        /\ calls[b] \in [AllLines -> Nat]
    BY <2>1 DEF BatchInv, Placed, Sent, TypeOK, Retry
  <2>4. \A l \in AllLines : calls'[b][l] <= MaxAttempts
    BY <2>1, <2>2, <2>3 DEF BatchInv, Sent
  <2>5. calls'[b][line[b]] = attempt'[b] /\ attempt'[b] # 0
    BY <2>2, <2>3
  <2>6. \A l \in Lines(b) : checkpoint'[b][l] \in Unstarted => calls'[b][l] = 0 \/ Unsendable(b)'
    <3>1. SUFFICES ASSUME NEW l \in Lines(b), checkpoint[b][l] \in Unstarted, calls'[b][l] # 0
                   PROVE  status[b] = "deleted"
      BY <2>1 DEF Unsendable
    <3>2. calls[b][l] # 0
      <4>1. CASE l = line[b]
        BY <2>1, <4>1 DEF BatchInv, Sent
      <4>2. CASE l # line[b]
        BY <2>3, <3>1, <4>2, Typing
      <4> QED
        BY <4>1, <4>2
    <3> QED
      BY <2>1, <3>1, <3>2 DEF BatchInv, Sent, Unsendable
  <2> QED
    BY <2>1, <2>4, <2>5, <2>6 DEF Sent
<1>7. Accounts(b)'
  BY DEF IInv, BatchInv, Owned, Held, Accounts, TodoInv, TypeOK, Retry, rows, poller, history
<1>8. SlotsInv'
  BY ActiveCard DEF IInv, SlotsInv, TypeOK, Retry, rows, poller, history
<1>9. TodoInv'
  BY DEF IInv, TodoInv, TypeOK, Retry, rows, poller, history
<1> QED
  BY <1>1, <1>2, <1>3, <1>4, <1>5, <1>6, <1>7, <1>8, <1>9, OthersKept DEF IInv, BatchInv

LEMMA RecordItemKeeps ==
  ASSUME IInv, NEW b \in Batches, NEW m \in Recorded, pass = "idle", RecordItem(b, m)
  PROVE  IInv'
<1> DEFINE k == [known[b] EXCEPT ![line[b]] = m]
<1>a. pc[b] # "none" /\ line[b] \in Lines(b) /\ line[b] \in AllLines
  BY Typing DEF IInv, BatchInv, Placed, RecordItem, Lines, TypeOK
<1>b. /\ k \in [AllLines -> Marks] /\ k[line[b]] \in Recorded
      /\ \A l \in AllLines : l # line[b] => k[l] = known[b][l]
  BY <1>a DEF IInv, TypeOK, RecordItem, Marks, Recorded
<1>c. TypeOK /\ BatchInv(b) /\ NextLine(b, k) /\ checkpoint' = MarkLine(b, m) /\ status' = status
  BY DEF IInv, RecordItem
<1>d. /\ checkpoint' \in [Batches -> [AllLines -> Marks]]
      /\ status[b] # "deleted" => checkpoint'[b][line[b]] = k[line[b]]
      /\ \A l \in AllLines : l # line[b] => checkpoint'[b][l] = checkpoint[b][l]
  BY <1>a, <1>b, <1>c, MarkLineTyped DEF Marks, Recorded
<1> HIDE DEF k
<1>1. TypeOK'
  BY <1>b, <1>c, <1>d, NextLineTyped DEF TypeOK, RecordItem, poller, history
<1>2. ASSUME NEW c \in Batches, c # b PROVE Same(c)
  BY <1>2 DEF IInv, Same, TypeOK, RecordItem, NextLine, Progress, MarkLine, poller, history
<1>3. Owned(b)'
  BY DEF IInv, BatchInv, Owned, Held, TodoInv, TypeOK, RecordItem, NextLine, Progress, MarkLine, poller, history
<1>4. Placed(b)'
  BY <1>a, <1>b, <1>c, Typing, NextLinePlaced DEF BatchInv
<1>5. Current(b)'
  BY <1>a, <1>b, <1>c, <1>d, Typing, NextLineCurrent DEF BatchInv
<1>6. Sent(b)'
  BY Typing DEF IInv, BatchInv, Owned, Placed, Current, Sent, Unsendable, NoCheckpoints, TodoInv, Lines, Held, TypeOK, Statuses, Terminal, Pending, Marks, Recorded, Unstarted, RecordItem, NextLine, Progress, MarkLine, poller, history
<1>7. Accounts(b)'
  BY DEF IInv, BatchInv, Owned, Held, Accounts, TodoInv, TypeOK, RecordItem, NextLine, Progress, MarkLine, poller, history
<1>8. SlotsInv'
  BY ActiveCard DEF IInv, SlotsInv, TypeOK, RecordItem, NextLine, Progress, MarkLine, poller, history
<1>9. TodoInv'
  BY DEF IInv, TodoInv, TypeOK, RecordItem, NextLine, Progress, MarkLine, poller, history
<1> QED
  BY <1>1, <1>2, <1>3, <1>4, <1>5, <1>6, <1>7, <1>8, <1>9, OthersKept DEF IInv, BatchInv

LEMMA StopCancelledKeeps ==
  ASSUME IInv, NEW b \in Batches, pass = "idle", StopCancelled(b)
  PROVE  IInv'
<1>1. TypeOK'
  BY Typing, CountsAreNat DEF IInv, BatchInv, Placed, Lines, TypeOK, Statuses, Terminal, Pending, Marks, Recorded, Unstarted, StopCancelled, AtEnd, IsBatchCancelled, WorkerEnds, NoLines, poller, history
<1>2. ASSUME NEW c \in Batches, c # b PROVE Same(c)
  BY <1>2 DEF IInv, Same, TypeOK, StopCancelled, AtEnd, IsBatchCancelled, WorkerEnds, NoLines, poller, history
<1>3. Owned(b)'
  BY DEF IInv, BatchInv, Owned, Held, TodoInv, TypeOK, StopCancelled, AtEnd, IsBatchCancelled, WorkerEnds, NoLines, poller, history
<1>4. Placed(b)'
  BY Typing DEF IInv, BatchInv, Owned, Placed, Lines, TypeOK, Recorded, Unstarted, StopCancelled, AtEnd, IsBatchCancelled, WorkerEnds, NoLines, poller, history
<1>5. Current(b)'
  BY Typing DEF IInv, BatchInv, Owned, Placed, Current, Lines, TypeOK, Recorded, Unstarted, StopCancelled, AtEnd, IsBatchCancelled, WorkerEnds, NoLines, poller, history
<1>6. Sent(b)'
  BY Typing DEF IInv, BatchInv, Owned, Placed, Current, Sent, Unsendable, NoCheckpoints, TodoInv, Lines, Held, TypeOK, Statuses, Terminal, Pending, Marks, Recorded, Unstarted, StopCancelled, AtEnd, IsBatchCancelled, WorkerEnds, NoLines, poller, history
<1>7. Accounts(b)'
  BY DEF IInv, BatchInv, Owned, Held, Accounts, TodoInv, TypeOK, StopCancelled, AtEnd, IsBatchCancelled, WorkerEnds, NoLines, poller, history
<1>8. SlotsInv'
  BY FewerActive DEF IInv, StopCancelled, WorkerEnds, poller
<1>9. TodoInv'
  BY DEF IInv, TodoInv, TypeOK, StopCancelled, AtEnd, IsBatchCancelled, WorkerEnds, NoLines, poller, history
<1> QED
  BY <1>1, <1>2, <1>3, <1>4, <1>5, <1>6, <1>7, <1>8, <1>9, OthersKept DEF IInv, BatchInv

LEMMA CompleteBatchKeeps ==
  ASSUME IInv, NEW b \in Batches, pass = "idle", CompleteBatch(b)
  PROVE  IInv'
<1>1. TypeOK'
  <2>1. FinalCounts(b) \in Tally
    BY FinalCountsTyped DEF IInv
  <2>2. counts' \in [Batches -> [total : Nat, completed : Nat, failed : Nat]]
    BY <2>1 DEF IInv, TypeOK, CompleteBatch, Tally
  <2>3. status' \in [Batches -> Statuses]
    BY DEF IInv, TypeOK, CompleteBatch, SetStatus, Statuses, Terminal
  <2>4. /\ output' \in [Batches -> SUBSET AllLines]
        /\ errors' \in [Batches -> SUBSET AllLines]
    BY ResultsOfAll DEF IInv, BatchInv, CompleteBatch, TypeOK
  <2>5. known' \in [Batches -> [AllLines -> Marks]]
    BY DEF IInv, TypeOK, CompleteBatch, WorkerEnds, NoLines, Marks, Unstarted
  <2> QED
    BY <2>2, <2>3, <2>4, <2>5 DEF IInv, TypeOK, CompleteBatch, WorkerEnds, poller, history
<1>2. ASSUME NEW c \in Batches, c # b PROVE Same(c)
  BY <1>2 DEF IInv, Same, TypeOK, CompleteBatch, MayComplete, AtEnd, IsBatchCancelled, WorkerEnds, FinalCounts, NoLines, SetStatus, poller, history
<1>3. Owned(b)'
  BY DEF IInv, BatchInv, Owned, Held, TodoInv, TypeOK, CompleteBatch, MayComplete, AtEnd, IsBatchCancelled, WorkerEnds, FinalCounts, NoLines, SetStatus, poller, history
<1>4. Placed(b)'
  BY Typing DEF IInv, BatchInv, Owned, Placed, Lines, TypeOK, Recorded, Unstarted, CompleteBatch, MayComplete, AtEnd, IsBatchCancelled, WorkerEnds, FinalCounts, NoLines, SetStatus, poller, history
<1>5. Current(b)'
  BY Typing DEF IInv, BatchInv, Owned, Placed, Current, Lines, TypeOK, Recorded, Unstarted, CompleteBatch, MayComplete, AtEnd, IsBatchCancelled, WorkerEnds, FinalCounts, NoLines, SetStatus, poller, history
<1>6. Sent(b)'
  BY Typing DEF IInv, BatchInv, Owned, Placed, Current, Sent, Unsendable, NoCheckpoints, TodoInv, Lines, Held, TypeOK, Statuses, Terminal, Pending, Marks, Recorded, Unstarted, CompleteBatch, MayComplete, AtEnd, IsBatchCancelled, WorkerEnds, FinalCounts, NoLines, SetStatus, poller, history
<1>7. Accounts(b)'
  <2>1. MayComplete(b) /\ TypeOK /\ BatchInv(b)
    BY DEF IInv, CompleteBatch
  <2>2. /\ checkpoint'[b] = checkpoint[b] /\ counts'[b] = FinalCounts(b)
        /\ output'[b] = Good(known[b], line[b] - 1) /\ errors'[b] = Bad(known[b], line[b] - 1)
    BY <2>1 DEF TypeOK, CompleteBatch
  <2> DEFINE G == Good(known[b], line[b] - 1)
  <2>3. /\ G = {l \in Lines(b) : checkpoint[b][l] = "succeeded"}
        /\ Bad(known[b], line[b] - 1) = Lines(b) \ G
        /\ FinalCounts(b).total = Size[b]
        /\ FinalCounts(b).completed = Cardinality(G)
        /\ FinalCounts(b).completed + FinalCounts(b).failed = Size[b]
    BY <2>1, ResultsOfAll DEF BatchInv
  <2> HIDE DEF G
  <2>4. output'[b] = G
    BY <2>2 DEF G
  <2>5. Accounts(b)'
    BY <2>2, <2>3, <2>4 DEF Accounts
  <2> QED
    BY <2>5
<1>8. SlotsInv'
  BY FewerActive DEF IInv, CompleteBatch, WorkerEnds, poller
<1>9. TodoInv'
  BY DEF IInv, TodoInv, TypeOK, CompleteBatch, MayComplete, AtEnd, IsBatchCancelled, WorkerEnds, FinalCounts, NoLines, SetStatus, poller, history
<1> QED
  BY <1>1, <1>2, <1>3, <1>4, <1>5, <1>6, <1>7, <1>8, <1>9, OthersKept DEF IInv, BatchInv

LEMMA BeginPassKeeps ==
  ASSUME IInv, BeginPass
  PROVE  IInv'
<1>1. TypeOK'
  BY DEF IInv, TypeOK, BeginPass, Stale, rows, worker, history
<1>2. ASSUME NEW c \in Batches PROVE Same(c)
  BY DEF Same, BeginPass, rows, worker, history
<1>3. SlotsInv' /\ TodoInv'
  BY DEF IInv, SlotsInv, TodoInv, BeginPass, Stale, rows
<1> QED
  BY <1>1, <1>2, <1>3, OthersKept DEF IInv

LEMMA FetchRemainingKeeps ==
  ASSUME IInv, FetchRemaining
  PROVE  IInv'
<1>1. Cardinality(active) \in Nat /\ Cardinality(active) <= MaxConcurrent
  BY ActiveCard DEF IInv, SlotsInv
<1>2. TypeOK'
  BY <1>1 DEF IInv, TypeOK, FetchRemaining, rows, worker, history
<1>3. ASSUME NEW c \in Batches PROVE Same(c)
  BY DEF Same, FetchRemaining, rows, worker, history
<1>4. SlotsInv' /\ TodoInv'
  BY <1>1 DEF SlotsInv, TodoInv, FetchRemaining, rows
<1> QED
  BY <1>2, <1>3, <1>4, OthersKept DEF IInv

LEMMA EndPassKeeps ==
  ASSUME IInv, EndPass
  PROVE  IInv'
<1>1. PICK late \in SUBSET {b \in Batches : status[b] = "validating"} :
        status' = [b \in Batches |-> IF b \in late THEN "expired" ELSE status[b]]
  BY DEF EndPass
<1>2. TypeOK'
  BY <1>1 DEF IInv, TypeOK, EndPass, Statuses, Terminal, worker, history
<1>3. ASSUME NEW c \in Batches PROVE BatchInv(c)'
  <2>1. CASE c \in late
    <3>1. status[c] = "validating" /\ status'[c] = "expired"
      BY <1>1, <2>1
    <3>2. pc[c] = "none" /\ c \notin active
      BY <3>1 DEF IInv, BatchInv, Owned, Held
    <3> QED
      BY <3>1, <3>2 DEF IInv, BatchInv, Owned, Placed, Current, Sent, Unsendable, Accounts,
                        EndPass, worker, history
  <2>2. CASE c \notin late
    <3>1. Same(c)
      BY <1>1, <2>2 DEF Same, EndPass, worker, history
    <3> QED
      BY <3>1, OthersKept DEF IInv
  <2> QED
    BY <2>1, <2>2
<1>4. SlotsInv' /\ TodoInv'
  BY DEF IInv, SlotsInv, TodoInv, EndPass
<1> QED
  BY <1>2, <1>3, <1>4 DEF IInv

(* A crash ends every worker and the pass. *)
LEMMA DeathKeeps ==
  ASSUME IInv, ProcessDies
  PROVE  /\ active' \in SUBSET Batches
         /\ pc' \in [Batches -> {"none", "starting", "next", "throttled", "calling", "backoff"}]
         /\ line' \in [Batches -> Nat] /\ attempt' \in [Batches -> 0..MaxAttempts]
         /\ known' \in [Batches -> [AllLines -> Marks]]
         /\ pass' \in {"idle", "recovering", "acting"}
         /\ todo' \in SUBSET Batches /\ slots' \in Nat
         /\ crashes' \in 0..MaxCrashes /\ crashes' = crashes + 1 /\ crashes \in Nat
         /\ calls' = calls /\ calls' \in [Batches -> [AllLines -> Nat]]
         /\ SlotsInv' /\ TodoInv'
         /\ \A b \in Batches : pc'[b] = "none" /\ (Owned(b) /\ Placed(b) /\ Current(b))'
<1>1. known' \in [Batches -> [AllLines -> Marks]]
  BY DEF ProcessDies, NoLines, Marks, Unstarted
<1>2. Cardinality({}) = 0
  BY FS_EmptySet
<1>3. SlotsInv' /\ TodoInv'
  BY <1>2 DEF ProcessDies, SlotsInv, TodoInv
<1>4. \A b \in Batches : pc'[b] = "none" /\ (Owned(b) /\ Placed(b) /\ Current(b))'
  BY DEF ProcessDies, Owned, Placed, Current
<1>5. crashes' \in 0..MaxCrashes /\ crashes' = crashes + 1 /\ crashes \in Nat
  BY DEF IInv, TypeOK, ProcessDies
<1> QED
  BY <1>1, <1>3, <1>4, <1>5 DEF IInv, TypeOK, ProcessDies

(* What the crash finds of a batch it leaves as it was. *)
LEMMA DeathKeepsBatch ==
  ASSUME IInv, ProcessDies, NEW c \in Batches,
         status'[c] = status[c], counts'[c] = counts[c], checkpoint'[c] = checkpoint[c],
         output'[c] = output[c], errors'[c] = errors[c]
  PROVE  BatchInv(c)'
<1>1. calls' = calls /\ pc'[c] = "none"
  BY DeathKeeps
<1>2. (Owned(c) /\ Placed(c) /\ Current(c))'
  BY DeathKeeps
<1>3. Sent(c)'
  BY <1>1 DEF IInv, BatchInv, Sent, Unsendable, NoCheckpoints
<1>4. Accounts(c)'
  BY DEF IInv, BatchInv, Accounts
<1> QED
  BY <1>2, <1>3, <1>4 DEF BatchInv

LEMMA CrashKeeps ==
  ASSUME IInv, Crash
  PROVE  IInv'
<1>1. ProcessDies
  BY DEF Crash
<1>2. TypeOK'
  BY <1>1, DeathKeeps DEF IInv, TypeOK, Crash, rows
<1>3. \A c \in Batches : BatchInv(c)'
  BY <1>1, DeathKeepsBatch DEF Crash, rows
<1> QED
  BY <1>1, <1>2, <1>3, DeathKeeps DEF IInv

LEMMA CrashInStartKeeps ==
  ASSUME IInv, NEW b \in Batches, CrashInStart(b)
  PROVE  IInv'
<1>1. ProcessDies
  BY DEF CrashInStart
<1>2. Ensured(b) \in [AllLines -> Marks]
  BY DEF IInv, TypeOK, Ensured, Marks, Unstarted
<1>3. counts' \in [Batches -> Tally]
  <2>1. counts \in [Batches -> Tally] /\ Size[b] \in Nat
    BY DEF IInv, TypeOK, Tally
  <2>2. [counts EXCEPT ![b].total = Size[b], ![b].failed = Size[b]] \in [Batches -> Tally]
    BY <2>1, TallyParts
  <2> QED
    BY <2>1, <2>2 DEF CrashInStart, RejectedCounts
<1>4. TypeOK'
  <2>1. checkpoint' \in [Batches -> [AllLines -> Marks]]
    BY <1>2 DEF IInv, TypeOK, CrashInStart
  <2> QED
    BY <1>1, <1>3, <2>1, DeathKeeps DEF IInv, TypeOK, Tally, CrashInStart
<1>5. ASSUME NEW c \in Batches, c # b PROVE BatchInv(c)'
  <2>1. counts'[c] = counts[c] /\ checkpoint'[c] = checkpoint[c]
    BY <1>5 DEF IInv, TypeOK, CrashInStart, RejectedCounts
  <2> QED
    BY <1>1, <2>1, DeathKeepsBatch DEF CrashInStart
<1>6. BatchInv(b)'
  <2>1. status'[b] = "validating" /\ ~Unsendable(b)
    BY DEF CrashInStart, Unsendable
  <2>2. \A l \in Lines(b) : Ensured(b)[l] \in Unstarted => checkpoint[b][l] \in Unstarted
    BY Typing DEF Ensured, Unstarted
  <2>3. checkpoint'[b] \in {checkpoint[b], Ensured(b)}
    BY DEF IInv, TypeOK, CrashInStart
  <2>4. calls' = calls /\ pc'[b] = "none"
    BY <1>1, DeathKeeps
  <2>5. Sent(b)'
    BY <2>1, <2>2, <2>3, <2>4 DEF IInv, BatchInv, Sent
  <2>6. Accounts(b)'
    BY <2>1 DEF Accounts
  <2> QED
    BY <1>1, <2>5, <2>6, DeathKeeps DEF BatchInv
<1> QED
  BY <1>1, <1>4, <1>5, <1>6, DeathKeeps DEF IInv

LEMMA CrashInRecordKeeps ==
  ASSUME IInv, NEW b \in Batches, NEW m \in Recorded, CrashInRecord(b, m)
  PROVE  IInv'
<1>1. ProcessDies
  BY DEF CrashInRecord
<1>2. line[b] \in Lines(b) /\ line[b] \in AllLines
  BY Typing DEF IInv, BatchInv, Placed, CrashInRecord
<1>3. m \in Marks /\ m \notin Unstarted
  BY DEF Marks, Recorded, Unstarted
<1>4. /\ checkpoint' \in [Batches -> [AllLines -> Marks]]
      /\ \A l \in AllLines : l # line[b] => checkpoint'[b][l] = checkpoint[b][l]
      /\ status[b] # "deleted" => checkpoint'[b][line[b]] = m
  BY <1>2, <1>3, MarkLineTyped DEF IInv, CrashInRecord
<1>5. TypeOK'
  BY <1>1, <1>4, DeathKeeps DEF IInv, TypeOK, CrashInRecord
<1>6. ASSUME NEW c \in Batches, c # b PROVE BatchInv(c)'
  <2>1. checkpoint'[c] = checkpoint[c]
    BY <1>6 DEF IInv, TypeOK, CrashInRecord, MarkLine
  <2> QED
    BY <1>1, <2>1, DeathKeepsBatch DEF CrashInRecord
<1>7. BatchInv(b)'
  <2>1. status'[b] = status[b] /\ status[b] \in Held /\ pc[b] # "none"
    BY DEF IInv, BatchInv, Owned, CrashInRecord
  <2>2. calls' = calls /\ pc'[b] = "none"
    BY <1>1, DeathKeeps
  <2>3. Sent(b)'
    <3>1. CASE status[b] = "deleted"
      BY <2>1, <2>2, <3>1 DEF IInv, BatchInv, Sent, Unsendable
    <3>2. CASE status[b] # "deleted"
      <4>1. ~Unsendable(b)
        BY <2>1, <3>2 DEF Unsendable
      <4> QED
        BY <1>3, <1>4, <2>2, <3>2, <4>1, Typing DEF IInv, BatchInv, Sent
    <3> QED
      BY <3>1, <3>2
  <2>4. Accounts(b)'
    BY <2>1 DEF Accounts, Held
  <2> QED
    BY <1>1, <2>3, <2>4, DeathKeeps DEF BatchInv
<1> QED
  BY <1>1, <1>5, <1>6, <1>7, DeathKeeps DEF IInv

LEMMA CrashInFinalizeKeeps ==
  ASSUME IInv, NEW b \in Batches, CrashInFinalize(b)
  PROVE  IInv'
<1>1. ProcessDies
  BY DEF CrashInFinalize
<1>2. counts' \in [Batches -> Tally]
  <2>1. FinalCounts(b) \in Tally
    BY FinalCountsTyped DEF IInv
  <2>2. counts \in [Batches -> Tally]
    BY DEF IInv, TypeOK, Tally
  <2>3. counts' \in {counts, [counts EXCEPT ![b] = FinalCounts(b)]}
    BY DEF CrashInFinalize
  <2> QED
    BY <2>1, <2>2, <2>3
<1>3. TypeOK'
  <2>1. status' \in [Batches -> Statuses]
    BY DEF IInv, TypeOK, CrashInFinalize, SetStatus, Statuses, Pending
  <2> QED
    BY <1>1, <1>2, <2>1, DeathKeeps DEF IInv, TypeOK, Tally, CrashInFinalize
<1>4. ASSUME NEW c \in Batches, c # b PROVE BatchInv(c)'
  <2>1. status'[c] = status[c] /\ counts'[c] = counts[c]
    BY <1>4 DEF IInv, TypeOK, CrashInFinalize, SetStatus
  <2> QED
    BY <1>1, <2>1, DeathKeepsBatch DEF CrashInFinalize
<1>5. BatchInv(b)'
  <2>1. status'[b] = "finalizing" /\ checkpoint' = checkpoint
    BY DEF IInv, TypeOK, CrashInFinalize, SetStatus
  <2>2. status[b] # "deleted" /\ pc[b] # "none"
    BY DEF CrashInFinalize, MayComplete, AtEnd
  <2>3. calls' = calls /\ pc'[b] = "none"
    BY <1>1, DeathKeeps
  <2>4. Sent(b)'
    BY <2>1, <2>2, <2>3 DEF IInv, BatchInv, Sent, Unsendable
  <2>5. Accounts(b)'
    BY <2>1 DEF Accounts
  <2> QED
    BY <1>1, <2>4, <2>5, DeathKeeps DEF BatchInv
<1> QED
  BY <1>1, <1>3, <1>4, <1>5, DeathKeeps DEF IInv

LEMMA InitInv == Init => IInv
<1> SUFFICES ASSUME NEW old \in SUBSET Batches, InitFrom(old) PROVE IInv
  BY DEF Init
<1>1. TypeOK
  <2>1. counts \in [Batches -> [total : Nat, completed : Nat, failed : Nat]]
    BY DEF InitFrom
  <2>2. calls \in [Batches -> [AllLines -> Nat]]
    BY DEF InitFrom, NoLines
  <2>3. /\ checkpoint \in [Batches -> [AllLines -> Marks]]
        /\ known \in [Batches -> [AllLines -> Marks]]
    BY DEF InitFrom, NoLines, Marks, Unstarted
  <2>4. status \in [Batches -> Statuses]
    BY DEF InitFrom, Statuses, Pending
  <2> QED
    BY <2>1, <2>2, <2>3, <2>4 DEF InitFrom, TypeOK
<1>2. ASSUME NEW b \in Batches PROVE BatchInv(b)
  <2>1. pc[b] = "none" /\ b \notin active
    BY DEF InitFrom
  <2>2. Sent(b)
    <3>1. CASE b \in old
      <4>1. status[b] = "in_progress" /\ counts[b].total = Size[b] /\ NoCheckpoints(b)
        BY <3>1 DEF InitFrom, NoCheckpoints, NoLines
      <4>2. \A l \in AllLines : calls[b][l] = 1 /\ 1 <= MaxAttempts
        BY <3>1 DEF InitFrom, NoLines
      <4>3. Size[b] > 0 \/ Lines(b) = {}
        BY DEF Lines
      <4> QED
        BY <2>1, <4>1, <4>2, <4>3 DEF Sent, Unsendable
    <3>2. CASE b \notin old
      <4>1. \A l \in AllLines : calls[b][l] = 0
        BY <3>2 DEF InitFrom, NoLines
      <4> QED
        BY <2>1, <4>1, Typing DEF Sent
    <3> QED
      BY <3>1, <3>2
  <2>3. status[b] # "completed"
    BY DEF InitFrom
  <2> QED
    BY <2>1, <2>2, <2>3 DEF BatchInv, Owned, Placed, Current, Accounts
<1>3. SlotsInv /\ TodoInv
  BY FS_EmptySet DEF InitFrom, SlotsInv, TodoInv
<1> QED
  BY <1>1, <1>2, <1>3 DEF IInv

LEMMA StutterKeeps ==
  ASSUME IInv, UNCHANGED vars
  PROVE  IInv'
<1>1. TypeOK'
  BY DEF IInv, TypeOK, vars, rows, worker, poller, history
<1>2. ASSUME NEW c \in Batches PROVE Same(c)
  BY DEF Same, vars, rows, worker, history
<1>3. SlotsInv' /\ TodoInv'
  BY DEF IInv, SlotsInv, TodoInv, vars, rows, poller
<1> QED
  BY <1>1, <1>2, <1>3, OthersKept DEF IInv

LEMMA NextInv == IInv /\ [Next]_vars => IInv'
<1> SUFFICES ASSUME IInv, [Next]_vars PROVE IInv'
  OBVIOUS
<1>1. CASE Route
  BY <1>1, CreateBatchKeeps, DeleteInputKeeps, CancelKeeps, DeleteBatchKeeps DEF Route
<1>2. CASE PassStep
  BY <1>2, BeginPassKeeps, FetchRemainingKeeps, EndPassKeeps, RefuseRecoveryKeeps, RecoverKeeps,
     DeferKeeps, AcknowledgeCancelKeeps, RejectInputKeeps, StartBatchKeeps DEF PassStep
<1>3. ASSUME NEW b \in Batches, WorkerStep(b) PROVE IInv'
  BY <1>3, ResolveApiKeyKeeps, ApiKeyFailsKeeps, ReuseCheckpointKeeps, GiveUpInterruptedKeeps,
     ThrottleKeeps, SendItemKeeps, SendRefusedKeeps, BackOffKeeps, RetryKeeps, RecordItemKeeps,
     StopCancelledKeeps, CompleteBatchKeeps, EnvironmentAssumption DEF WorkerStep, Recorded
<1>4. CASE AnyCrash
  BY <1>4, CrashKeeps, CrashInStartKeeps, CrashInRecordKeeps, CrashInFinalizeKeeps, EnvironmentAssumption DEF AnyCrash, Recorded
<1> QED
  BY <1>1, <1>2, <1>3, <1>4, StutterKeeps DEF Next

(* The rows, checkpoints, worker and poller of batchProcessor.ts stay in   *)
(* IInv, from which the theorems below follow.                             *)
THEOREM Invariance == Spec => []IInv
<1> QED
  BY InitInv, NextInv, PTL DEF Spec

(* The rows, the checkpoints, the worker and the poller keep their types.  *)
THEOREM TypeCorrect == Spec => []TypeOK
<1>1. IInv => TypeOK
  BY DEF IInv
<1> QED
  BY <1>1, Invariance, PTL

(* For any number of batches, lines, crashes and concurrent workers a line *)
(* that was handed to the provider is handed over again only as a retry of *)
(* the same call, within maxRetries (batchProcessor.ts:82, 450, 478).      *)
THEOREM NothingReplayed == Spec => []SentByOneCall
<1>1. IInv => SentByOneCall
  BY DEF IInv, BatchInv, Sent, SentByOneCall
<1> QED
  BY <1>1, Invariance, PTL

(* Whatever was recovered on the way, a completed batch's files and counts *)
(* account for each of its lines once (finalizeBatch).                     *)
THEOREM CompletedCorrect == Spec => []CompletedAccountsForAll
<1>1. IInv => CompletedAccountsForAll
  BY DEF IInv, BatchInv, Accounts, CompletedAccountsForAll
<1> QED
  BY <1>1, Invariance, PTL

(* BATCH_MAX_CONCURRENT holds, and recovery never meets a running batch.   *)
THEOREM ConcurrencyHeld == Spec => []WithinConcurrency
<1>1. IInv => WithinConcurrency
  BY DEF IInv, BatchInv, Owned, SlotsInv, WithinConcurrency
<1> QED
  BY <1>1, Invariance, PTL

StaysFinal(b) ==
    /\ status[b] \in Terminal =>
           status'[b] \in {status[b], "deleted"} \/ (status[b] = "cancelled" /\ status'[b] = "failed")
    /\ status[b] = "cancelling" => status'[b] \in {"cancelling", "cancelled", "failed"}

(* A terminal batch is never taken up again (failBatch may still turn a    *)
(* cancelled one into a failed one) and a cancelling one never completes.  *)
THEOREM TerminalCorrect == Spec => TerminalIsFinal
<1>1. ASSUME IInv, [Next]_vars, NEW b \in Batches
      PROVE  StaysFinal(b)
  <2> USE <1>1
  <2>a. status \in [Batches -> Statuses] /\ Owned(b) /\ TodoInv
    BY DEF IInv, TypeOK, BatchInv
  <2>1. CASE Route
    BY <2>1, <2>a DEF Route, StaysFinal, CreateBatch, DeleteInput, Cancel, DeleteBatch, SetStatus, Terminal, Pending
  <2>2. CASE PassStep
    BY <2>2, <2>a DEF PassStep, StaysFinal, BeginPass, FetchRemaining, EndPass, RefuseRecovery, Recover, Defer,
       AcknowledgeCancel, RejectInput, StartBatch, TakeSlot, TodoInv, SetStatus, rows, Terminal
  <2>3. ASSUME NEW c \in Batches, WorkerStep(c) PROVE StaysFinal(b)
    <3>1. Owned(c)
      BY DEF IInv, BatchInv
    <3>2. CASE WorkerThrows(c) /\ pc[c] # "none"
      BY <3>1, <3>2, <2>a DEF StaysFinal, Owned, Held, Terminal, WorkerThrows
    <3>3. CASE StopCancelled(c)
      BY <3>3, <2>a DEF StaysFinal, Terminal, StopCancelled
    <3>4. CASE CompleteBatch(c)
      BY <3>1, <3>4, <2>a DEF StaysFinal, Owned, Held, Terminal, CompleteBatch, MayComplete, AtEnd, SetStatus
    <3>5. CASE status' = status
      BY <3>5 DEF StaysFinal
    <3> QED
      BY <2>3, <3>2, <3>3, <3>4, <3>5 DEF WorkerStep, ResolveApiKey, ApiKeyFails, ReuseCheckpoint,
         GiveUpInterrupted, Throttle, SendItem, SendRefused, BackOff, Retry, RecordItem, rows
  <2>4. CASE AnyCrash
    <3>1. ASSUME NEW c \in Batches, CrashInFinalize(c) PROVE StaysFinal(b)
      <4>1. Owned(c)
        BY DEF IInv, BatchInv
      <4> QED
        BY <3>1, <4>1, <2>a DEF CrashInFinalize, MayComplete, AtEnd, Owned, Held, StaysFinal, SetStatus, Terminal
    <3> QED
      BY <2>4, <3>1, <2>a DEF AnyCrash, Crash, CrashInStart, CrashInRecord, StaysFinal, rows
  <2>5. CASE UNCHANGED vars
    BY <2>5 DEF StaysFinal, vars, rows
  <2> QED
    BY <2>1, <2>2, <2>3, <2>4, <2>5 DEF Next
<1>2. IInv /\ [Next]_vars => [\A b \in Batches :
        /\ status[b] \in Terminal =>
               status'[b] \in {status[b], "deleted"} \/ (status[b] = "cancelled" /\ status'[b] = "failed")
        /\ status[b] = "cancelling" => status'[b] \in {"cancelling", "cancelled", "failed"}]_vars
  BY <1>1 DEF StaysFinal
<1> QED
  BY <1>2, Invariance, PTL DEF Spec, TerminalIsFinal
-----------------------------------------------------------------------------
(* Nothing is left in activeBatches by a worker that ended, and no worker  *)
(* runs outside it, through crashes, failures to start and cancellations.  *)
THEOREM ActiveCorrect == Spec => []ActiveIsRunning
<1>1. IInv => ActiveIsRunning
  BY DEF IInv, BatchInv, Owned, Held, TypeOK, ActiveIsRunning
<1> QED
  BY <1>1, Invariance, PTL

-----------------------------------------------------------------------------
(* A line being called is marked as on its way.                            *)
InHand ==
    \A b \in Batches :
       pc[b] \in {"calling", "backoff"} /\ status[b] # "deleted"
          => checkpoint[b][line[b]] = "processing"

Kept(b) ==
    \A l \in AllLines :
       checkpoint[b][l] \in Recorded => checkpoint'[b][l] = checkpoint[b][l]

RecordStep == InHand' /\ \A b \in Batches : Kept(b) \/ DeleteBatch(b)

DeletedStays == \A b \in Batches : status[b] = "deleted" => status'[b] = "deleted"

(* Steps that touch no checkpoint and send nothing.                        *)
LEMMA QuietRecords ==
  ASSUME InHand, checkpoint' = checkpoint, DeletedStays,
         \A b \in Batches : pc'[b] \in {"calling", "backoff"}
                              => pc[b] \in {"calling", "backoff"} /\ line'[b] = line[b]
  PROVE  RecordStep
BY DEF InHand, RecordStep, Kept, DeletedStays

LEMMA RouteRecords ==
  ASSUME IInv, InHand, Route
  PROVE  RecordStep
<1>1. TypeOK
  BY DEF IInv
<1>2. ASSUME NEW b \in Batches, CreateBatch(b) \/ DeleteInput(b) \/ Cancel(b)
      PROVE  RecordStep
  <2>1. DeletedStays
    BY <1>1, <1>2 DEF CreateBatch, DeleteInput, Cancel, SetStatus, DeletedStays, Pending, TypeOK
  <2>2. checkpoint' = checkpoint /\ pc' = pc /\ line' = line
    BY <1>2 DEF CreateBatch, DeleteInput, Cancel, worker
  <2> QED
    BY <2>1, <2>2, QuietRecords
<1>3. ASSUME NEW b \in Batches, DeleteBatch(b)
      PROVE  RecordStep
  <2>1. status'[b] = "deleted" /\ pc' = pc /\ line' = line
    BY <1>1, <1>3 DEF DeleteBatch, SetStatus, TypeOK, worker
  <2>2. ASSUME NEW c \in Batches, c # b
        PROVE  checkpoint'[c] = checkpoint[c] /\ status'[c] = status[c]
    BY <1>1, <1>3, <2>2 DEF DeleteBatch, SetStatus, TypeOK
  <2> QED
    BY <1>3, <2>1, <2>2 DEF RecordStep, InHand, Kept
<1> QED
  BY <1>2, <1>3 DEF Route

LEMMA PassRecords ==
  ASSUME IInv, InHand, PassStep
  PROVE  RecordStep
<1>1. TypeOK /\ TodoInv /\ \A b \in Batches : Owned(b)
  BY DEF IInv, BatchInv
<1>2. ASSUME NEW b \in Batches, StartBatch(b)  PROVE RecordStep
  <2>1. /\ status[b] = "validating" /\ status' = [status EXCEPT ![b] = "in_progress"]
        /\ checkpoint' = [checkpoint EXCEPT ![b] = Ensured(b)]
        /\ pc' = [pc EXCEPT ![b] = "starting"] /\ line' = [line EXCEPT ![b] = 1]
    BY <1>2 DEF StartBatch, TakeSlot, SetStatus
  <2>2. ASSUME NEW c \in Batches  PROVE Kept(c)
    BY <1>1, <2>1 DEF Kept, Ensured, Recorded, TypeOK
  <2>3. InHand'
    BY <1>1, <2>1 DEF InHand, TypeOK
  <2> QED
    BY <2>2, <2>3 DEF RecordStep
<1>3. CASE EndPass
  <2>1. checkpoint' = checkpoint /\ pc' = pc /\ line' = line /\ DeletedStays
    BY <1>1, <1>3 DEF EndPass, worker, DeletedStays, TypeOK
  <2> QED
    BY <2>1, QuietRecords
<1>4. CASE BeginPass \/ FetchRemaining
  <2>1. checkpoint' = checkpoint /\ pc' = pc /\ line' = line /\ DeletedStays
    BY <1>4 DEF BeginPass, FetchRemaining, rows, worker, DeletedStays
  <2> QED
    BY <2>1, QuietRecords
<1>5. ASSUME NEW b \in Batches,
             RefuseRecovery(b) \/ Recover(b) \/ Defer(b) \/ AcknowledgeCancel(b) \/ RejectInput(b)
      PROVE  RecordStep
  <2>1. checkpoint' = checkpoint /\ pc' = pc /\ line' = line
    BY <1>5 DEF RefuseRecovery, Recover, Defer, AcknowledgeCancel, RejectInput, rows, worker
  <2>2. status[b] # "deleted" /\ \A c \in Batches : c # b => status'[c] = status[c]
    BY <1>1, <1>5 DEF RefuseRecovery, Recover, Defer, AcknowledgeCancel, RejectInput, TakeSlot,
       SetStatus, TodoInv, TypeOK, rows
  <2>3. DeletedStays
    BY <2>2 DEF DeletedStays
  <2> QED
    BY <2>1, <2>3, QuietRecords
<1> QED
  BY <1>2, <1>3, <1>4, <1>5 DEF PassStep

(* The mark of one line is written over one that is not a result.          *)
LEMMA MarkKeeps ==
  ASSUME TypeOK, NEW b \in Batches, NEW m \in Marks, line[b] \in AllLines,
         checkpoint' = MarkLine(b, m),
         status[b] # "deleted" => checkpoint[b][line[b]] \notin Recorded
  PROVE  /\ \A c \in Batches : Kept(c)
         /\ \A c \in Batches : c # b => checkpoint'[c] = checkpoint[c]
BY MarkLineTyped DEF MarkLine, Kept, TypeOK

LEMMA WorkerRecords ==
  ASSUME IInv, InHand, NEW b \in Batches, WorkerStep(b)
  PROVE  RecordStep
<1>1. TypeOK /\ Owned(b) /\ Placed(b) /\ Current(b)
  BY DEF IInv, BatchInv
<1>2. ASSUME checkpoint' = checkpoint, \A c \in Batches : c # b => line'[c] = line[c] /\ pc'[c] = pc[c],
             DeletedStays,
             pc'[b] \in {"calling", "backoff"} => pc[b] \in {"calling", "backoff"} /\ line'[b] = line[b]
      PROVE  RecordStep
  BY <1>2, QuietRecords
<1>3. ASSUME WorkerEnds(b), checkpoint' = checkpoint, DeletedStays
      PROVE  RecordStep
  BY <1>1, <1>2, <1>3 DEF WorkerEnds, TypeOK
<1>4. ASSUME NEW m \in Recorded, NEW k, checkpoint' = MarkLine(b, m), NextLine(b, k), status' = status,
             pc[b] # "none", line[b] \in Lines(b),
             status[b] # "deleted" => checkpoint[b][line[b]] \notin Recorded
      PROVE  RecordStep
  <2>1. line[b] \in AllLines /\ m \in Marks
    BY <1>4, Typing DEF Marks
  <2>2. /\ \A c \in Batches : Kept(c)
        /\ \A c \in Batches : c # b => checkpoint'[c] = checkpoint[c]
    BY <1>1, <1>4, <2>1, MarkKeeps
  <2>3. /\ pc'[b] = "next"
        /\ \A c \in Batches : c # b => pc'[c] = pc[c] /\ line'[c] = line[c]
    BY <1>1, <1>4 DEF NextLine, TypeOK
  <2> QED
    BY <1>4, <2>2, <2>3 DEF RecordStep, InHand
<1>5. CASE ResolveApiKey(b) \/ Throttle(b) \/ BackOff(b) \/ Retry(b)
  <2>1. checkpoint' = checkpoint /\ status' = status /\ line' = line
    BY <1>5 DEF ResolveApiKey, Throttle, BackOff, Retry, rows
  <2>2. /\ \A c \in Batches : c # b => pc'[c] = pc[c]
        /\ pc'[b] \in {"calling", "backoff"} => pc[b] \in {"calling", "backoff"}
    BY <1>1, <1>5 DEF ResolveApiKey, Throttle, BackOff, Retry, TypeOK
  <2> QED
    BY <1>2, <2>1, <2>2 DEF DeletedStays
<1>6. CASE ApiKeyFails(b) \/ SendRefused(b)
  <2>1. WorkerEnds(b) /\ checkpoint' = checkpoint /\ DeletedStays
    BY <1>1, <1>6 DEF ApiKeyFails, SendRefused, WorkerThrows, DeletedStays, TypeOK
  <2> QED
    BY <1>3, <2>1
<1>7. CASE StopCancelled(b) \/ CompleteBatch(b)
  <2>1. WorkerEnds(b) /\ checkpoint' = checkpoint
    BY <1>7 DEF StopCancelled, CompleteBatch
  <2>2. DeletedStays
    BY <1>1, <1>7 DEF StopCancelled, CompleteBatch, MayComplete, SetStatus, DeletedStays, TypeOK
  <2> QED
    BY <1>3, <2>1, <2>2
<1>8. CASE ReuseCheckpoint(b)
  <2>1. checkpoint' = checkpoint /\ status' = status /\ NextLine(b, known[b])
    BY <1>8 DEF ReuseCheckpoint
  <2>2. /\ pc'[b] = "next"
        /\ \A c \in Batches : c # b => pc'[c] = pc[c] /\ line'[c] = line[c]
    BY <1>1, <2>1 DEF NextLine, TypeOK
  <2> QED
    BY <1>2, <2>1, <2>2 DEF DeletedStays
<1>9. CASE GiveUpInterrupted(b)
  <2>1. /\ checkpoint' = MarkLine(b, "errored") /\ status' = status /\ pc[b] = "next"
        /\ NextLine(b, [known[b] EXCEPT ![line[b]] = "errored"])
        /\ known[b][line[b]] = "processing" /\ line[b] <= Size[b]
    BY <1>9 DEF GiveUpInterrupted, AtItem
  <2>2. line[b] \in Lines(b)
    BY <1>1, <2>1 DEF Placed, Lines
  <2>3. status[b] # "deleted" => checkpoint[b][line[b]] \notin Recorded
    BY <1>1, <2>1, <2>2 DEF Current, Recorded
  <2>4. "errored" \in Recorded
    BY DEF Recorded
  <2> QED
    BY <1>4, <2>1, <2>2, <2>3, <2>4
<1>10. CASE SendItem(b)
  <2>1. /\ checkpoint' = [checkpoint EXCEPT ![b][line[b]] = "processing"]
        /\ pc' = [pc EXCEPT ![b] = "calling"] /\ status' = status /\ line' = line
        /\ status[b] # "deleted"
    BY <1>10 DEF SendItem
  <2>2. line[b] \in Lines(b) /\ known[b][line[b]] \in Unstarted /\ pc[b] \in {"throttled", "next"}
    BY <1>1, <1>10 DEF SendItem, ReadyToSend, AtItem, IsFresh, Placed, Lines
  <2>3. checkpoint[b][line[b]] \notin Recorded
    BY <1>1, <2>1, <2>2 DEF Current, Recorded, Unstarted
  <2>4. line[b] \in AllLines
    BY <2>2, Typing
  <2>5. ASSUME NEW c \in Batches  PROVE Kept(c)
    BY <1>1, <2>1, <2>3 DEF Kept, TypeOK
  <2>6. checkpoint'[b][line[b]] = "processing"
        /\ \A c \in Batches : c # b => checkpoint'[c] = checkpoint[c] /\ pc'[c] = pc[c]
    BY <1>1, <2>1, <2>4 DEF TypeOK
  <2>7. InHand'
    BY <2>1, <2>6 DEF InHand
  <2> QED
    BY <2>5, <2>7 DEF RecordStep
<1>11. ASSUME NEW m \in Recorded, RecordItem(b, m)  PROVE RecordStep
  <2>1. /\ checkpoint' = MarkLine(b, m) /\ status' = status /\ pc[b] = "calling"
        /\ NextLine(b, [known[b] EXCEPT ![line[b]] = m])
    BY <1>11 DEF RecordItem
  <2>2. line[b] \in Lines(b)
    BY <1>1, <2>1 DEF Placed
  <2>3. status[b] # "deleted" => checkpoint[b][line[b]] \notin Recorded
    BY <2>1 DEF InHand, Recorded
  <2> QED
    BY <1>4, <2>1, <2>2, <2>3
<1> QED
  BY <1>5, <1>6, <1>7, <1>8, <1>9, <1>10, <1>11, EnvironmentAssumption DEF WorkerStep, Recorded

LEMMA CrashRecords ==
  ASSUME IInv, InHand, AnyCrash
  PROVE  RecordStep
<1>1. TypeOK
  BY DEF IInv
<1>2. ProcessDies
  BY DEF AnyCrash, Crash, CrashInStart, CrashInRecord, CrashInFinalize
<1>3. InHand'
  BY <1>2 DEF ProcessDies, InHand
<1>4. CASE checkpoint' = checkpoint
  BY <1>3, <1>4 DEF RecordStep, Kept
<1>5. ASSUME NEW b \in Batches, CrashInStart(b)  PROVE \A c \in Batches : Kept(c)
  <2>1. checkpoint' = checkpoint \/ checkpoint' = [checkpoint EXCEPT ![b] = Ensured(b)]
    BY <1>5 DEF CrashInStart
  <2>2. \A l \in AllLines : checkpoint[b][l] \in Recorded => Ensured(b)[l] = checkpoint[b][l]
    BY DEF Ensured, Recorded
  <2>3. CASE checkpoint' = [checkpoint EXCEPT ![b] = Ensured(b)]
    <3>1. \A c \in Batches : checkpoint'[c] = IF c = b THEN Ensured(b) ELSE checkpoint[c]
      BY <1>1, <2>3 DEF TypeOK
    <3> QED
      BY <2>2, <3>1 DEF Kept
  <2> QED
    BY <2>1, <2>3 DEF Kept
<1>6. ASSUME NEW b \in Batches, NEW m \in Recorded, CrashInRecord(b, m)
      PROVE  \A c \in Batches : Kept(c)
  <2>1. checkpoint' = MarkLine(b, m) /\ pc[b] = "calling"
    BY <1>6 DEF CrashInRecord
  <2>2. line[b] \in Lines(b)
    BY <2>1 DEF IInv, BatchInv, Placed
  <2>3. line[b] \in AllLines /\ m \in Marks
    BY <2>2, Typing DEF Marks
  <2>4. status[b] # "deleted" => checkpoint[b][line[b]] \notin Recorded
    BY <2>1 DEF InHand, Recorded
  <2> QED
    BY <1>1, <2>1, <2>3, <2>4, MarkKeeps
<1>7. ASSUME NEW b \in Batches, CrashInFinalize(b)  PROVE checkpoint' = checkpoint
  BY <1>7 DEF CrashInFinalize
<1>8. Crash => checkpoint' = checkpoint
  BY DEF Crash, rows
<1> QED
  BY <1>3, <1>4, <1>5, <1>6, <1>7, <1>8, EnvironmentAssumption DEF AnyCrash, Recorded, RecordStep

LEMMA NextRecords ==
  ASSUME IInv, InHand, Next
  PROVE  RecordStep
BY RouteRecords, PassRecords, WorkerRecords, CrashRecords DEF Next

(* A recorded result survives retries, crashes, recoveries, cancellation   *)
(* and a second pass of a worker over the same lines.  It holds because    *)
(* the line a worker has in hand is marked as on its way until its answer  *)
(* is recorded (InHand), and a recovered worker skips what is recorded.    *)
THEOREM RecordsKept == Spec => RecordsAreFinal
<1>1. Init => InHand
  BY DEF Init, InitFrom, InHand
<1>2. IInv /\ InHand /\ [Next]_vars => InHand'
  <2>1. ASSUME InHand, UNCHANGED vars  PROVE InHand'
    BY <2>1 DEF InHand, vars, rows, worker
  <2> QED
    BY <2>1, NextRecords DEF RecordStep
<1>3. IInv /\ InHand /\ [Next]_vars =>
         [\A b \in Batches, l \in AllLines :
             checkpoint[b][l] \in Recorded =>
                checkpoint'[b][l] = checkpoint[b][l] \/ status'[b] = "deleted"]_vars
  <2>1. \A b \in Batches : IInv /\ DeleteBatch(b) => status'[b] = "deleted"
    BY DEF IInv, TypeOK, DeleteBatch, SetStatus
  <2> QED
    BY <2>1, NextRecords DEF RecordStep, Kept
<1> QED
  BY <1>1, <1>2, <1>3, Invariance, PTL DEF Spec, RecordsAreFinal

-----------------------------------------------------------------------------
(* The lines a crash would find succeeded.                                 *)
Succeeded(b) == {l \in Lines(b) : checkpoint[b][l] = "succeeded"}

(* The counts of a batch, against its checkpoints and its input.           *)
Follows(b) ==
    /\ counts[b].completed <= Cardinality(Succeeded(b))
    /\ counts[b].completed + counts[b].failed <= counts[b].total
    /\ counts[b].total <= Size[b]
    /\ input[b] = "invalid" => pc[b] = "none" /\ counts[b].completed = 0

(* A batch whose counts the step does not touch.                           *)
SameCounts(b) ==
    /\ counts'[b] = counts[b]
    /\ input'[b] \in {input[b], "gone"}
    /\ pc[b] = "none" => pc'[b] = "none" \/ input'[b] = "valid"

LEMMA SucceededFinite ==
  ASSUME NEW b \in Batches
  PROVE  IsFiniteSet(Succeeded(b)) /\ IsFiniteSet(Succeeded(b)')
<1>1. IsFiniteSet(Lines(b))
  BY Typing, FS_Interval DEF Lines
<1>2. Succeeded(b) \subseteq Lines(b) /\ Succeeded(b)' \subseteq Lines(b)
  BY DEF Succeeded
<1> QED
  BY <1>1, <1>2, FS_Subset

LEMMA SucceededGrow ==
  ASSUME TypeOK, TypeOK', NEW b \in Batches, Kept(b)
  PROVE  /\ Cardinality(Succeeded(b)) \in Nat /\ Cardinality(Succeeded(b)') \in Nat
         /\ Cardinality(Succeeded(b)) <= Cardinality(Succeeded(b)')
<1>1. Succeeded(b) \subseteq Succeeded(b)'
  BY Typing DEF Kept, Succeeded, Recorded
<1> QED
  BY <1>1, SucceededFinite, FS_Subset, FS_CardinalityType

LEMMA QuietCounts ==
  ASSUME TypeOK, TypeOK', NEW b \in Batches, Follows(b), Kept(b), SameCounts(b)
  PROVE  Follows(b)'
<1>1. Cardinality(Succeeded(b)) \in Nat /\ Cardinality(Succeeded(b)') \in Nat
  BY SucceededGrow
<1>2. Cardinality(Succeeded(b)) <= Cardinality(Succeeded(b)')
  BY SucceededGrow
<1>3. counts[b].completed \in Nat
  BY DEF TypeOK
<1>4. counts'[b].completed <= Cardinality(Succeeded(b)')
  BY <1>1, <1>2, <1>3 DEF Follows, SameCounts
<1>5. input'[b] = "invalid" => pc'[b] = "none" /\ counts'[b].completed = 0
  BY DEF Follows, SameCounts
<1> QED
  BY <1>4, <1>5 DEF Follows, SameCounts

(* What a worker counts up to a line is no more than the lines there are.  *)
LEMMA CountedLines ==
  ASSUME NEW n \in Nat, NEW k
  PROVE  /\ Cardinality(Good(k, n)) \in Nat /\ Cardinality(Bad(k, n)) \in Nat
         /\ Cardinality(Good(k, n)) + Cardinality(Bad(k, n)) <= n
<1> DEFINE G == Good(k, n)
           B == Bad(k, n)
<1>1. IsFiniteSet(1..n) /\ Cardinality(1..n) = n
  BY FS_Interval
<1>2. G \subseteq 1..n /\ B \subseteq 1..n /\ G \cap B = {}
  BY DEF Good, Bad
<1> HIDE DEF G, B
<1>3. IsFiniteSet(G) /\ IsFiniteSet(B) /\ G \cup B \subseteq 1..n
  BY <1>1, <1>2, FS_Subset
<1>4. Cardinality(G) \in Nat /\ Cardinality(B) \in Nat
  BY <1>3, FS_CardinalityType
<1>5. Cardinality(G \cup B) = Cardinality(G) + Cardinality(B) - Cardinality(G \cap B)
  BY <1>3, FS_Union
<1>6. Cardinality(G \cap B) = 0
  BY <1>2, FS_EmptySet
<1>7. Cardinality(G \cup B) <= n
  BY <1>1, <1>3, FS_Subset
<1>8. Cardinality(G) + Cardinality(B) <= n
  BY <1>4, <1>5, <1>6, <1>7
<1> USE DEF G, B
<1> QED
  BY <1>4, <1>8

(* The counts written after a line are those of the checkpoints.           *)
LEMMA NextLineCounts ==
  ASSUME IInv, IInv', NEW b \in Batches, Follows(b), Kept(b), NEW k \in [AllLines -> Marks],
         pc[b] # "none", line[b] \in Lines(b), NextLine(b, k), status' = status, input' = input
  PROVE  Follows(b)'
<1> DEFINE x == Cardinality(Good(k, line[b]))
           y == Cardinality(Bad(k, line[b]))
<1>1. TypeOK /\ TypeOK' /\ line[b] \in Nat /\ line[b] <= Size[b]
  BY Typing DEF IInv, Lines
<1>2. CASE status[b] = "deleted"
  <2>1. SameCounts(b)
    BY <1>2 DEF NextLine, Progress, SameCounts
  <2> QED
    BY <1>1, <2>1, QuietCounts
<1>3. CASE status[b] # "deleted"
  <2>1. /\ known'[b] = k /\ pc'[b] = "next" /\ line'[b] = line[b] + 1 /\ status'[b] # "deleted"
    BY <1>1, <1>3 DEF NextLine, TypeOK
  <2>2. \A l \in Lines(b) : checkpoint'[b][l] = k[l]
    BY <2>1 DEF IInv, BatchInv, Current
  <2>3. Good(k, line[b]) \subseteq Succeeded(b)'
    BY <1>1, <2>2, Typing DEF Good, Succeeded, Lines
  <2>4. IsFiniteSet(Succeeded(b)')
    BY SucceededFinite
  <2>5. x <= Cardinality(Succeeded(b)')
    BY <2>3, <2>4, FS_Subset
  <2>6. x \in Nat /\ y \in Nat /\ x + y <= line[b]
    BY <1>1, CountedLines
  <2>7. counts' = [counts EXCEPT ![b].completed = x, ![b].failed = y]
    BY <1>3 DEF NextLine, Progress
  <2>8. counts[b].total = Size[b] /\ Size[b] \in Nat
    BY <1>3, Typing DEF IInv, BatchInv, Current
  <2>9. counts \in [Batches -> Tally]
    BY <1>1 DEF TypeOK, Tally
  <2> HIDE DEF x, y
  <2>10. counts'[b].completed = x /\ counts'[b].failed = y /\ counts'[b].total = Size[b]
    BY <2>6, <2>7, <2>8, <2>9 DEF Tally
  <2>11. input[b] # "invalid"
    BY DEF Follows
  <2> QED
    BY <1>1, <2>5, <2>6, <2>8, <2>10, <2>11 DEF Follows
<1> QED
  BY <1>2, <1>3

(* A batch completed counts what its checkpoints say.                      *)
LEMMA FinalCountsFollow ==
  ASSUME IInv, IInv', NEW b \in Batches, Follows(b), MayComplete(b),
         counts'[b] = FinalCounts(b), checkpoint' = checkpoint, input' = input
  PROVE  Follows(b)'
<1>1. TypeOK /\ BatchInv(b) /\ pc[b] # "none"
  BY DEF IInv, MayComplete, AtEnd
<1>2. /\ Good(known[b], line[b] - 1) = Succeeded(b)
      /\ FinalCounts(b).total = Size[b]
      /\ FinalCounts(b).completed = Cardinality(Good(known[b], line[b] - 1))
      /\ FinalCounts(b).completed + FinalCounts(b).failed = Size[b]
  BY <1>1, ResultsOfAll DEF BatchInv, Succeeded
<1>3. Succeeded(b)' = Succeeded(b)
  BY DEF Succeeded
<1>4. Cardinality(Succeeded(b)) \in Nat
  BY <1>1, SucceededGrow DEF Kept, IInv
<1>5. counts'[b].completed = Cardinality(Succeeded(b)') /\ input'[b] # "invalid"
  BY <1>1, <1>2, <1>3 DEF Follows
<1> QED
  BY <1>2, <1>3, <1>4, <1>5, Typing DEF Follows

LEMMA DeleteCounts ==
  ASSUME IInv, NEW c \in Batches, DeleteBatch(c)
  PROVE  Follows(c)'
<1>1. counts'[c] = [total |-> 0, completed |-> 0, failed |-> 0] /\ input'[c] = "gone"
  BY DEF IInv, TypeOK, DeleteBatch
<1>2. Cardinality(Succeeded(c)') \in Nat
  BY SucceededFinite, FS_CardinalityType
<1> QED
  BY <1>1, <1>2, Typing DEF Follows

LEMMA RouteCounts ==
  ASSUME IInv, IInv', Route, NEW c \in Batches, Follows(c), Kept(c), ~DeleteBatch(c)
  PROVE  Follows(c)'
<1>1. TypeOK /\ TypeOK'
  BY DEF IInv
<1>2. SameCounts(c)
  BY <1>1 DEF Route, CreateBatch, DeleteInput, Cancel, DeleteBatch, SameCounts, TypeOK, worker
<1> QED
  BY <1>1, <1>2, QuietCounts

LEMMA PassCounts ==
  ASSUME IInv, IInv', PassStep, NEW c \in Batches, Follows(c), Kept(c)
  PROVE  Follows(c)'
<1>1. TypeOK /\ TypeOK' /\ Size[c] \in Nat
  BY Typing DEF IInv
<1>2. Cardinality(Succeeded(c)) \in Nat /\ Cardinality(Succeeded(c)') \in Nat
      /\ Cardinality(Succeeded(c)) <= Cardinality(Succeeded(c)')
  BY <1>1, SucceededGrow
<1>3. counts[c] \in Tally /\ counts \in [Batches -> Tally]
  BY <1>1 DEF TypeOK, Tally
<1>4. ASSUME SameCounts(c)  PROVE Follows(c)'
  BY <1>1, <1>4, QuietCounts
<1>5. ASSUME NEW b \in Batches, StartBatch(b)  PROVE Follows(c)'
  <2>1. /\ counts' = [counts EXCEPT ![b].total = Size[b]] /\ input' = input
        /\ input[b] = "valid" /\ pc' = [pc EXCEPT ![b] = "starting"]
    BY <1>5 DEF StartBatch
  <2>2. CASE c # b
    <3>1. SameCounts(c)
      BY <1>1, <1>3, <2>1, <2>2 DEF SameCounts, TypeOK
    <3> QED
      BY <1>4, <3>1
  <2>3. CASE c = b
    <3>1. counts'[c].completed = counts[c].completed /\ counts'[c].failed = counts[c].failed
          /\ counts'[c].total = Size[c]
      BY <1>3, <2>1, <2>3 DEF Tally
    <3> QED
      BY <1>1, <1>2, <1>3, <2>1, <2>3, <3>1 DEF Follows, Tally
  <2> QED
    BY <2>2, <2>3
<1>6. ASSUME NEW b \in Batches, Recover(b)  PROVE Follows(c)'
  <2>1. /\ input' = input /\ pc' = pc
        /\ counts' = counts \/ counts' = [counts EXCEPT ![b].completed = 0, ![b].failed = 0]
    BY <1>6 DEF Recover, worker
  <2>2. CASE counts'[c] = counts[c]
    BY <1>4, <2>1, <2>2 DEF SameCounts
  <2>3. CASE c = b /\ counts' = [counts EXCEPT ![b].completed = 0, ![b].failed = 0]
    <3>1. counts'[c].completed = 0 /\ counts'[c].failed = 0 /\ counts'[c].total = counts[c].total
      BY <1>3, <2>3 DEF Tally
    <3> QED
      BY <1>1, <1>2, <1>3, <2>1, <3>1 DEF Follows, Tally
  <2> QED
    BY <1>3, <2>1, <2>2, <2>3
<1>7. ASSUME NEW b \in Batches, RejectInput(b)  PROVE Follows(c)'
  <2>1. counts' = RejectedCounts(b) /\ input' = input /\ pc' = pc /\ input[b] # "valid"
    BY <1>7 DEF RejectInput, worker
  <2>2. CASE counts'[c] = counts[c]
    BY <1>4, <2>1, <2>2 DEF SameCounts
  <2>3. CASE c = b /\ input[b] = "invalid"
    <3>1. counts' = [counts EXCEPT ![b].total = Size[b], ![b].failed = Size[b]]
      BY <2>1, <2>3 DEF RejectedCounts
    <3>2. counts'[c].completed = counts[c].completed /\ counts'[c].failed = Size[c]
          /\ counts'[c].total = Size[c]
      BY <1>3, <2>3, <3>1 DEF Tally
    <3> QED
      BY <1>1, <1>2, <1>3, <2>1, <2>3, <3>2 DEF Follows, Tally
  <2>4. c # b \/ input[b] = "gone" => counts'[c] = counts[c]
    BY <1>1, <1>3, <2>1 DEF RejectedCounts
  <2> QED
    BY <1>1, <2>1, <2>2, <2>3, <2>4 DEF TypeOK
<1>8. CASE BeginPass \/ FetchRemaining \/ EndPass
  <2>1. SameCounts(c)
    BY <1>8 DEF BeginPass, FetchRemaining, EndPass, SameCounts, rows, worker
  <2> QED
    BY <1>4, <2>1
<1>9. ASSUME NEW b \in Batches, RefuseRecovery(b) \/ Defer(b) \/ AcknowledgeCancel(b)  PROVE Follows(c)'
  <2>1. SameCounts(c)
    BY <1>9 DEF RefuseRecovery, Defer, AcknowledgeCancel, SameCounts, rows, worker
  <2> QED
    BY <1>4, <2>1
<1> QED
  BY <1>5, <1>6, <1>7, <1>8, <1>9 DEF PassStep

(* A worker has its own counts only.                                       *)
LEMMA WorkerCounts ==
  ASSUME IInv, IInv', NEW b \in Batches, WorkerStep(b), NEW c \in Batches, Follows(c), Kept(c)
  PROVE  Follows(c)'
<1>1. TypeOK /\ TypeOK' /\ BatchInv(b)
  BY DEF IInv
<1>2. ASSUME SameCounts(c)  PROVE Follows(c)'
  BY <1>1, <1>2, QuietCounts
<1>3. ASSUME NEW k \in [AllLines -> Marks], NextLine(b, k), pc[b] # "none", line[b] \in Lines(b),
             status' = status, input' = input
      PROVE  Follows(c)'
  <2>1. CASE c = b
    BY <1>3, <2>1, NextLineCounts
  <2>2. CASE c # b
    <3>1. counts'[c] = counts[c] /\ pc'[c] = pc[c]
      BY <1>1, <1>3, <2>2, ProgressTyped DEF NextLine, TypeOK
    <3> QED
      BY <1>2, <1>3, <3>1 DEF SameCounts
  <2> QED
    BY <2>1, <2>2
<1>4. CASE ReuseCheckpoint(b)
  <2>1. NextLine(b, known[b]) /\ pc[b] # "none" /\ status' = status /\ input' = input /\ line[b] <= Size[b]
    BY <1>4 DEF ReuseCheckpoint, AtItem
  <2>2. line[b] \in Lines(b) /\ known[b] \in [AllLines -> Marks]
    BY <1>1, <2>1 DEF BatchInv, Placed, Lines, TypeOK
  <2> QED
    BY <1>3, <2>1, <2>2
<1>5. CASE GiveUpInterrupted(b)
  <2>1. /\ NextLine(b, [known[b] EXCEPT ![line[b]] = "errored"])
        /\ pc[b] # "none" /\ status' = status /\ input' = input /\ line[b] <= Size[b]
    BY <1>5 DEF GiveUpInterrupted, AtItem
  <2>2. line[b] \in Lines(b)
    BY <1>1, <2>1 DEF BatchInv, Placed, Lines, TypeOK
  <2>3. [known[b] EXCEPT ![line[b]] = "errored"] \in [AllLines -> Marks]
    BY <1>1 DEF TypeOK, Marks, Recorded
  <2> QED
    BY <1>3, <2>1, <2>2, <2>3
<1>6. ASSUME NEW m \in Recorded, RecordItem(b, m)  PROVE Follows(c)'
  <2>1. /\ NextLine(b, [known[b] EXCEPT ![line[b]] = m])
        /\ pc[b] = "calling" /\ status' = status /\ input' = input
    BY <1>6 DEF RecordItem
  <2>2. line[b] \in Lines(b) /\ [known[b] EXCEPT ![line[b]] = m] \in [AllLines -> Marks]
    BY <1>1, <2>1 DEF BatchInv, Placed, TypeOK, Marks
  <2> QED
    BY <1>3, <2>1, <2>2
<1>7. CASE CompleteBatch(b)
  <2>1. /\ MayComplete(b) /\ counts' = [counts EXCEPT ![b] = FinalCounts(b)]
        /\ checkpoint' = checkpoint /\ input' = input /\ pc' = [pc EXCEPT ![b] = "none"]
    BY <1>7 DEF CompleteBatch, WorkerEnds
  <2>2. CASE c = b
    BY <1>1, <2>1, <2>2, FinalCountsFollow DEF TypeOK
  <2>3. CASE c # b
    BY <1>1, <1>2, <2>1, <2>3 DEF SameCounts, TypeOK
  <2> QED
    BY <2>2, <2>3
<1>8. CASE ApiKeyFails(b) \/ SendRefused(b) \/ StopCancelled(b)
  <2>1. counts' = counts /\ input' = input /\ pc' = [pc EXCEPT ![b] = "none"]
    BY <1>8 DEF ApiKeyFails, SendRefused, StopCancelled, WorkerThrows, WorkerEnds
  <2> QED
    BY <1>1, <1>2, <2>1 DEF SameCounts, TypeOK
<1>9. CASE ResolveApiKey(b) \/ Throttle(b) \/ SendItem(b) \/ BackOff(b) \/ Retry(b)
  <2>1. counts' = counts /\ input' = input /\ pc[b] # "none" /\ \A d \in Batches : d # b => pc'[d] = pc[d]
    BY <1>1, <1>9 DEF ResolveApiKey, Throttle, SendItem, ReadyToSend, BackOff, Retry, AtItem, rows, TypeOK
  <2> QED
    BY <1>2, <2>1 DEF SameCounts
<1> QED
  BY <1>4, <1>5, <1>6, <1>7, <1>8, <1>9, EnvironmentAssumption DEF WorkerStep, Recorded

LEMMA CrashCounts ==
  ASSUME IInv, IInv', AnyCrash, NEW c \in Batches, Follows(c), Kept(c)
  PROVE  Follows(c)'
<1>1. TypeOK /\ TypeOK' /\ Size[c] \in Nat /\ counts \in [Batches -> Tally] /\ counts[c] \in Tally
  BY Typing DEF IInv, TypeOK, Tally
<1>2. pc'[c] = "none" /\ input' = input
  BY DEF AnyCrash, Crash, CrashInStart, CrashInRecord, CrashInFinalize, ProcessDies, rows
<1>3. CASE counts'[c] = counts[c]
  BY <1>1, <1>2, <1>3, QuietCounts DEF SameCounts
<1>4. Crash => counts' = counts
  BY DEF Crash, rows
<1>5. ASSUME NEW b \in Batches, NEW m \in Recorded, CrashInRecord(b, m)  PROVE counts' = counts
  BY <1>5 DEF CrashInRecord
<1>6. ASSUME NEW b \in Batches, CrashInStart(b)  PROVE Follows(c)'
  <2>1. CASE input[b] = "invalid" /\ counts' = RejectedCounts(b) /\ c = b
    <3>1. counts' = [counts EXCEPT ![b].total = Size[b], ![b].failed = Size[b]]
      BY <2>1 DEF RejectedCounts
    <3>2. counts'[c].completed = counts[c].completed /\ counts'[c].failed = Size[c]
          /\ counts'[c].total = Size[c]
      BY <1>1, <2>1, <3>1 DEF Tally
    <3>3. Cardinality(Succeeded(c)') \in Nat
      BY SucceededFinite, FS_CardinalityType
    <3> QED
      BY <1>1, <1>2, <2>1, <3>2, <3>3 DEF Follows, Tally
  <2>2. counts' = counts \/ (input[b] = "invalid" /\ counts' = RejectedCounts(b))
    BY <1>6 DEF CrashInStart
  <2>3. c # b /\ counts' = RejectedCounts(b) => counts'[c] = counts[c]
    BY <1>1 DEF RejectedCounts
  <2> QED
    BY <1>3, <2>1, <2>2, <2>3
<1>7. ASSUME NEW b \in Batches, CrashInFinalize(b)  PROVE Follows(c)'
  <2>1. /\ MayComplete(b) /\ checkpoint' = checkpoint
        /\ counts' \in {counts, [counts EXCEPT ![b] = FinalCounts(b)]}
    BY <1>7 DEF CrashInFinalize
  <2>2. CASE c = b /\ counts' = [counts EXCEPT ![b] = FinalCounts(b)]
    <3>1. counts'[c] = FinalCounts(c)
      BY <1>1, <2>2
    <3> QED
      BY <1>2, <2>1, <2>2, <3>1, FinalCountsFollow
  <2> QED
    BY <1>1, <1>3, <2>1, <2>2
<1> QED
  BY <1>3, <1>4, <1>5, <1>6, <1>7, EnvironmentAssumption DEF AnyCrash, Recorded

(* However often a batch is stopped, recovered or cancelled, its client is *)
(* never told of more results than a crash would find.  It holds because a *)
(* worker writes a line's checkpoint before the row's counts, counts only  *)
(* the lines behind it, and takes what it counts from checkpoints it has   *)
(* read (Current) or written.                                              *)
THEOREM CountsCorrect == Spec => []CountsFollowRecords
<1> DEFINE All == InHand /\ \A b \in Batches : Follows(b)
<1>1. Init => All
  <2>1. ASSUME Init, NEW b \in Batches  PROVE Follows(b)
    <3>1. /\ counts[b].completed = 0 /\ counts[b].failed = 0 /\ counts[b].total \in {0, Size[b]}
          /\ pc[b] = "none"
      BY <2>1 DEF Init, InitFrom
    <3>2. Cardinality(Succeeded(b)) \in Nat
      BY SucceededFinite, FS_CardinalityType
    <3> QED
      BY <3>1, <3>2, Typing DEF Follows
  <2> QED
    BY <2>1 DEF Init, InitFrom, InHand
<1>2. IInv /\ IInv' /\ All /\ [Next]_vars => All'
  <2> SUFFICES ASSUME IInv, IInv', All, [Next]_vars  PROVE All'
    OBVIOUS
  <2>1. CASE Next
    <3>1. RecordStep
      BY <2>1, NextRecords
    <3>2. ASSUME NEW c \in Batches  PROVE Follows(c)'
      <4>1. Follows(c) /\ (Kept(c) \/ DeleteBatch(c))
        BY <3>1 DEF RecordStep
      <4>2. CASE DeleteBatch(c)
        BY <4>2, DeleteCounts
      <4>3. CASE Kept(c) /\ ~DeleteBatch(c)
        BY <2>1, <4>1, <4>3, RouteCounts, PassCounts, WorkerCounts, CrashCounts DEF Next
      <4> QED
        BY <4>1, <4>2, <4>3
    <3> QED
      BY <3>1, <3>2 DEF RecordStep
  <2>2. CASE UNCHANGED vars
    BY <2>2 DEF InHand, Follows, Succeeded, vars, rows, worker
  <2> QED
    BY <2>1, <2>2
<1>3. IInv /\ All => CountsFollowRecords
  BY DEF CountsFollowRecords, Follows, Succeeded
<1> HIDE DEF All
<1> QED
  BY <1>1, <1>2, <1>3, Invariance, PTL DEF Spec
=============================================================================
