-------------------------- MODULE WritebackProofs --------------------------
(***************************************************************************)
(* The counters of Writeback and what it does to the shop's texts, for any *)
(* number of batches, candidates, attempts and faults.                     *)
(***************************************************************************)
EXTENDS Writeback, FiniteSetTheorems, TLAPS

Steps == {"absent", "waiting", "over"} \cup Busy
Jobs == [Batches -> [Candidates -> JobRows]]

\* The one job that an action moves is at one of these steps after it.
Moves(b, c, S) ==
  /\ job' \in Jobs
  /\ job'[b][c].step \in S
  /\ \A a \in Batches, d \in Candidates : a # b \/ d # c => job'[a][d] = job[a][d]

\* A job that goes on to another step goes nowhere else.
LEMMA JobGoesOn ==
  ASSUME job \in Jobs, NEW b \in Batches, NEW c \in Candidates, NEW s \in Steps, To(b, c, s)
  PROVE  Moves(b, c, {s})
<1>1. job[b][c] \in JobRows
  BY DEF Jobs
<1>2. PICK r \in JobRows : r = [job[b][c] EXCEPT !.step = s] /\ r.step = s
  <2> DEFINE r == [step |-> s, verdict |-> job[b][c].verdict, tries |-> job[b][c].tries,
                   stalled |-> job[b][c].stalled, last |-> job[b][c].last]
  <2>1. r \in JobRows /\ r.step = s
    BY <1>1 DEF JobRows, Steps
  <2>2. r = [job[b][c] EXCEPT !.step = s]
    BY <1>1 DEF JobRows
  <2>3. QED
    BY <2>1, <2>2
<1>3. job' = [job EXCEPT ![b] = [job[b] EXCEPT ![c] = r]]
  BY <1>2 DEF To
<1>4. QED
  BY <1>2, <1>3 DEF Jobs, Moves

\* A job that is over keeps nothing, and touches no other.
LEMMA JobIsOver ==
  ASSUME job \in Jobs, NEW b \in Batches, NEW c \in Candidates, Ends(b, c)
  PROVE  Moves(b, c, {"over"})
<1>1. Over \in JobRows /\ Over.step = "over"
  BY DEF JobRows, Over
<1>2. job' = [job EXCEPT ![b] = [job[b] EXCEPT ![c] = Over]]
  BY DEF Ends
<1>3. QED
  BY <1>1, <1>2 DEF Jobs, Moves

\* An exception or a crash leaves a job to be tried again, failed or over.
LEMMA JobIsDisturbed ==
  ASSUME job \in Jobs, NEW b \in Batches, NEW c \in Candidates, WritebackAssumption,
         JobThrows(b, c) \/ JobCrashes(b, c)
  PROVE  Moves(b, c, {"waiting", "failing", "over"})
<1>1. job[b][c] \in JobRows
  BY DEF Jobs
<1>2. CASE Ends(b, c)
  BY <1>2, JobIsOver DEF Moves
<1>3. ASSUME NEW r \in JobRows, r.step \in {"waiting", "failing"},
             job' = [job EXCEPT ![b] = [job[b] EXCEPT ![c] = r]]
      PROVE  Moves(b, c, {"waiting", "failing", "over"})
  BY <1>3 DEF Jobs, Moves
<1>4. CASE JobThrows(b, c) /\ ~Ends(b, c)
  <2>1. /\ Retried(job[b][c]) \in JobRows
        /\ Retried(job[b][c]).step \in {"waiting", "failing"}
    BY <1>1 DEF JobRows, Busy, Retried
  <2>2. job' = [job EXCEPT ![b] = [job[b] EXCEPT ![c] = Retried(job[b][c])]]
    BY <1>4 DEF JobThrows, Jobs
  <2>3. QED
    BY <1>3, <2>1, <2>2
<1>5. CASE JobCrashes(b, c) /\ ~Ends(b, c)
  <2>1. /\ Redelivered(job[b][c]) \in JobRows
        /\ Redelivered(job[b][c]).step = "waiting"
    BY <1>1 DEF JobRows, Redelivered
  <2>2. job' = [job EXCEPT ![b] = [job[b] EXCEPT ![c] = Redelivered(job[b][c])]]
    BY <1>5 DEF JobCrashes, Jobs
  <2>3. QED
    BY <1>3, <2>1, <2>2
<1>6. QED
  BY <1>2, <1>4, <1>5 DEF Moves

\* A batch that is read as complete is closed by the job that read it.
LEMMA JobReads ==
  ASSUME TypeOK, NEW b \in Batches, NEW c \in Candidates, ReadBatch(b, c)
  PROVE  /\ Moves(b, c, {"closing", "over"})
         /\ job'[b][c].step = "closing" => job'[b][c].verdict \in Final
<1>1. job \in Jobs /\ job[b][c] \in JobRows /\ batch[b] \in BatchRows
  BY DEF TypeOK, Jobs
<1>2. CASE Ends(b, c)
  BY <1>1, <1>2, JobIsOver DEF Moves
<1>3. CASE ~Ends(b, c)
  <2> DEFINE r == Closing(job[b][c], FinalStatus(batch[b]))
  <2>1. FinalStatus(batch[b]) \in Final
    BY <1>1 DEF BatchRows, FinalStatus, Final
  <2>2. r \in JobRows /\ r.step = "closing" /\ r.verdict \in Final
    BY <1>1, <2>1 DEF JobRows, Busy, Closing
  <2>3. job' = [job EXCEPT ![b] = [job[b] EXCEPT ![c] = r]]
    BY <1>1, <1>3 DEF ReadBatch, Jobs
  <2>4. QED
    BY <1>1, <2>2, <2>3 DEF Jobs, Moves
<1>4. QED
  BY <1>2, <1>3

\* What the job of every step goes on to; no other job moves.
LEMMA JobSteps ==
  ASSUME TypeOK, NEW b \in Batches, NEW c \in Candidates
  PROVE  /\ Enqueue(b, c) => Moves(b, c, {"waiting"})
         /\ LoadCandidate(b, c) => Moves(b, c, {"claiming", "over"})
         /\ Claim(b, c) => Moves(b, c, {"checking", "over"})
         /\ TruthCheck(b, c) => Moves(b, c, IF alt[c] # "" THEN {"skipping"} ELSE {"writing"})
         /\ MarkSkipped(b, c) => Moves(b, c, {"reading"})
         /\ Mutate(b, c) => Moves(b, c, {"recording", "failing"})
         /\ MarkWritten(b, c) => Moves(b, c, {"reading"})
         /\ MarkFailed(b, c) => Moves(b, c, {"reading"})
         /\ CloseBatch(b, c) => Moves(b, c, {"unlocking", "over"})
         /\ Unlock(b, c) => Moves(b, c, {"over"})
<1>1. job \in Jobs
  BY DEF TypeOK, Jobs
<1>2. ASSUME NEW s \in Steps, To(b, c, s) PROVE Moves(b, c, {s})
  BY <1>1, <1>2, JobGoesOn
<1>3. Ends(b, c) => Moves(b, c, {"over"})
  BY <1>1, JobIsOver
<1>4. Enqueue(b, c) => Moves(b, c, {"waiting"})
  BY <1>2 DEF Enqueue, Steps
<1>5. LoadCandidate(b, c) => Moves(b, c, {"claiming", "over"})
  BY <1>2, <1>3 DEF LoadCandidate, Steps, Busy, Moves
<1>6. Claim(b, c) => Moves(b, c, {"checking", "over"})
  BY <1>2, <1>3 DEF Claim, Steps, Busy, Moves
<1>7. TruthCheck(b, c) => Moves(b, c, IF alt[c] # "" THEN {"skipping"} ELSE {"writing"})
  BY <1>2 DEF TruthCheck, Steps, Busy
<1>8. MarkSkipped(b, c) => Moves(b, c, {"reading"})
  BY <1>2 DEF MarkSkipped, Steps, Busy
<1>9. Mutate(b, c) => Moves(b, c, {"recording", "failing"})
  BY <1>2 DEF Mutate, Steps, Busy, Moves
<1>10. MarkWritten(b, c) => Moves(b, c, {"reading"})
  BY <1>2 DEF MarkWritten, Steps, Busy
<1>11. MarkFailed(b, c) => Moves(b, c, {"reading"})
  BY <1>2 DEF MarkFailed, Steps, Busy
<1>12. CloseBatch(b, c) => Moves(b, c, {"unlocking", "over"})
  BY <1>2, <1>3 DEF CloseBatch, Steps, Busy, Moves
<1>13. Unlock(b, c) => Moves(b, c, {"over"})
  BY <1>3 DEF Unlock
<1>14. QED
  BY <1>4, <1>5, <1>6, <1>7, <1>8, <1>9, <1>10, <1>11, <1>12, <1>13

\* Every action moves one job, or none.
LEMMA OneJobMoves ==
  ASSUME TypeOK, [Next]_vars, WritebackAssumption
  PROVE  \/ UNCHANGED job
         \/ \E b \in Batches, c \in Candidates :
              /\ JobStep(b, c) \/ Enqueue(b, c) \/ JobThrows(b, c) \/ JobCrashes(b, c)
              /\ Moves(b, c, Steps)
              /\ job'[b][c].step = "closing" => job'[b][c].verdict \in Final
<1>1. ASSUME NEW b \in Batches, NEW c \in Candidates, JobStep(b, c) \/ Enqueue(b, c)
      PROVE  Moves(b, c, Steps) /\ (job'[b][c].step = "closing" => job'[b][c].verdict \in Final)
  <2>1. CASE ReadBatch(b, c)
    BY <2>1, JobReads DEF Moves, Steps, Busy
  <2>2. CASE ~ReadBatch(b, c)
    <3>1. ASSUME NEW S \in SUBSET (Steps \ {"closing"}), Moves(b, c, S)
          PROVE  Moves(b, c, Steps) /\ job'[b][c].step # "closing"
      BY <3>1 DEF Moves
    <3>2. \E S \in SUBSET (Steps \ {"closing"}) : Moves(b, c, S)
      BY <1>1, <2>2, JobSteps DEF JobStep, Steps, Busy
    <3>3. QED
      BY <3>1, <3>2
  <2>3. QED
    BY <2>1, <2>2
<1>2. ASSUME NEW b \in Batches, NEW c \in Candidates, JobThrows(b, c) \/ JobCrashes(b, c)
      PROVE  Moves(b, c, Steps) /\ job'[b][c].step # "closing"
  BY <1>2, JobIsDisturbed DEF Steps, Busy, Moves, TypeOK, Jobs
<1>3. ASSUME NEW b \in Batches,
             \/ CheckKey(b) \/ StartFails(b) \/ TakeKey(b) \/ CreateBatch(b)
             \/ Answer(b) \/ RollbackKey(b) \/ RollbackBatch(b)
             \/ \E S \in SUBSET Candidates : Validate(b, S)
      PROVE  UNCHANGED job
  BY <1>3 DEF CheckKey, StartFails, TakeKey, CreateBatch, Answer, RollbackKey, RollbackBatch, Validate
<1>4. ASSUME NEW c \in Candidates, Fill(c) \/ BeginMark(c) \/ BeginUnmark(c) \/ CommitMark(c)
      PROVE  UNCHANGED job
  BY <1>4 DEF Fill, BeginMark, BeginUnmark, CommitMark
<1>5. CASE KeyExpires \/ UNCHANGED vars
  BY <1>5 DEF KeyExpires, vars
<1>6. QED
  BY <1>1, <1>2, <1>3, <1>4, <1>5 DEF Next, StartStep, WritebackAssumption

\* The jobs keep their types, and a status waits for every job that closes a batch.
LEMMA JobsStep ==
  ASSUME TypeOK, ClosingHasStatus, [Next]_vars, WritebackAssumption
  PROVE  job' \in Jobs /\ ClosingHasStatus'
<1>1. CASE UNCHANGED job
  BY <1>1 DEF TypeOK, Jobs, ClosingHasStatus
<1>2. ASSUME NEW b \in Batches, NEW c \in Candidates, Moves(b, c, Steps),
             job'[b][c].step = "closing" => job'[b][c].verdict \in Final
      PROVE  job' \in Jobs /\ ClosingHasStatus'
  BY <1>2 DEF Moves, ClosingHasStatus
<1>3. QED
  BY <1>1, <1>2, OneJobMoves

-----------------------------------------------------------------------------
Rows == [Batches -> BatchRows]
Statuses == {"NONE", "RUNNING"} \cup Final

\* A change of a batch's status leaves its counters alone.
LEMMA StatusChanges ==
  ASSUME batch \in Rows, NEW b \in Batches, NEW s \in Statuses,
         batch' = [batch EXCEPT ![b].status = s]
  PROVE  /\ batch' \in Rows
         /\ \A a \in Batches : /\ batch'[a].success = batch[a].success
                              /\ batch'[a].failed = batch[a].failed
                              /\ batch'[a].skipped = batch[a].skipped
                              /\ batch'[a].status = IF a = b THEN s ELSE batch[a].status
<1>1. batch[b] \in BatchRows
  BY DEF Rows
<1> DEFINE r == [status |-> s, success |-> batch[b].success,
                 failed |-> batch[b].failed, skipped |-> batch[b].skipped]
<1>2. r \in BatchRows /\ r = [batch[b] EXCEPT !.status = s]
  BY <1>1 DEF BatchRows, Statuses
<1>3. batch' = [batch EXCEPT ![b] = r]
  BY <1>2
<1>4. QED
  BY ZenonT(60), <1>2, <1>3 DEF Rows

\* One more success, failure or skipped item of a batch.
OneMore(b, success, failed, skipped) ==
  /\ batch' \in Rows
  /\ batch'[b].status = batch[b].status
  /\ batch'[b].success = batch[b].success + success
  /\ batch'[b].failed = batch[b].failed + failed
  /\ batch'[b].skipped = batch[b].skipped + skipped
  /\ \A a \in Batches \ {b} : batch'[a] = batch[a]

LEMMA OneMoreItem ==
  ASSUME batch \in Rows, NEW b \in Batches
  PROVE  /\ batch' = [batch EXCEPT ![b].success = @ + 1] => OneMore(b, 1, 0, 0)
         /\ batch' = [batch EXCEPT ![b].failed = @ + 1] => OneMore(b, 0, 1, 0)
         /\ batch' = [batch EXCEPT ![b].skipped = @ + 1] => OneMore(b, 0, 0, 1)
<1>1. batch[b] \in BatchRows
  BY DEF Rows
<1>2. ASSUME batch' = [batch EXCEPT ![b].success = @ + 1] PROVE OneMore(b, 1, 0, 0)
  <2> DEFINE r == [status |-> batch[b].status, success |-> batch[b].success + 1,
                   failed |-> batch[b].failed, skipped |-> batch[b].skipped]
  <2>1. r \in BatchRows /\ r = [batch[b] EXCEPT !.success = batch[b].success + 1]
    BY <1>1 DEF BatchRows
  <2>2. batch' = [batch EXCEPT ![b] = r]
    BY <1>2, <2>1
  <2>3. QED
    BY <1>1, <2>1, <2>2 DEF Rows, OneMore, BatchRows
<1>3. ASSUME batch' = [batch EXCEPT ![b].failed = @ + 1] PROVE OneMore(b, 0, 1, 0)
  <2> DEFINE r == [status |-> batch[b].status, success |-> batch[b].success,
                   failed |-> batch[b].failed + 1, skipped |-> batch[b].skipped]
  <2>1. r \in BatchRows /\ r = [batch[b] EXCEPT !.failed = batch[b].failed + 1]
    BY <1>1 DEF BatchRows
  <2>2. batch' = [batch EXCEPT ![b] = r]
    BY <1>3, <2>1
  <2>3. QED
    BY <1>1, <2>1, <2>2 DEF Rows, OneMore, BatchRows
<1>4. ASSUME batch' = [batch EXCEPT ![b].skipped = @ + 1] PROVE OneMore(b, 0, 0, 1)
  <2> DEFINE r == [status |-> batch[b].status, success |-> batch[b].success,
                   failed |-> batch[b].failed, skipped |-> batch[b].skipped + 1]
  <2>1. r \in BatchRows /\ r = [batch[b] EXCEPT !.skipped = batch[b].skipped + 1]
    BY <1>1 DEF BatchRows
  <2>2. batch' = [batch EXCEPT ![b] = r]
    BY <1>4, <2>1
  <2>3. QED
    BY <1>1, <2>1, <2>2 DEF Rows, OneMore, BatchRows
<1>5. QED
  BY <1>2, <1>3, <1>4

Table == [Batches -> [Candidates -> ItemStatuses]]

\* An item that gets another status leaves the items of its old one and joins
\* those of the new one.
LEMMA ItemMoves ==
  ASSUME item \in Table, NEW b \in Batches, NEW c \in Candidates, NEW s \in ItemStatuses,
         item' = [item EXCEPT ![b][c] = s], item[b][c] # s
  PROVE  /\ item' \in Table
         /\ \A a \in Batches \ {b} : \A t : Items(a, t)' = Items(a, t)
         /\ Items(b, s)' = Items(b, s) \cup {c} /\ c \notin Items(b, s)
         /\ \A t : t # s /\ t # item[b][c] => Items(b, t)' = Items(b, t)
<1>1. item' = [item EXCEPT ![b] = [item[b] EXCEPT ![c] = s]]
  OBVIOUS
<1>2. item' \in Table
  BY <1>1 DEF Table
<1>3. \A a \in Batches \ {b} : \A t : Items(a, t)' = Items(a, t)
  BY <1>1 DEF Table, Items
<1>4. \A d \in Candidates : item'[b][d] = IF d = c THEN s ELSE item[b][d]
  BY <1>1 DEF Table
<1>5. Items(b, s)' = Items(b, s) \cup {c} /\ c \notin Items(b, s)
  BY <1>4 DEF Items
<1>6. \A t : t # s /\ t # item[b][c] => Items(b, t)' = Items(b, t)
  BY <1>4 DEF Items
<1>7. QED
  BY <1>2, <1>3, <1>5, <1>6

\* ... and is one more of them.
LEMMA ItemsCount ==
  ASSUME NEW b \in Batches, NEW s, WritebackAssumption
  PROVE  /\ Cardinality(Items(b, s)) \in Nat
         /\ \A c : c \notin Items(b, s) =>
              Cardinality(Items(b, s) \cup {c}) = Cardinality(Items(b, s)) + 1
<1>1. IsFiniteSet(Items(b, s))
  BY FS_Subset DEF Items, WritebackAssumption
<1>2. QED
  BY <1>1, FS_CardinalityType, FS_AddElement

\* What happens to the rows of a batch and its items: nothing, another status,
\* the creation, a claim or an outcome.
SetsStatus(b, s) == /\ batch' = [batch EXCEPT ![b].status = s]
                    /\ s = "FAILED" \/ batch[b].status # "FAILED"

Claims(b, c) == /\ item' = [item EXCEPT ![b][c] = "RUNNING"]
                /\ item[b][c] \in {"PENDING", "RUNNING"}
                /\ UNCHANGED batch

Outcome(b, c) ==
  /\ item[b][c] \in {"PENDING", "RUNNING"}
  /\ \/ /\ item' = [item EXCEPT ![b][c] = "SUCCESS"]
        /\ batch' = [batch EXCEPT ![b].success = @ + 1]
     \/ /\ item' = [item EXCEPT ![b][c] = "FAILED"]
        /\ batch' = [batch EXCEPT ![b].failed = @ + 1]
     \/ /\ item' = [item EXCEPT ![b][c] = "SKIPPED_ALREADY_FILLED"]
        /\ batch' = [batch EXCEPT ![b].skipped = @ + 1]

LEMMA RowsMove ==
  ASSUME TypeOK, ClosingHasStatus, [Next]_vars
  PROVE  \/ UNCHANGED <<batch, item>>
         \/ /\ UNCHANGED item
            /\ \E b \in Batches, s \in Statuses : SetsStatus(b, s)
         \/ \E b \in Batches : CreateBatch(b)
         \/ \E b \in Batches, c \in Candidates :
              (Claims(b, c) \/ Outcome(b, c)) /\ UNCHANGED start
<1>1. ASSUME NEW b \in Batches,
             \/ CheckKey(b) \/ StartFails(b) \/ TakeKey(b) \/ Answer(b) \/ RollbackKey(b)
             \/ \E S \in SUBSET Candidates : Validate(b, S)
             \/ \E c \in Candidates : Enqueue(b, c)
      PROVE  UNCHANGED <<batch, item>>
  BY <1>1 DEF CheckKey, StartFails, TakeKey, Answer, RollbackKey, Validate, Enqueue
<1>2. ASSUME NEW b \in Batches, NEW c \in Candidates,
             \/ LoadCandidate(b, c) \/ TruthCheck(b, c) \/ Mutate(b, c) \/ ReadBatch(b, c)
             \/ Unlock(b, c) \/ JobThrows(b, c) \/ JobCrashes(b, c)
      PROVE  UNCHANGED <<batch, item>>
  BY <1>2 DEF LoadCandidate, TruthCheck, Mutate, ReadBatch, Unlock, JobThrows, JobCrashes
<1>3. ASSUME NEW c \in Candidates, Fill(c) \/ BeginMark(c) \/ BeginUnmark(c) \/ CommitMark(c)
      PROVE  UNCHANGED <<batch, item>>
  BY <1>3 DEF Fill, BeginMark, BeginUnmark, CommitMark
<1>4. CASE KeyExpires \/ UNCHANGED vars
  BY <1>4 DEF KeyExpires, vars
<1>5. ASSUME NEW b \in Batches, RollbackBatch(b)
      PROVE  /\ UNCHANGED item
             /\ \E s \in Statuses : SetsStatus(b, s)
  <2>1. batch' = [batch EXCEPT ![b].status = IF batch[b].status = "NONE" THEN "NONE" ELSE "FAILED"]
    BY <1>5 DEF RollbackBatch
  <2>2. QED
    BY <1>5, <2>1 DEF RollbackBatch, Statuses, Final, SetsStatus
<1>6. ASSUME NEW b \in Batches, NEW c \in Candidates, CloseBatch(b, c)
      PROVE  \/ UNCHANGED <<batch, item>>
             \/ /\ UNCHANGED item
                /\ \E s \in Statuses : SetsStatus(b, s)
  BY <1>6 DEF CloseBatch, ClosingHasStatus, Statuses, SetsStatus
<1>7. ASSUME NEW b \in Batches, NEW c \in Candidates, Claim(b, c)
      PROVE  UNCHANGED <<batch, item>> \/ (Claims(b, c) /\ UNCHANGED start)
  BY <1>7 DEF Claim, Claims, request
<1>8. ASSUME NEW b \in Batches, NEW c \in Candidates,
             MarkSkipped(b, c) \/ MarkWritten(b, c) \/ MarkFailed(b, c)
      PROVE  UNCHANGED <<batch, item>> \/ (Outcome(b, c) /\ UNCHANGED start)
  BY <1>8 DEF MarkSkipped, MarkWritten, MarkFailed, Failable, Outcome, request
<1>9. QED
  BY <1>1, <1>2, <1>3, <1>4, <1>5, <1>6, <1>7, <1>8, WritebackAssumption
     DEF Next, StartStep, JobStep, WritebackAssumption

Counted(b) == /\ batch[b].success = Cardinality(Items(b, "SUCCESS"))
              /\ batch[b].failed  = Cardinality(Items(b, "FAILED"))
              /\ batch[b].skipped = Cardinality(Items(b, "SKIPPED_ALREADY_FILLED"))

\* The rows keep their types, and the counters keep counting the items.
LEMMA CountersStep ==
  ASSUME TypeOK, CountersMatchItems, ItemsHaveBatch, ClosingHasStatus, [Next]_vars,
         WritebackAssumption
  PROVE  batch' \in Rows /\ item' \in Table /\ CountersMatchItems'
<1>1. batch \in Rows /\ item \in Table
  BY DEF TypeOK, Rows, Table
<1>2. \A b \in Batches : Counted(b)
  BY DEF CountersMatchItems, Counted
<1>3. SUFFICES batch' \in Rows /\ item' \in Table /\ \A b \in Batches : Counted(b)'
  BY DEF CountersMatchItems, Counted
<1>4. ASSUME UNCHANGED item PROVE \A b \in Batches : \A s : Items(b, s)' = Items(b, s)
  BY <1>4 DEF Items
<1>5. CASE UNCHANGED <<batch, item>>
  BY <1>1, <1>2, <1>4, <1>5 DEF Counted
<1>6. ASSUME NEW b \in Batches, NEW s \in Statuses, UNCHANGED item, SetsStatus(b, s)
      PROVE  batch' \in Rows /\ item' \in Table /\ \A a \in Batches : Counted(a)'
  <2>1. /\ batch' \in Rows
        /\ \A a \in Batches : /\ batch'[a].success = batch[a].success
                             /\ batch'[a].failed = batch[a].failed
                             /\ batch'[a].skipped = batch[a].skipped
    BY <1>1, <1>6, StatusChanges DEF SetsStatus
  <2>2. QED
    BY <1>1, <1>2, <1>4, <1>6, <2>1 DEF Counted
<1>7. ASSUME NEW b \in Batches, CreateBatch(b)
      PROVE  batch' \in Rows /\ item' \in Table /\ \A a \in Batches : Counted(a)'
  <2>1. /\ batch' \in Rows
        /\ \A a \in Batches : /\ batch'[a].success = batch[a].success
                             /\ batch'[a].failed = batch[a].failed
                             /\ batch'[a].skipped = batch[a].skipped
    BY <1>1, <1>7, StatusChanges DEF CreateBatch, Statuses
  <2> DEFINE f == [c \in Candidates |-> IF c \in members[b] THEN "PENDING" ELSE "ABSENT"]
  <2>2. f \in [Candidates -> {"PENDING", "ABSENT"}] /\ item' = [item EXCEPT ![b] = f]
    BY <1>7 DEF CreateBatch
  <2> HIDE DEF f
  <2>3. item' \in Table
    BY <1>1, <2>2 DEF Table, ItemStatuses
  <2>4. \A a \in Batches \ {b} : \A s : Items(a, s)' = Items(a, s)
    BY <1>1, <2>2 DEF Table, Items
  <2>5. \A s \in Finished : Items(b, s)' = {}
    BY <1>1, <2>2 DEF Table, Items, Finished
  <2>6. Items(b, "ABSENT") = Candidates
    BY <1>7 DEF CreateBatch, ItemsHaveBatch
  <2>7. \A s \in Finished : Items(b, s) = {}
    BY <2>6 DEF Items, Finished
  <2>8. \A a \in Batches : \A s \in Finished : Items(a, s)' = Items(a, s)
    BY <2>4, <2>5, <2>7
  <2>9. QED
    BY <1>2, <2>1, <2>3, <2>8 DEF Counted, Finished
<1>8. ASSUME NEW b \in Batches, NEW c \in Candidates, Claims(b, c)
      PROVE  batch' \in Rows /\ item' \in Table /\ \A a \in Batches : Counted(a)'
  <2>1. CASE item[b][c] = "RUNNING"
    <3>1. UNCHANGED <<batch, item>>
      BY <1>1, <1>8, <2>1 DEF Claims, Table
    <3>2. QED
      BY <1>5, <3>1
  <2>2. CASE item[b][c] # "RUNNING"
    <3>1. /\ item' \in Table
          /\ \A a \in Batches \ {b} : \A s : Items(a, s)' = Items(a, s)
          /\ \A s : s # "RUNNING" /\ s # item[b][c] => Items(b, s)' = Items(b, s)
      <4>1. ASSUME NEW r \in {"RUNNING"}, item' = [item EXCEPT ![b][c] = r]
            PROVE  /\ item' \in Table
                   /\ \A a \in Batches \ {b} : \A t : Items(a, t)' = Items(a, t)
                   /\ \A t : t # r /\ t # item[b][c] => Items(b, t)' = Items(b, t)
        <5>1. r \in ItemStatuses /\ item[b][c] # r
          BY <2>2 DEF ItemStatuses
        <5>2. QED
          BY ZenonT(60), <1>1, <4>1, <5>1, ItemMoves
      <4>2. QED
        BY <1>8, <4>1 DEF Claims
    <3>2. item[b][c] = "PENDING" /\ UNCHANGED batch
      BY <1>8, <2>2 DEF Claims
    <3>3. QED
      BY <1>1, <1>2, <3>1, <3>2 DEF Counted
  <2>3. QED
    BY <2>1, <2>2
<1>9. ASSUME NEW b \in Batches, NEW c \in Candidates, Outcome(b, c)
      PROVE  batch' \in Rows /\ item' \in Table /\ \A a \in Batches : Counted(a)'
  <2>1. ASSUME NEW s \in Finished, item' = [item EXCEPT ![b][c] = s]
        PROVE  /\ item' \in Table
               /\ \A a \in Batches \ {b} : \A t : Items(a, t)' = Items(a, t)
               /\ Cardinality(Items(b, s)') = Cardinality(Items(b, s)) + 1
               /\ \A t \in Finished \ {s} : Items(b, t)' = Items(b, t)
    <3>1. item[b][c] \in {"PENDING", "RUNNING"}
      BY <1>9 DEF Outcome
    <3>2. s \in ItemStatuses /\ item[b][c] # s /\ item[b][c] \notin Finished
      BY <2>1, <3>1 DEF Finished, ItemStatuses
    <3>3. /\ item' \in Table
          /\ \A a \in Batches \ {b} : \A t : Items(a, t)' = Items(a, t)
          /\ Items(b, s)' = Items(b, s) \cup {c} /\ c \notin Items(b, s)
          /\ \A t : t # s /\ t # item[b][c] => Items(b, t)' = Items(b, t)
      BY ZenonT(60), <1>1, <2>1, <3>2, ItemMoves
    <3>4. Cardinality(Items(b, s) \cup {c}) = Cardinality(Items(b, s)) + 1
      BY <3>3, ItemsCount
    <3>5. QED
      BY <3>2, <3>3, <3>4
  <2>2. Counted(b) /\ \A a \in Batches \ {b} : Counted(a)
    BY <1>2
  <2>3. ASSUME item' = [item EXCEPT ![b][c] = "SUCCESS"], OneMore(b, 1, 0, 0)
        PROVE  batch' \in Rows /\ item' \in Table /\ \A a \in Batches : Counted(a)'
    BY <1>1, <2>1, <2>2, <2>3 DEF Counted, OneMore, Finished, Rows, BatchRows
  <2>4. ASSUME item' = [item EXCEPT ![b][c] = "FAILED"], OneMore(b, 0, 1, 0)
        PROVE  batch' \in Rows /\ item' \in Table /\ \A a \in Batches : Counted(a)'
    BY <1>1, <2>1, <2>2, <2>4 DEF Counted, OneMore, Finished, Rows, BatchRows
  <2>5. ASSUME item' = [item EXCEPT ![b][c] = "SKIPPED_ALREADY_FILLED"], OneMore(b, 0, 0, 1)
        PROVE  batch' \in Rows /\ item' \in Table /\ \A a \in Batches : Counted(a)'
    BY <1>1, <2>1, <2>2, <2>5 DEF Counted, OneMore, Finished, Rows, BatchRows
  <2>6. QED
    BY <1>1, <1>9, <2>3, <2>4, <2>5, OneMoreItem DEF Outcome
<1>10. QED
  BY <1>5, <1>6, <1>7, <1>8, <1>9, RowsMove

\* No item is there before its batch.
LEMMA ItemsHaveBatchStep ==
  ASSUME TypeOK, ItemsHaveBatch, ClosingHasStatus, [Next]_vars
  PROVE  ItemsHaveBatch'
<1> DEFINE Early == {"idle", "checked", "validated", "locked"}
<1>1. start \in [Batches -> Starts] /\ item \in Table
  BY DEF TypeOK, Table
<1>2. \A b \in Batches : start'[b] \in Early => start[b] \in Early
  <2>1. CASE UNCHANGED start
    BY <2>1
  <2>2. ASSUME NEW b \in Batches, \/ CheckKey(b) \/ StartFails(b) \/ StartStep(b)
                                  \/ \E S \in SUBSET Candidates : Validate(b, S)
        PROVE  \A a \in Batches : start'[a] \in Early => start[a] \in Early
    BY <1>1, <2>2 DEF CheckKey, StartFails, StartStep, Validate, TakeKey, CreateBatch, Answer,
                      RollbackKey, RollbackBatch, Enqueue, Starting, request
  <2>3. ASSUME NEW b \in Batches, NEW c \in Candidates,
               JobStep(b, c) \/ JobThrows(b, c) \/ JobCrashes(b, c)
        PROVE  UNCHANGED start
    BY <2>3 DEF JobStep, LoadCandidate, Claim, TruthCheck, MarkSkipped, Mutate, MarkWritten,
                MarkFailed, ReadBatch, CloseBatch, Unlock, JobThrows, JobCrashes, request
  <2>4. ASSUME NEW c \in Candidates, Fill(c) \/ BeginMark(c) \/ BeginUnmark(c) \/ CommitMark(c)
        PROVE  UNCHANGED start
    BY <2>4 DEF Fill, BeginMark, BeginUnmark, CommitMark, request
  <2>5. CASE KeyExpires \/ UNCHANGED vars
    BY <2>5 DEF KeyExpires, vars, request
  <2>6. QED
    BY <2>1, <2>2, <2>3, <2>4, <2>5, WritebackAssumption DEF Next, WritebackAssumption
<1>3. ASSUME NEW b \in Batches, start'[b] \in Early PROVE Items(b, "ABSENT")' = Candidates
  <2>1. start[b] \in Early /\ Items(b, "ABSENT") = Candidates
    BY <1>2, <1>3 DEF ItemsHaveBatch
  <2>2. CASE UNCHANGED item
    BY <2>1, <2>2 DEF Items
  <2>3. ASSUME NEW a \in Batches, CreateBatch(a) PROVE Items(b, "ABSENT")' = Candidates
    <3>1. a # b
      BY <1>1, <1>3, <2>3 DEF CreateBatch, Starting
    <3>2. item'[b] = item[b]
      BY <1>1, <2>3, <3>1 DEF CreateBatch, Table
    <3>3. QED
      BY <2>1, <3>2 DEF Items
  <2>4. ASSUME NEW a \in Batches, NEW c \in Candidates, Claims(a, c) \/ Outcome(a, c)
        PROVE  Items(b, "ABSENT")' = Candidates
    <3>1. item[a][c] \in {"PENDING", "RUNNING"}
      BY <2>4 DEF Claims, Outcome
    <3>2. a # b
      BY <2>1, <3>1 DEF Items
    <3>3. item'[b] = item[b]
      BY <1>1, <2>4, <3>2 DEF Claims, Outcome, Table
    <3>4. QED
      BY <2>1, <3>3 DEF Items
  <2>5. QED
    BY <2>2, <2>3, <2>4, RowsMove
<1>4. QED
  BY <1>3 DEF ItemsHaveBatch

-----------------------------------------------------------------------------
\* Only a mutation and the merchant change a text.
LEMMA TextMoves ==
  ASSUME TypeOK, [Next]_vars
  PROVE  \/ UNCHANGED <<alt, kept>>
         \/ \E c \in Candidates : Fill(c)
         \/ \E b \in Batches, c \in Candidates :
              Mutate(b, c) /\ alt' = [alt EXCEPT ![c] = "app"] /\ UNCHANGED kept
<1>1. ASSUME NEW b \in Batches,
             \/ CheckKey(b) \/ StartFails(b) \/ StartStep(b)
             \/ \E S \in SUBSET Candidates : Validate(b, S)
      PROVE  UNCHANGED <<alt, kept>>
  BY <1>1 DEF CheckKey, StartFails, StartStep, Validate, TakeKey, CreateBatch, Answer,
              RollbackKey, RollbackBatch, Enqueue, shop
<1>2. ASSUME NEW b \in Batches, NEW c \in Candidates,
             JobStep(b, c) \/ JobThrows(b, c) \/ JobCrashes(b, c)
      PROVE  \/ UNCHANGED <<alt, kept>>
             \/ Mutate(b, c) /\ alt' = [alt EXCEPT ![c] = "app"] /\ UNCHANGED kept
  BY <1>2 DEF JobStep, LoadCandidate, Claim, TruthCheck, MarkSkipped, Mutate, MarkWritten,
              MarkFailed, ReadBatch, CloseBatch, Unlock, JobThrows, JobCrashes, shop
<1>3. ASSUME NEW c \in Candidates, BeginMark(c) \/ BeginUnmark(c) \/ CommitMark(c)
      PROVE  UNCHANGED <<alt, kept>>
  BY <1>3 DEF BeginMark, BeginUnmark, CommitMark, shop
<1>4. CASE KeyExpires \/ UNCHANGED vars
  BY <1>4 DEF KeyExpires, vars, shop
<1>5. QED
  BY <1>1, <1>2, <1>3, <1>4, WritebackAssumption DEF Next, WritebackAssumption

\* A job that is about to write has seen no text, and one that is about to
\* record a text has seen it or written it.
LEMMA WritersMove ==
  ASSUME TypeOK, [Next]_vars, NEW b \in Batches, NEW c \in Candidates, job'[b][c] # job[b][c]
  PROVE  /\ job'[b][c].step = "writing" => alt[c] = "" /\ TruthCheck(b, c)
         /\ job'[b][c].step = "skipping" => alt[c] # "" /\ TruthCheck(b, c)
         /\ job'[b][c].step = "recording" => Mutate(b, c)
<1>1. /\ JobStep(b, c) \/ Enqueue(b, c) \/ JobThrows(b, c) \/ JobCrashes(b, c)
      /\ Moves(b, c, Steps)
  BY OneJobMoves, WritebackAssumption DEF Moves
<1>2. CASE TruthCheck(b, c)
  BY <1>2, JobSteps DEF Moves
<1>3. CASE Mutate(b, c)
  BY <1>3, JobSteps DEF Moves
<1>4. CASE JobThrows(b, c) \/ JobCrashes(b, c)
  BY <1>4, JobIsDisturbed, WritebackAssumption DEF Moves, TypeOK, Jobs
<1>5. CASE ReadBatch(b, c)
  BY <1>5, JobReads DEF Moves
<1>6. CASE \/ Enqueue(b, c) \/ LoadCandidate(b, c) \/ Claim(b, c) \/ MarkSkipped(b, c)
           \/ MarkWritten(b, c) \/ MarkFailed(b, c) \/ CloseBatch(b, c) \/ Unlock(b, c)
  <2>1. ASSUME NEW S \in SUBSET (Steps \ {"writing", "skipping", "recording"}), Moves(b, c, S)
        PROVE  job'[b][c].step \notin {"writing", "skipping", "recording"}
    BY <2>1 DEF Moves
  <2>2. \E S \in SUBSET (Steps \ {"writing", "skipping", "recording"}) : Moves(b, c, S)
    BY <1>6, JobSteps DEF Steps, Busy
  <2>3. QED
    BY <2>1, <2>2
<1>7. QED
  BY <1>1, <1>2, <1>3, <1>4, <1>5, <1>6 DEF JobStep

\* A text that is kept stays the merchant's, and no job is about to write over it.
LEMMA KeptStep ==
  ASSUME TypeOK, KeepsMerchantText, NobodyWritesKept, [Next]_vars
  PROVE  KeepsMerchantText' /\ NobodyWritesKept'
<1>1. alt \in [Candidates -> {"", "merchant", "app"}] /\ kept \subseteq Candidates
  BY DEF TypeOK
<1>2. ASSUME NEW b \in Batches, NEW c \in kept PROVE job'[b][c].step # "writing"
  <2>1. CASE job'[b][c] = job[b][c]
    BY <2>1 DEF NobodyWritesKept
  <2>2. CASE job'[b][c] # job[b][c]
    BY <1>1, <2>2, WritersMove DEF KeepsMerchantText
  <2>3. QED
    BY <2>1, <2>2
<1>3. CASE UNCHANGED <<alt, kept>>
  BY <1>2, <1>3 DEF KeepsMerchantText, NobodyWritesKept
<1>4. ASSUME NEW c \in Candidates, Fill(c)
      PROVE  KeepsMerchantText' /\ NobodyWritesKept'
  <2>1. alt' = [alt EXCEPT ![c] = "merchant"] /\ UNCHANGED job
    BY <1>4 DEF Fill
  <2>2. kept' \in {kept, kept \cup {c}}
    BY <1>4 DEF Fill
  <2>3. c \in kept' \ kept => \A b \in Batches : job[b][c].step # "writing"
    BY <1>4 DEF Fill
  <2>4. KeepsMerchantText'
    BY <1>1, <2>1, <2>2 DEF KeepsMerchantText
  <2>5. NobodyWritesKept'
    BY <2>1, <2>2, <2>3 DEF NobodyWritesKept
  <2>6. QED
    BY <2>4, <2>5
<1>5. ASSUME NEW b \in Batches, NEW c \in Candidates,
             Mutate(b, c), alt' = [alt EXCEPT ![c] = "app"], UNCHANGED kept
      PROVE  KeepsMerchantText' /\ NobodyWritesKept'
  <2>1. c \notin kept
    BY <1>5 DEF Mutate, NobodyWritesKept
  <2>2. QED
    BY <1>1, <1>2, <1>5, <2>1 DEF KeepsMerchantText, NobodyWritesKept
<1>6. QED
  BY <1>3, <1>4, <1>5, TextMoves

\* Only the two marks of a job record a text.
LEMMA RecordsMove ==
  ASSUME TypeOK, [Next]_vars, NEW c \in Candidates
  PROVE  \/ ~(candidate'[c] = "WRITTEN" \/ known'[c])
         \/ candidate[c] = "WRITTEN" \/ known[c]
         \/ \E b \in Batches : job[b][c].step \in {"skipping", "recording"}
<1>1. /\ candidate \in [Candidates -> CandidateStatuses] /\ known \in [Candidates -> BOOLEAN]
      /\ marking \in [Candidates -> {"-", "DECORATIVE_SKIPPED", "GENERATED", "RESOLVED"}]
  BY DEF TypeOK
<1>2. CASE UNCHANGED <<candidate, known>>
  BY <1>2
<1>3. ASSUME NEW b \in Batches,
             \/ CheckKey(b) \/ StartFails(b) \/ StartStep(b)
             \/ \E S \in SUBSET Candidates : Validate(b, S)
      PROVE  UNCHANGED <<candidate, known>>
  BY <1>3 DEF CheckKey, StartFails, StartStep, Validate, TakeKey, CreateBatch, Answer,
              RollbackKey, RollbackBatch, Enqueue, shop
<1>4. ASSUME NEW b \in Batches, NEW d \in Candidates,
             \/ LoadCandidate(b, d) \/ Claim(b, d) \/ TruthCheck(b, d) \/ Mutate(b, d)
             \/ ReadBatch(b, d) \/ CloseBatch(b, d) \/ Unlock(b, d)
             \/ JobThrows(b, d) \/ JobCrashes(b, d)
      PROVE  UNCHANGED <<candidate, known>>
  BY <1>4 DEF LoadCandidate, Claim, TruthCheck, Mutate, ReadBatch, CloseBatch, Unlock,
              JobThrows, JobCrashes, shop
<1>5. ASSUME NEW b \in Batches, NEW d \in Candidates, MarkSkipped(b, d) \/ MarkWritten(b, d)
      PROVE  \/ candidate'[c] = candidate[c] /\ known'[c] = known[c]
             \/ job[b][c].step \in {"skipping", "recording"}
  BY <1>1, <1>5 DEF MarkSkipped, MarkWritten
<1>6. ASSUME NEW b \in Batches, NEW d \in Candidates, MarkFailed(b, d)
      PROVE  (candidate'[c] = "WRITTEN" => candidate[c] = "WRITTEN") /\ UNCHANGED known
  BY <1>1, <1>6 DEF MarkFailed, shop, Processable
<1>7. ASSUME NEW d \in Candidates, Fill(d) \/ BeginMark(d) \/ BeginUnmark(d)
      PROVE  UNCHANGED <<candidate, known>>
  BY <1>7 DEF Fill, BeginMark, BeginUnmark, shop
<1>8. ASSUME NEW d \in Candidates, CommitMark(d)
      PROVE  (candidate'[c] = "WRITTEN" => candidate[c] = "WRITTEN") /\ UNCHANGED known
  BY <1>1, <1>8 DEF CommitMark, shop
<1>9. CASE KeyExpires \/ UNCHANGED vars
  BY <1>9 DEF KeyExpires, vars, shop
<1>10. QED
  BY <1>1, <1>2, <1>3, <1>4, <1>5, <1>6, <1>7, <1>8, <1>9, WritebackAssumption
     DEF Next, JobStep, WritebackAssumption

\* What is recorded is in the shop.
LEMMA ShopStep ==
  ASSUME TypeOK, RecordedIsOnShop, RecordsWhatIsThere, [Next]_vars
  PROVE  RecordedIsOnShop' /\ RecordsWhatIsThere'
<1>1. alt \in [Candidates -> {"", "merchant", "app"}]
  BY DEF TypeOK
<1>2. \A c \in Candidates : alt[c] # "" => alt'[c] # ""
  BY <1>1, TextMoves DEF Fill
<1>3. ASSUME NEW b \in Batches, NEW c \in Candidates, Mutate(b, c), job'[b][c].step = "recording"
      PROVE  alt'[c] # ""
  <2>1. job[b][c] \in JobRows /\ job \in Jobs
    BY DEF TypeOK, Jobs
  <2>2. alt' = [alt EXCEPT ![c] = "app"] \/ To(b, c, "failing")
    BY <1>3 DEF Mutate
  <2>3. To(b, c, "failing") => job'[b][c].step = "failing"
    BY <2>1, JobGoesOn DEF Moves, Steps, Busy
  <2>4. QED
    BY <1>1, <1>3, <2>2, <2>3
<1>4. RecordsWhatIsThere'
  BY <1>2, <1>3, WritersMove DEF RecordsWhatIsThere
<1>5. RecordedIsOnShop'
  BY <1>2, RecordsMove DEF RecordedIsOnShop, RecordsWhatIsThere
<1>6. QED
  BY <1>4, <1>5

-----------------------------------------------------------------------------
\* What is left of the types, when jobs, rows and items have theirs.
Plain == /\ alt \in [Candidates -> {"", "merchant", "app"}]
         /\ known \in [Candidates -> BOOLEAN]
         /\ candidate \in [Candidates -> CandidateStatuses]
         /\ decorative \subseteq Candidates
         /\ marking \in [Candidates -> {"-", "DECORATIVE_SKIPPED", "GENERATED", "RESOLVED"}]
         /\ key \in Batches \cup {None}
         /\ start \in [Batches -> Starts]
         /\ members \in [Batches -> SUBSET Candidates]
         /\ kept \subseteq Candidates
         /\ marked \subseteq Candidates
         /\ faults \in 0 .. MaxFaults

LEMMA PlainStep == ASSUME TypeOK, [Next]_vars PROVE Plain'
<1>1. Plain
  BY DEF TypeOK, Plain
<1>2. MaxFaults \in Nat
  BY WritebackAssumption DEF WritebackAssumption
<1> DEFINE Fault == \/ UNCHANGED faults
                    \/ faults < MaxFaults /\ faults' = faults + 1
<1>0. ASSUME Fault PROVE faults' \in 0 .. MaxFaults
  <2>1. faults \in 0 .. MaxFaults
    BY <1>1 DEF Plain
  <2>2. QED
    BY <1>2, <1>0, <2>1
<1>3. ASSUME NEW b \in Batches, CheckKey(b) PROVE Plain'
  BY <1>1, <1>3 DEF Plain, CheckKey, Starting, Starts, shop, marks
<1>4. ASSUME NEW b \in Batches, NEW S \in SUBSET Candidates, Validate(b, S) PROVE Plain'
  BY <1>1, <1>4 DEF Plain, Validate, Valid, Starting, Starts, shop, marks
<1>5. ASSUME NEW b \in Batches, StartStep(b) PROVE Plain'
  BY <1>1, <1>5 DEF Plain, StartStep, TakeKey, CreateBatch, Answer, RollbackKey, RollbackBatch,
                    KeyReleased, Enqueue, Starting, Starts, shop, marks, request
<1>6. ASSUME NEW b \in Batches, StartFails(b) PROVE Plain'
  <2>1. faults' \in 0 .. MaxFaults
    BY <1>0, <1>6 DEF StartFails
  <2>2. start' \in [Batches -> Starts]
    BY <1>1, <1>6 DEF Plain, StartFails, Starting, Starts
  <2>3. UNCHANGED <<alt, known, candidate, decorative, marking, key, members, kept, marked>>
    BY <1>6 DEF StartFails, shop, marks
  <2>4. QED
    BY <1>1, <2>1, <2>2, <2>3 DEF Plain
<1>7. ASSUME NEW b \in Batches, NEW c \in Candidates,
             \/ LoadCandidate(b, c) \/ Claim(b, c) \/ TruthCheck(b, c) \/ ReadBatch(b, c)
             \/ CloseBatch(b, c) \/ Unlock(b, c)
      PROVE  Plain'
  BY <1>1, <1>7 DEF Plain, LoadCandidate, Claim, TruthCheck, ReadBatch, CloseBatch, Unlock,
                    KeyReleased, shop, marks, request
<1>8. ASSUME NEW b \in Batches, NEW c \in Candidates,
             MarkSkipped(b, c) \/ MarkWritten(b, c) \/ MarkFailed(b, c)
      PROVE  Plain'
  BY ZenonT(60), <1>1, <1>8 DEF Plain, MarkSkipped, MarkWritten, MarkFailed, CandidateStatuses, Processable,
                    shop, marks, request
<1>9. ASSUME NEW b \in Batches, NEW c \in Candidates, Mutate(b, c) PROVE Plain'
  <2>1. faults' \in 0 .. MaxFaults
    BY <1>0, <1>9 DEF Mutate
  <2>2. alt' \in [Candidates -> {"", "merchant", "app"}]
    BY <1>1, <1>9 DEF Plain, Mutate
  <2>3. UNCHANGED <<known, candidate, decorative, marking, key, start, members, kept, marked>>
    BY <1>9 DEF Mutate, marks, request
  <2>4. QED
    BY <1>1, <2>1, <2>2, <2>3 DEF Plain
<1>10. ASSUME NEW b \in Batches, NEW c \in Candidates, JobThrows(b, c) \/ JobCrashes(b, c)
       PROVE  Plain'
  <2>1. faults' \in 0 .. MaxFaults
    BY <1>0, <1>10 DEF JobThrows, JobCrashes
  <2>2. UNCHANGED <<alt, known, candidate, decorative, marking, key, start, members, kept, marked>>
    BY <1>10 DEF JobThrows, JobCrashes, shop, marks, request
  <2>3. QED
    BY <1>1, <2>1, <2>2 DEF Plain
<1>11. ASSUME NEW c \in Candidates, Fill(c) PROVE Plain'
  BY <1>1, <1>11 DEF Plain, Fill, marks, request
<1>12. ASSUME NEW c \in Candidates, BeginMark(c) \/ BeginUnmark(c) PROVE Plain'
  BY <1>1, <1>12 DEF Plain, BeginMark, BeginUnmark, shop, request
<1>13. ASSUME NEW c \in Candidates, CommitMark(c) PROVE Plain'
  <2>1. marking[c] \in CandidateStatuses
    BY <1>1, <1>13 DEF Plain, CommitMark, CandidateStatuses, Processable
  <2>2. QED
    BY <1>1, <1>13, <2>1 DEF Plain, CommitMark, shop, request
<1>14. CASE KeyExpires \/ UNCHANGED vars
  BY <1>1, <1>14 DEF Plain, KeyExpires, vars, shop, marks, request
<1>15. QED
  BY <1>3, <1>4, <1>5, <1>6, <1>7, <1>8, <1>9, <1>10, <1>11, <1>12, <1>13, <1>14,
     WritebackAssumption DEF Next, JobStep, WritebackAssumption

-----------------------------------------------------------------------------
LEMMA InitInv == Init => IInv
<1> SUFFICES ASSUME Init PROVE IInv
  OBVIOUS
<1>1. NoBatch \in BatchRows /\ NoJob \in JobRows /\ NoJob.step = "absent"
  BY DEF NoBatch, BatchRows, NoJob, JobRows
<1>2. TypeOK
  <2>1. MaxFaults \in Nat
    BY WritebackAssumption DEF WritebackAssumption
  <2>2. faults = 0
    BY DEF Init
  <2>3. faults \in 0 .. MaxFaults
    BY <2>1, <2>2
  <2>4. /\ batch \in [Batches -> BatchRows] /\ item \in [Batches -> [Candidates -> ItemStatuses]]
        /\ job \in [Batches -> [Candidates -> JobRows]]
    BY <1>1 DEF Init, ItemStatuses
  <2>5. /\ candidate \in [Candidates -> CandidateStatuses]
        /\ start \in [Batches -> Starts] /\ members \in [Batches -> SUBSET Candidates]
    BY DEF Init, CandidateStatuses, Processable, Starts
  <2>6. QED
    BY <2>3, <2>4, <2>5 DEF Init, TypeOK
<1>3. CountersMatchItems
  <2>1. \A b \in Batches : \A s \in Finished : Items(b, s) = {}
    BY DEF Init, Items, Finished
  <2>2. QED
    BY <2>1, FS_EmptySet DEF Init, CountersMatchItems, Finished, NoBatch
<1>4. ItemsHaveBatch
  BY DEF Init, ItemsHaveBatch, Items
<1>5. ClosingHasStatus /\ RecordsWhatIsThere
  BY <1>1 DEF Init, ClosingHasStatus, RecordsWhatIsThere
<1>6. KeepsMerchantText /\ NobodyWritesKept /\ RecordedIsOnShop
  BY DEF Init, KeepsMerchantText, NobodyWritesKept, RecordedIsOnShop
<1>7. QED
  BY <1>2, <1>3, <1>4, <1>5, <1>6 DEF IInv

LEMMA StepInv == IInv /\ [Next]_vars => IInv'
<1> SUFFICES ASSUME IInv, [Next]_vars PROVE IInv'
  OBVIOUS
<1>1. /\ TypeOK /\ CountersMatchItems /\ ItemsHaveBatch /\ ClosingHasStatus
      /\ KeepsMerchantText /\ NobodyWritesKept /\ RecordedIsOnShop /\ RecordsWhatIsThere
  BY DEF IInv
<1>2. job' \in Jobs /\ ClosingHasStatus'
  BY <1>1, JobsStep, WritebackAssumption
<1>3. batch' \in Rows /\ item' \in Table /\ CountersMatchItems'
  BY <1>1, CountersStep, WritebackAssumption
<1>4. TypeOK'
  BY <1>1, <1>2, <1>3, PlainStep DEF TypeOK, Plain, Jobs, Rows, Table
<1>5. ItemsHaveBatch'
  BY <1>1, ItemsHaveBatchStep
<1>6. KeepsMerchantText' /\ NobodyWritesKept'
  BY <1>1, KeptStep
<1>7. RecordedIsOnShop' /\ RecordsWhatIsThere'
  BY <1>1, ShopStep
<1>8. QED
  BY <1>2, <1>3, <1>4, <1>5, <1>6, <1>7 DEF IInv

\* Any number of writebacks, jobs, retries and redeliveries of the code, with
\* the merchant at work meanwhile, keep the invariant.
THEOREM Invariant == Spec => []IInv
BY InitInv, StepInv, PTL DEF Spec

\* Every variable keeps its type.
THEOREM TypeCorrect == Spec => []TypeOK
<1>1. IInv => TypeOK
  BY DEF IInv
<1>2. QED
  BY Invariant, <1>1, PTL

\* The counters that the end of a batch is computed from count each item once,
\* under its status, whatever the retries and redeliveries of its job.
THEOREM CountedOnce == Spec => []CountersMatchItems
<1>1. IInv => CountersMatchItems
  BY DEF IInv
<1>2. QED
  BY Invariant, <1>1, PTL

\* A text the merchant filled in while no job was between its read and its
\* mutation is never overwritten.
THEOREM TextKept == Spec => []KeepsMerchantText
<1>1. IInv => KeepsMerchantText
  BY DEF IInv
<1>2. QED
  BY Invariant, <1>1, PTL

\* What the database records as written or filled has a text in Shopify.
THEOREM RecordedIsThere == Spec => []RecordedIsOnShop
<1>1. IInv => RecordedIsOnShop
  BY DEF IInv
<1>2. QED
  BY Invariant, <1>1, PTL

-----------------------------------------------------------------------------
\* While nothing throws, dies or is lost, a job that reads, writes or records a text
\* has its item.
WorkedOn == {"checking", "skipping", "writing", "recording"}

WorkedOnIsRunning ==
  \A b \in Batches, c \in Candidates :
    faults = 0 /\ job[b][c].step \in WorkedOn => item[b][c] = "RUNNING"

\* Only its own job, or the creation of its batch, changes an item.
LEMMA OwnJobMovesItem ==
  ASSUME TypeOK, ItemsHaveBatch, [Next]_vars, WritebackAssumption,
         NEW b \in Batches, NEW c \in Candidates, item'[b][c] # item[b][c]
  PROVE  \/ item[b][c] = "ABSENT"
         \/ /\ item[b][c] \in {"PENDING", "RUNNING"}
            /\ Claim(b, c) \/ MarkSkipped(b, c) \/ MarkWritten(b, c) \/ MarkFailed(b, c)
<1>1. item \in Table
  BY DEF TypeOK, Table
<1>2. ASSUME NEW a \in Batches, NEW d \in Candidates, NEW s, item' = [item EXCEPT ![a][d] = s]
      PROVE  a = b /\ d = c
  <2>1. item' = [item EXCEPT ![a] = [item[a] EXCEPT ![d] = s]]
    BY <1>2
  <2>2. QED
    BY <1>1, <2>1 DEF Table
<1>3. ASSUME NEW a \in Batches, NEW d \in Candidates,
             Claim(a, d) \/ MarkSkipped(a, d) \/ MarkWritten(a, d) \/ MarkFailed(a, d)
      PROVE  a = b /\ d = c /\ item[b][c] \in {"PENDING", "RUNNING"}
  <2>1. a = b /\ d = c
    BY <1>2, <1>3 DEF Claim, MarkSkipped, MarkWritten, MarkFailed
  <2>2. QED
    BY <1>3, <2>1 DEF Claim, MarkSkipped, MarkWritten, MarkFailed, Failable
<1>4. ASSUME NEW a \in Batches, NEW d \in Candidates,
             \/ LoadCandidate(a, d) \/ TruthCheck(a, d) \/ Mutate(a, d) \/ ReadBatch(a, d)
             \/ CloseBatch(a, d) \/ Unlock(a, d) \/ JobThrows(a, d) \/ JobCrashes(a, d)
      PROVE  FALSE
  BY <1>4 DEF LoadCandidate, TruthCheck, Mutate, ReadBatch, CloseBatch, Unlock, JobThrows,
              JobCrashes
<1>5. ASSUME NEW a \in Batches, CreateBatch(a) PROVE item[b][c] = "ABSENT"
  <2>1. a = b
    BY <1>1, <1>5 DEF CreateBatch, Table
  <2>2. Items(b, "ABSENT") = Candidates
    BY <1>5, <2>1 DEF CreateBatch, ItemsHaveBatch
  <2>3. QED
    BY <2>2 DEF Items
<1>6. ASSUME NEW a \in Batches,
             \/ CheckKey(a) \/ StartFails(a) \/ TakeKey(a) \/ Answer(a) \/ RollbackKey(a)
             \/ RollbackBatch(a)
             \/ \E S \in SUBSET Candidates : Validate(a, S)
             \/ \E d \in Candidates : Enqueue(a, d)
      PROVE  FALSE
  BY <1>6 DEF CheckKey, StartFails, TakeKey, Answer, RollbackKey, RollbackBatch, Validate, Enqueue
<1>7. ASSUME NEW d \in Candidates, Fill(d) \/ BeginMark(d) \/ BeginUnmark(d) \/ CommitMark(d)
      PROVE  FALSE
  BY <1>7 DEF Fill, BeginMark, BeginUnmark, CommitMark
<1>8. CASE KeyExpires \/ UNCHANGED vars
  BY <1>8 DEF KeyExpires, vars
<1>9. QED
  BY <1>3, <1>4, <1>5, <1>6, <1>7, <1>8, WritebackAssumption
     DEF Next, StartStep, JobStep, WritebackAssumption

\* A fault is not forgotten, and an exception or a crash is one.
LEMMA FaultsCount ==
  ASSUME TypeOK, [Next]_vars, WritebackAssumption, faults' = 0
  PROVE  /\ faults = 0
         /\ \A b \in Batches, c \in Candidates : ~JobThrows(b, c) /\ ~JobCrashes(b, c)
<1>1. faults \in Nat
  <2>1. MaxFaults \in Nat /\ faults \in 0 .. MaxFaults
    BY DEF TypeOK, WritebackAssumption
  <2>2. QED
    BY <2>1
<1>2. ASSUME faults' = faults + 1 PROVE FALSE
  BY <1>1, <1>2
<1>3. \A b \in Batches, c \in Candidates : ~JobThrows(b, c) /\ ~JobCrashes(b, c)
  BY <1>2 DEF JobThrows, JobCrashes
<1>4. ASSUME NEW b \in Batches,
             \/ CheckKey(b) \/ StartFails(b) \/ StartStep(b)
             \/ \E S \in SUBSET Candidates : Validate(b, S)
      PROVE  UNCHANGED faults
  BY <1>2, <1>4 DEF CheckKey, StartFails, StartStep, Validate, TakeKey, CreateBatch, Answer,
                    RollbackKey, RollbackBatch, Enqueue
<1>5. ASSUME NEW b \in Batches, NEW c \in Candidates, JobStep(b, c) PROVE UNCHANGED faults
  BY <1>2, <1>5 DEF JobStep, LoadCandidate, Claim, TruthCheck, MarkSkipped, Mutate, MarkWritten,
                    MarkFailed, ReadBatch, CloseBatch, Unlock
<1>6. ASSUME NEW c \in Candidates, Fill(c) \/ BeginMark(c) \/ BeginUnmark(c) \/ CommitMark(c)
      PROVE  UNCHANGED faults
  BY <1>6 DEF Fill, BeginMark, BeginUnmark, CommitMark
<1>7. CASE KeyExpires \/ UNCHANGED vars
  BY <1>3, <1>7 DEF KeyExpires, vars
<1>8. QED
  BY <1>3, <1>4, <1>5, <1>6, <1>7, WritebackAssumption DEF Next, WritebackAssumption

LEMMA WorkedOnStep ==
  ASSUME IInv, WorkedOnIsRunning, [Next]_vars
  PROVE  WorkedOnIsRunning'
<1>1. TypeOK /\ ItemsHaveBatch /\ WritebackAssumption
  BY WritebackAssumption DEF IInv
<1>2. SUFFICES ASSUME NEW b \in Batches, NEW c \in Candidates, faults' = 0,
                      job'[b][c].step \in WorkedOn
               PROVE  item'[b][c] = "RUNNING"
  BY DEF WorkedOnIsRunning
<1>3. faults = 0 /\ ~JobThrows(b, c) /\ ~JobCrashes(b, c)
  BY <1>1, <1>2, FaultsCount
<1>4. ASSUME Claim(b, c) \/ MarkSkipped(b, c) \/ MarkWritten(b, c) \/ MarkFailed(b, c)
      PROVE  Claim(b, c) /\ item'[b][c] = "RUNNING"
  <2>1. job'[b][c].step \notin {"reading", "over"}
    BY <1>2 DEF WorkedOn
  <2>2. Claim(b, c)
    BY <1>1, <1>4, <2>1, JobSteps DEF Moves
  <2>3. ~Ends(b, c)
    BY <1>1, <2>1, JobIsOver DEF Moves, TypeOK, Jobs
  <2>4. item' = [item EXCEPT ![b] = [item[b] EXCEPT ![c] = "RUNNING"]] /\ item \in Table
    BY <1>1, <2>2, <2>3 DEF Claim, TypeOK, Table
  <2>5. QED
    BY <2>2, <2>4 DEF Table
<1>5. CASE job'[b][c] = job[b][c]
  <2>1. item[b][c] = "RUNNING"
    BY <1>2, <1>3, <1>5 DEF WorkedOnIsRunning
  <2>2. QED
    BY <1>1, <1>4, <2>1, OwnJobMovesItem
<1>6. CASE job'[b][c] # job[b][c]
  <2>1. JobStep(b, c) \/ Enqueue(b, c)
    BY <1>1, <1>3, <1>6, OneJobMoves DEF Moves
  <2>2. CASE TruthCheck(b, c) \/ Mutate(b, c)
    <3>1. job[b][c].step \in WorkedOn /\ UNCHANGED item
      BY <2>2 DEF TruthCheck, Mutate, WorkedOn
    <3>2. QED
      BY <1>3, <3>1 DEF WorkedOnIsRunning
  <2>3. CASE ReadBatch(b, c)
    BY <1>1, <1>2, <2>3, JobReads DEF Moves, WorkedOn
  <2>4. CASE Enqueue(b, c) \/ LoadCandidate(b, c) \/ CloseBatch(b, c) \/ Unlock(b, c)
    <3>1. \/ Moves(b, c, {"waiting"}) \/ Moves(b, c, {"claiming", "over"})
          \/ Moves(b, c, {"unlocking", "over"}) \/ Moves(b, c, {"over"})
      BY <1>1, <2>4, JobSteps
    <3>2. QED
      BY <1>2, <3>1 DEF Moves, WorkedOn
  <2>5. QED
    BY <1>4, <2>1, <2>2, <2>3, <2>4 DEF JobStep
<1>7. QED
  BY <1>5, <1>6

LEMMA AuditStep ==
  ASSUME IInv, WorkedOnIsRunning, WrittenIsAudited, [Next]_vars
  PROVE  WrittenIsAudited'
<1>1. /\ TypeOK /\ ItemsHaveBatch /\ WritebackAssumption
      /\ alt \in [Candidates -> {"", "merchant", "app"}] /\ job \in Jobs /\ item \in Table
  BY WritebackAssumption DEF IInv, TypeOK, Jobs, Table
<1>2. SUFFICES ASSUME NEW c \in Candidates, alt'[c] = "app", faults' = 0
               PROVE  \E b \in Batches : item'[b][c] = "SUCCESS" \/ job'[b][c].step = "recording"
  BY DEF WrittenIsAudited
<1>3. faults = 0 /\ \A b \in Batches, d \in Candidates : ~JobThrows(b, d) /\ ~JobCrashes(b, d)
  BY <1>1, <1>2, FaultsCount
<1>4. ASSUME NEW b \in Batches, Mutate(b, c), alt' = [alt EXCEPT ![c] = "app"], alt[c] # "app"
      PROVE  job'[b][c].step = "recording"
  <2>1. ~(faults' = faults + 1)
    BY <1>2, <1>3
  <2>2. To(b, c, "recording")
    BY <1>1, <1>4, <2>1 DEF Mutate
  <2>3. QED
    BY <1>1, <2>2, JobGoesOn DEF Moves, Steps, Busy
<1>5. CASE alt[c] = "app"
  <2>1. PICK b \in Batches : item[b][c] = "SUCCESS" \/ job[b][c].step = "recording"
    BY <1>3, <1>5 DEF WrittenIsAudited
  <2>2. CASE item[b][c] = "SUCCESS"
    BY <1>1, <2>2, OwnJobMovesItem
  <2>3. CASE job[b][c].step = "recording" /\ job'[b][c] # job[b][c]
    <3>1. JobStep(b, c) \/ Enqueue(b, c)
      BY <1>1, <1>3, <2>3, OneJobMoves DEF Moves
    <3>2. MarkWritten(b, c)
      BY <2>3, <3>1 DEF JobStep, Enqueue, LoadCandidate, Claim, TruthCheck, MarkSkipped, Mutate,
                        MarkFailed, ReadBatch, CloseBatch, Unlock
    <3>3. item[b][c] = "RUNNING"
      BY <1>3, <2>3 DEF WorkedOnIsRunning, WorkedOn
    <3>4. item' = [item EXCEPT ![b] = [item[b] EXCEPT ![c] = "SUCCESS"]]
      BY <3>2, <3>3 DEF MarkWritten
    <3>5. QED
      BY <1>1, <3>4 DEF Table
  <2>4. QED
    BY <2>1, <2>2, <2>3
<1>6. CASE alt[c] # "app"
  <2>1. PICK b \in Batches, d \in Candidates : Mutate(b, d) /\ alt' = [alt EXCEPT ![d] = "app"]
    BY <1>1, <1>2, <1>6, TextMoves DEF Fill
  <2>2. d = c
    BY <1>1, <1>2, <1>6, <2>1
  <2>3. QED
    BY <1>4, <1>6, <2>1, <2>2
<1>7. QED
  BY <1>5, <1>6

\* While nothing throws, dies or is lost, every text the app wrote has its audit row,
\* or a job on its way to add it: for any number of batches on the same images,
\* whatever the merchant and the marks do, and though the key expires under them.
THEOREM Audited == Spec => []WrittenIsAudited
<1> DEFINE AInv == WorkedOnIsRunning /\ WrittenIsAudited
<1>1. Init => AInv
  <2>1. NoJob.step = "absent"
    BY DEF NoJob
  <2>2. Init => WorkedOnIsRunning
    <3>1. Init => job = [b \in Batches |-> [c \in Candidates |-> NoJob]]
      BY DEF Init
    <3>2. QED
      BY <2>1, <3>1 DEF WorkedOn, WorkedOnIsRunning
  <2>3. Init => WrittenIsAudited
    BY DEF Init, WrittenIsAudited
  <2>4. QED
    BY <2>2, <2>3
<1>2. IInv /\ AInv /\ [Next]_vars => AInv'
  BY WorkedOnStep, AuditStep
<1>3. QED
  BY Invariant, <1>1, <1>2, PTL DEF Spec

\* The batch of a refused start that is FAILED is not given another status.
LEMMA RefusedStep ==
  ASSUME TypeOK, ClosingHasStatus, [Next]_vars, NEW b \in Batches,
         start[b] = "refused", batch[b].status = "FAILED"
  PROVE  batch'[b].status = "FAILED"
<1>1. batch \in Rows
  BY DEF TypeOK, Rows
<1>2. ASSUME NEW a \in Batches, NEW s \in Statuses, SetsStatus(a, s)
      PROVE  batch'[b].status = "FAILED"
  BY <1>1, <1>2, StatusChanges DEF SetsStatus
<1>3. ASSUME NEW a \in Batches, CreateBatch(a) PROVE batch'[b].status = "FAILED"
  <2>1. a # b /\ batch' = [batch EXCEPT ![a].status = "RUNNING"]
    BY <1>3 DEF CreateBatch
  <2>2. QED
    BY <1>1, <2>1, StatusChanges DEF Statuses
<1>4. ASSUME NEW a \in Batches, NEW c \in Candidates, Claims(a, c) \/ Outcome(a, c)
      PROVE  batch'[b].status = "FAILED"
  BY <1>1, <1>4, OneMoreItem DEF Claims, Outcome, OneMore
<1>5. QED
  BY <1>2, <1>3, <1>4, RowsMove

\* A start that was rolled back is never reported as successful.
THEOREM RefusedIsFailed == Spec => RefusedStaysFailed
<1>1. /\ IInv => TypeOK /\ ClosingHasStatus
      /\ TypeOK /\ ClosingHasStatus /\ [Next]_vars =>
           [\A b \in Batches :
              start[b] = "refused" /\ batch[b].status = "FAILED" => batch'[b].status = "FAILED"]_vars
  BY RefusedStep DEF IInv
<1>2. QED
  BY Invariant, <1>1, PTL DEF Spec, RefusedStaysFailed

-----------------------------------------------------------------------------
\* What a batch is closed with

Early == {"idle", "checked", "validated", "locked"}

\* Items are of members, and a batch has some; no job is there before them.
ItemsAreMembers(b) ==
  /\ \A c \in Candidates : item[b][c] # "ABSENT" => c \in members[b]
  /\ start[b] \in Early => \A c \in Candidates : job[b][c].step = "absent"
  /\ start[b] \in {"validated", "locked", "created", "started"} => members[b] # {}

\* A job that closes its batch has read it complete, and so was a batch it closed;
\* the status is still the one the counters give.
ClosesComplete(b) ==
  \A c \in Candidates : job[b][c].step = "closing" =>
    Complete(b) /\ job[b][c].verdict = FinalStatus(batch[b])

ClosedComplete(b) ==
  batch[b].status \in Final /\ start[b] \in {"created", "started"} =>
    Complete(b) /\ batch[b].status = FinalStatus(batch[b])

ClosingInv == \A b \in Batches : ItemsAreMembers(b) /\ ClosesComplete(b) /\ ClosedComplete(b)

\* Disjoint parts of a finite set that are together as large are all of it.
LEMMA PartsFill ==
  ASSUME NEW S, IsFiniteSet(S), NEW A \in SUBSET S, NEW B \in SUBSET S, NEW C \in SUBSET S,
         A \cap B = {}, A \cap C = {}, B \cap C = {},
         Cardinality(A) + Cardinality(B) + Cardinality(C) >= Cardinality(S)
  PROVE  A \cup B \cup C = S
<1>1. /\ IsFiniteSet(A) /\ IsFiniteSet(B) /\ IsFiniteSet(C)
      /\ IsFiniteSet(A \cup B) /\ IsFiniteSet(A \cup B \cup C)
  BY FS_Subset, FS_Union
<1>2. /\ Cardinality(A) \in Nat /\ Cardinality(B) \in Nat /\ Cardinality(C) \in Nat
      /\ Cardinality(S) \in Nat
  BY <1>1, FS_CardinalityType
<1>3. Cardinality(A \cup B) = Cardinality(A) + Cardinality(B)
  <2>1. Cardinality(A \cap B) = 0
    BY FS_EmptySet
  <2>2. Cardinality(A \cup B) = Cardinality(A) + Cardinality(B) - Cardinality(A \cap B)
    BY <1>1, FS_Union
  <2>3. QED
    BY <1>2, <2>1, <2>2
<1>4. Cardinality((A \cup B) \cup C) = Cardinality(A) + Cardinality(B) + Cardinality(C)
  <2>1. (A \cup B) \cap C = {}
    OBVIOUS
  <2>2. Cardinality((A \cup B) \cap C) = 0
    BY <2>1, FS_EmptySet
  <2>3. Cardinality((A \cup B) \cup C) = Cardinality(A \cup B) + Cardinality(C) - Cardinality((A \cup B) \cap C)
    BY <1>1, FS_Union
  <2>4. QED
    BY <1>2, <1>3, <2>2, <2>3
<1>5. Cardinality(A \cup B \cup C) >= Cardinality(S) /\ A \cup B \cup C \subseteq S
  BY <1>4
<1>6. Cardinality(A \cup B \cup C) <= Cardinality(S) /\ Cardinality(A \cup B \cup C) \in Nat
  BY <1>1, <1>5, FS_Subset, FS_CardinalityType
<1>7. Cardinality(A \cup B \cup C) = Cardinality(S)
  BY <1>2, <1>5, <1>6
<1>8. QED
  BY <1>5, <1>7, FS_Subset

\* A complete batch has an outcome for every member, and so no item to come.
LEMMA CompleteIsFinished ==
  ASSUME TypeOK, CountersMatchItems, NEW b \in Batches, ItemsAreMembers(b), Complete(b),
         WritebackAssumption
  PROVE  /\ \A c \in members[b] : item[b][c] \in Finished
         /\ \A c \in Candidates : item[b][c] \notin {"PENDING", "RUNNING"}
<1>1. members[b] \in SUBSET Candidates /\ IsFiniteSet(members[b])
  BY FS_Subset DEF TypeOK, WritebackAssumption
<1>2. /\ Items(b, "SUCCESS") \in SUBSET members[b] /\ Items(b, "FAILED") \in SUBSET members[b]
      /\ Items(b, "SKIPPED_ALREADY_FILLED") \in SUBSET members[b]
  BY DEF ItemsAreMembers, Items
<1>3. Items(b, "SUCCESS") \cup Items(b, "FAILED") \cup Items(b, "SKIPPED_ALREADY_FILLED") = members[b]
  <2>1. /\ Items(b, "SUCCESS") \cap Items(b, "FAILED") = {}
        /\ Items(b, "SUCCESS") \cap Items(b, "SKIPPED_ALREADY_FILLED") = {}
        /\ Items(b, "FAILED") \cap Items(b, "SKIPPED_ALREADY_FILLED") = {}
    BY DEF Items
  <2>2. Cardinality(Items(b, "SUCCESS")) + Cardinality(Items(b, "FAILED"))
        + Cardinality(Items(b, "SKIPPED_ALREADY_FILLED")) >= Cardinality(members[b])
    BY DEF CountersMatchItems, Complete
  <2>3. QED
    BY <1>1, <1>2, <2>1, <2>2, PartsFill
<1>4. \A c \in members[b] : item[b][c] \in Finished
  BY <1>3 DEF Items, Finished
<1>5. QED
  BY <1>4 DEF ItemsAreMembers, Finished

\* How a request moves a batch's start, and its members
LEMMA RequestMoves ==
  ASSUME TypeOK, [Next]_vars, NEW b \in Batches
  PROVE  /\ \/ members'[b] = members[b]
            \/ start[b] = "checked" /\ start'[b] = "validated" /\ members'[b] # {} /\ UNCHANGED <<batch, item, job>>
         /\ start'[b] \in Early => start[b] \in Early /\ ~CreateBatch(b)
         /\ start'[b] = "validated" => start[b] = "validated" \/ members'[b] # {}
         /\ start'[b] = "locked" => start[b] \in {"validated", "locked"}
         /\ start'[b] \in {"created", "started"} => start[b] \in {"created", "started"} \/ CreateBatch(b)
<1>1. start \in [Batches -> Starts] /\ members \in [Batches -> SUBSET Candidates]
  BY DEF TypeOK
<1>2. CASE UNCHANGED <<start, members>>
  BY <1>1, <1>2 DEF Early, CreateBatch, Starting
<1>3. ASSUME NEW a \in Batches, NEW S \in SUBSET Candidates, Validate(a, S)
      PROVE  /\ \/ members'[b] = members[b]
                \/ start[b] = "checked" /\ start'[b] = "validated" /\ members'[b] # {} /\ UNCHANGED <<batch, item, job>>
             /\ start'[b] = start[b] \/ (start[b] = "checked" /\ start'[b] = "validated" /\ members'[b] # {})
             /\ ~CreateBatch(b)
  <2>1. /\ start[a] = "checked" /\ start' = [start EXCEPT ![a] = "validated"]
        /\ members' = [members EXCEPT ![a] = Valid(S)] /\ Valid(S) # {} /\ UNCHANGED <<batch, item, job>>
    BY <1>3 DEF Validate, Starting
  <2>2. ~CreateBatch(b)
    BY <1>1, <2>1 DEF CreateBatch, Starting
  <2>3. QED
    BY <1>1, <2>1, <2>2
<1>4. ASSUME NEW a \in Batches, CreateBatch(a)
      PROVE  UNCHANGED members /\ (a = b \/ start'[b] = start[b]) /\ start'[a] = "created"
             /\ (CreateBatch(b) => start'[b] = "created")
  BY <1>1, <1>4 DEF CreateBatch, Starting
<1>5. ASSUME NEW a \in Batches,
             \/ CheckKey(a) \/ StartFails(a) \/ TakeKey(a) \/ Answer(a)
             \/ RollbackKey(a) \/ RollbackBatch(a)
      PROVE  /\ UNCHANGED members
             /\ \/ start'[b] = start[b]
                \/ start[b] = "idle" /\ start'[b] = "checked"
                \/ start[b] = "validated" /\ start'[b] = "locked"
                \/ start[b] = "created" /\ start'[b] = "started"
                \/ start'[b] \in {"refused", "unlocking", "deleting", "died"}
  BY <1>1, <1>5 DEF CheckKey, StartFails, TakeKey, Answer, RollbackKey, RollbackBatch, Starting
<1>6. CreateBatch(b) => start'[b] = "created"
  BY <1>1 DEF CreateBatch, Starting
<1>7. \/ UNCHANGED <<start, members>>
      \/ \E a \in Batches : \/ CreateBatch(a)
                            \/ \E S \in SUBSET Candidates : Validate(a, S)
                            \/ CheckKey(a) \/ StartFails(a) \/ TakeKey(a) \/ Answer(a)
                            \/ RollbackKey(a) \/ RollbackBatch(a)
  <2>1. ASSUME NEW a \in Batches, NEW c \in Candidates,
               JobStep(a, c) \/ JobThrows(a, c) \/ JobCrashes(a, c) \/ Enqueue(a, c)
        PROVE  UNCHANGED <<start, members>>
    BY <2>1 DEF JobStep, LoadCandidate, Claim, TruthCheck, MarkSkipped, Mutate, MarkWritten, Enqueue,
                MarkFailed, ReadBatch, CloseBatch, Unlock, JobThrows, JobCrashes, request
  <2>2. ASSUME NEW c \in Candidates, Fill(c) \/ BeginMark(c) \/ BeginUnmark(c) \/ CommitMark(c)
        PROVE  UNCHANGED <<start, members>>
    BY <2>2 DEF Fill, BeginMark, BeginUnmark, CommitMark, request
  <2>3. CASE KeyExpires \/ UNCHANGED vars
    BY <2>3 DEF KeyExpires, vars, request
  <2>4. QED
    BY <2>1, <2>2, <2>3, WritebackAssumption DEF Next, StartStep, WritebackAssumption
<1>8. CASE \E a \in Batches, S \in SUBSET Candidates : Validate(a, S)
  BY <1>3, <1>8 DEF Early
<1>9. CASE \E a \in Batches : CreateBatch(a)
  BY <1>1, <1>4, <1>9 DEF Early
<1>10. CASE \E a \in Batches : \/ CheckKey(a) \/ StartFails(a) \/ TakeKey(a) \/ Answer(a)
                               \/ RollbackKey(a) \/ RollbackBatch(a)
  BY <1>5, <1>6, <1>10 DEF Early
<1>11. QED
  BY <1>2, <1>7, <1>8, <1>9, <1>10

SameCounters(b) == /\ batch'[b].success = batch[b].success
                   /\ batch'[b].failed = batch[b].failed
                   /\ batch'[b].skipped = batch[b].skipped

\* The counters of a complete batch, and what they give, stay.
LEMMA StaysComplete ==
  ASSUME IInv, [Next]_vars, NEW b \in Batches, ItemsAreMembers(b), Complete(b), members'[b] = members[b]
  PROVE  Complete(b)' /\ FinalStatus(batch[b])' = FinalStatus(batch[b])
<1>1. batch \in Rows /\ item \in Table /\ WritebackAssumption
  BY WritebackAssumption DEF IInv, TypeOK, Rows, Table
<1>2. \A c \in Candidates : item[b][c] \notin {"PENDING", "RUNNING"}
  BY <1>1, CompleteIsFinished DEF IInv
<1>3. SameCounters(b)
  <2>1. CASE UNCHANGED batch
    BY <2>1 DEF SameCounters
  <2>2. ASSUME NEW a \in Batches, NEW s \in Statuses, batch' = [batch EXCEPT ![a].status = s]
        PROVE  SameCounters(b)
    BY <1>1, <2>2, StatusChanges DEF SameCounters
  <2>3. ASSUME NEW a \in Batches, NEW c \in Candidates, Outcome(a, c) PROVE batch'[b] = batch[b]
    <3>1. a # b
      BY <1>2, <2>3 DEF Outcome
    <3>2. OneMore(a, 1, 0, 0) \/ OneMore(a, 0, 1, 0) \/ OneMore(a, 0, 0, 1)
      BY <1>1, <2>3, OneMoreItem DEF Outcome
    <3>3. QED
      BY <3>1, <3>2 DEF OneMore
  <2>4. \/ UNCHANGED batch
        \/ \E a \in Batches, s \in Statuses : batch' = [batch EXCEPT ![a].status = s]
        \/ \E a \in Batches, c \in Candidates : Outcome(a, c)
    BY RowsMove DEF IInv, SetsStatus, CreateBatch, Claims, Statuses
  <2>5. QED
    BY <2>1, <2>2, <2>3, <2>4 DEF SameCounters
<1>4. QED
  BY <1>3 DEF SameCounters, Complete, FinalStatus

\* An item changes only in a batch being created, or when it is to come.
LEMMA MembersStep ==
  ASSUME IInv, [Next]_vars, NEW b \in Batches, ItemsAreMembers(b)
  PROVE  ItemsAreMembers(b)'
<1>1. TypeOK /\ ItemsHaveBatch /\ ClosingHasStatus /\ WritebackAssumption /\ item \in Table
  BY WritebackAssumption DEF IInv, TypeOK, Table
<1>2. ASSUME NEW c \in Candidates, item'[b][c] # "ABSENT" PROVE c \in members'[b]
  <2>1. CASE members'[b] # members[b]
    <3>1. start[b] = "checked" /\ UNCHANGED item
      BY <1>1, <2>1, RequestMoves
    <3>2. item[b][c] = "ABSENT"
      BY <1>1, <3>1 DEF ItemsHaveBatch, Items
    <3>3. QED
      BY <1>2, <3>1, <3>2
  <2>2. CASE item[b][c] # "ABSENT" /\ members'[b] = members[b]
    BY <2>2 DEF ItemsAreMembers
  <2>3. CASE item[b][c] = "ABSENT" /\ members'[b] = members[b]
    <3>1. PICK a \in Batches : \/ CreateBatch(a)
                               \/ \E d \in Candidates : Claims(a, d) \/ Outcome(a, d)
      BY <1>1, <1>2, <2>3, RowsMove
    <3>2. CASE CreateBatch(a)
      <4>1. item' = [item EXCEPT ![a] = [d \in Candidates |-> IF d \in members[a] THEN "PENDING" ELSE "ABSENT"]]
        BY <3>2 DEF CreateBatch
      <4>2. QED
        BY <1>1, <1>2, <2>3, <4>1 DEF Table
    <3>3. ASSUME NEW d \in Candidates, Claims(a, d) \/ Outcome(a, d) PROVE c \in members'[b]
      <4>1. \E s : item' = [item EXCEPT ![a] = [item[a] EXCEPT ![d] = s]]
        BY <3>3 DEF Claims, Outcome
      <4>2. a = b /\ d = c
        BY <1>1, <1>2, <2>3, <4>1 DEF Table
      <4>3. QED
        BY <2>3, <3>3, <4>2 DEF Claims, Outcome
    <3>4. QED
      BY <3>1, <3>2, <3>3
  <2>4. QED
    BY <2>1, <2>2, <2>3
<1>3. ASSUME NEW c \in Candidates, start'[b] \in Early PROVE job'[b][c].step = "absent"
  <2>1. start[b] \in Early /\ job[b][c].step = "absent"
    BY <1>1, <1>3, RequestMoves DEF ItemsAreMembers
  <2>2. ~(JobStep(b, c) \/ Enqueue(b, c) \/ JobThrows(b, c) \/ JobCrashes(b, c))
    BY <2>1 DEF Early, JobStep, LoadCandidate, Claim, TruthCheck, MarkSkipped, Mutate, MarkWritten,
                Enqueue, MarkFailed, ReadBatch, CloseBatch, Unlock, JobThrows, JobCrashes, Busy
  <2>3. job'[b][c] = job[b][c]
    BY <1>1, <2>2, OneJobMoves DEF Moves
  <2>4. QED
    BY <2>1, <2>3
<1>4. ASSUME start'[b] \in {"validated", "locked", "created", "started"} PROVE members'[b] # {}
  <2>1. CASE members'[b] # members[b]
    BY <1>1, <2>1, RequestMoves
  <2>2. CASE members'[b] = members[b]
    <3>1. CreateBatch(b) => start[b] = "locked"
      BY DEF CreateBatch
    <3>2. start[b] \in {"validated", "locked", "created", "started"} \/ members'[b] # {}
      BY <1>1, <1>4, <3>1, RequestMoves
    <3>3. QED
      BY <2>2, <3>2 DEF ItemsAreMembers
  <2>3. QED
    BY <2>1, <2>2
<1>5. QED
  BY <1>2, <1>3, <1>4 DEF ItemsAreMembers

\* A job comes to close its batch by reading it complete.
LEMMA CloserReads ==
  ASSUME TypeOK, [Next]_vars, NEW b \in Batches, NEW c \in Candidates,
         job'[b][c] # job[b][c], job'[b][c].step = "closing"
  PROVE  /\ Complete(b) /\ job'[b][c].verdict = FinalStatus(batch[b])
         /\ UNCHANGED <<batch, members>>
<1>1. /\ JobStep(b, c) \/ Enqueue(b, c) \/ JobThrows(b, c) \/ JobCrashes(b, c)
      /\ Moves(b, c, Steps)
  BY OneJobMoves, WritebackAssumption DEF Moves
<1>2. CASE JobThrows(b, c) \/ JobCrashes(b, c)
  BY <1>2, JobIsDisturbed, WritebackAssumption DEF Moves, TypeOK, Jobs
<1>3. CASE \/ Enqueue(b, c) \/ LoadCandidate(b, c) \/ Claim(b, c) \/ TruthCheck(b, c) \/ Mutate(b, c)
           \/ MarkSkipped(b, c) \/ MarkWritten(b, c) \/ MarkFailed(b, c) \/ CloseBatch(b, c) \/ Unlock(b, c)
  <2>1. ASSUME NEW S \in SUBSET (Steps \ {"closing"}), Moves(b, c, S)
        PROVE  job'[b][c].step # "closing"
    BY <2>1 DEF Moves
  <2>2. \E S \in SUBSET (Steps \ {"closing"}) : Moves(b, c, S)
    BY <1>3, JobSteps DEF Steps, Busy
  <2>3. QED
    BY <2>1, <2>2
<1>4. CASE ReadBatch(b, c)
  <2>1. ~Ends(b, c)
    BY JobIsOver DEF Moves, TypeOK, Jobs
  <2>2. /\ Complete(b) /\ UNCHANGED <<batch, members>>
        /\ job' = [job EXCEPT ![b] = [job[b] EXCEPT ![c] = Closing(job[b][c], FinalStatus(batch[b]))]]
    BY <1>4, <2>1 DEF ReadBatch, request
  <2>3. job'[b][c] = Closing(job[b][c], FinalStatus(batch[b]))
    BY <2>2 DEF TypeOK
  <2>4. QED
    BY <2>2, <2>3 DEF Closing
<1>5. QED
  BY <1>1, <1>2, <1>3, <1>4 DEF JobStep

\* A batch gets its status when it is created, rolled back or closed.
LEMMA StatusMoves ==
  ASSUME TypeOK, ClosingHasStatus, [Next]_vars, NEW b \in Batches, batch'[b].status # batch[b].status
  PROVE  \/ CreateBatch(b) /\ batch'[b].status = "RUNNING"
         \/ RollbackBatch(b) /\ start'[b] = "refused"
         \/ \E c \in Candidates : /\ job[b][c].step = "closing" /\ UNCHANGED <<members, item>>
                                  /\ batch'[b].status = job[b][c].verdict
<1>1. batch \in Rows /\ start \in [Batches -> Starts] /\ job \in Jobs
  BY DEF TypeOK, Rows, Jobs
<1>2. ASSUME NEW a \in Batches, CreateBatch(a)
      PROVE  a = b /\ batch'[b].status = "RUNNING"
  BY <1>1, <1>2, StatusChanges DEF CreateBatch, Statuses
<1>3. ASSUME NEW a \in Batches, RollbackBatch(a) PROVE a = b /\ start'[b] = "refused"
  <2>1. batch' = [batch EXCEPT ![a].status = IF batch[a].status = "NONE" THEN "NONE" ELSE "FAILED"]
    BY <1>3 DEF RollbackBatch
  <2>2. a = b
    BY <1>1, <2>1, StatusChanges DEF Statuses, Final
  <2>3. QED
    BY <1>1, <1>3, <2>2 DEF RollbackBatch, Starting
<1>4. ASSUME NEW a \in Batches, NEW c \in Candidates, CloseBatch(a, c)
      PROVE  /\ a = b /\ job[b][c].step = "closing" /\ UNCHANGED <<members, item>>
             /\ batch'[b].status = job[b][c].verdict
  <2>1. batch' = [batch EXCEPT ![a].status = job[a][c].verdict] /\ job[a][c].verdict \in Statuses
    BY <1>4 DEF CloseBatch, ClosingHasStatus, Statuses
  <2>2. \A d \in Batches : batch'[d].status = IF d = a THEN job[a][c].verdict ELSE batch[d].status
    BY <1>1, <2>1, StatusChanges
  <2>3. QED
    BY <1>4, <2>2 DEF CloseBatch, request
<1>5. ASSUME NEW a \in Batches, NEW c \in Candidates, Outcome(a, c) PROVE FALSE
  BY <1>1, <1>5, OneMoreItem DEF Outcome, OneMore
<1>6. \/ UNCHANGED batch
      \/ \E a \in Batches : CreateBatch(a) \/ RollbackBatch(a)
      \/ \E a \in Batches, c \in Candidates : CloseBatch(a, c) \/ Outcome(a, c)
  <2>1. ASSUME NEW a \in Batches,
               \/ CheckKey(a) \/ StartFails(a) \/ TakeKey(a) \/ Answer(a) \/ RollbackKey(a)
               \/ \E S \in SUBSET Candidates : Validate(a, S)
               \/ \E c \in Candidates : Enqueue(a, c)
        PROVE  UNCHANGED batch
    BY <2>1 DEF CheckKey, StartFails, TakeKey, Answer, RollbackKey, Validate, Enqueue
  <2>2. ASSUME NEW a \in Batches, NEW c \in Candidates,
               \/ LoadCandidate(a, c) \/ Claim(a, c) \/ TruthCheck(a, c) \/ Mutate(a, c) \/ ReadBatch(a, c)
               \/ Unlock(a, c) \/ JobThrows(a, c) \/ JobCrashes(a, c)
        PROVE  UNCHANGED batch
    BY <2>2 DEF LoadCandidate, Claim, TruthCheck, Mutate, ReadBatch, Unlock, JobThrows, JobCrashes
  <2>3. ASSUME NEW c \in Candidates, Fill(c) \/ BeginMark(c) \/ BeginUnmark(c) \/ CommitMark(c)
        PROVE  UNCHANGED batch
    BY <2>3 DEF Fill, BeginMark, BeginUnmark, CommitMark
  <2>4. CASE KeyExpires \/ UNCHANGED vars
    BY <2>4 DEF KeyExpires, vars
  <2>5. ASSUME NEW a \in Batches, NEW c \in Candidates,
               MarkSkipped(a, c) \/ MarkWritten(a, c) \/ MarkFailed(a, c)
        PROVE  UNCHANGED batch \/ Outcome(a, c)
    BY <2>5 DEF MarkSkipped, MarkWritten, MarkFailed, Failable, Outcome
  <2>6. QED
    BY <2>1, <2>2, <2>3, <2>4, <2>5, WritebackAssumption DEF Next, StartStep, JobStep, WritebackAssumption
<1>7. QED
  BY <1>2, <1>3, <1>4, <1>5, <1>6

LEMMA ClosingStep ==
  ASSUME IInv, ClosingInv, [Next]_vars
  PROVE  ClosingInv'
<1> SUFFICES ASSUME NEW b \in Batches
             PROVE  ItemsAreMembers(b)' /\ ClosesComplete(b)' /\ ClosedComplete(b)'
  BY DEF ClosingInv
<1>1. TypeOK /\ ClosingHasStatus /\ ItemsAreMembers(b) /\ ClosesComplete(b) /\ ClosedComplete(b)
  BY DEF IInv, ClosingInv
<1>2. ItemsAreMembers(b)'
  BY <1>1, MembersStep
<1>3. ASSUME NEW c \in Candidates, job'[b][c].step = "closing"
      PROVE  Complete(b)' /\ job'[b][c].verdict = FinalStatus(batch[b])'
  <2>1. CASE job'[b][c] # job[b][c]
    BY <1>1, <1>3, <2>1, CloserReads DEF Complete
  <2>2. CASE job'[b][c] = job[b][c]
    <3>1. job[b][c].step = "closing" /\ Complete(b) /\ job[b][c].verdict = FinalStatus(batch[b])
      BY <1>1, <1>3, <2>2 DEF ClosesComplete
    <3>2. start[b] # "checked"
      BY <1>1, <3>1 DEF ItemsAreMembers, Early
    <3>3. members'[b] = members[b]
      BY <1>1, <3>2, RequestMoves
    <3>4. QED
      BY <1>1, <2>2, <3>1, <3>3, StaysComplete
  <2>3. QED
    BY <2>1, <2>2
<1>4. ASSUME batch'[b].status \in Final, start'[b] \in {"created", "started"}
      PROVE  Complete(b)' /\ batch'[b].status = FinalStatus(batch[b])'
  <2>1. start[b] \in {"created", "started"} /\ members'[b] = members[b]
    <3>1. CreateBatch(b) => batch'[b].status = "RUNNING"
      BY <1>1, StatusChanges DEF TypeOK, CreateBatch, Rows, Statuses
    <3>2. start[b] \in {"created", "started"}
      BY <1>1, <1>4, <3>1, RequestMoves DEF Final
    <3>3. QED
      BY <1>1, <3>2, RequestMoves
  <2>2. CASE batch'[b].status = batch[b].status
    BY <1>1, <1>4, <2>1, <2>2, StaysComplete DEF ClosedComplete
  <2>3. CASE batch'[b].status # batch[b].status
    <3>1. PICK c \in Candidates : /\ job[b][c].step = "closing" /\ UNCHANGED <<members, item>>
                                  /\ batch'[b].status = job[b][c].verdict
      BY <1>1, <1>4, <2>3, StatusMoves DEF Final
    <3>2. Complete(b) /\ job[b][c].verdict = FinalStatus(batch[b])
      BY <1>1, <3>1 DEF ClosesComplete
    <3>3. QED
      BY <1>1, <2>1, <3>1, <3>2, StaysComplete
  <2>4. QED
    BY <2>2, <2>3
<1>5. QED
  BY <1>2, <1>3, <1>4 DEF ClosesComplete, ClosedComplete

LEMMA ClosingInit == Init => ClosingInv
<1> SUFFICES ASSUME Init, NEW b \in Batches
             PROVE  ItemsAreMembers(b) /\ ClosesComplete(b) /\ ClosedComplete(b)
  BY DEF ClosingInv
<1>1. start[b] = "idle" /\ batch[b] = NoBatch
  BY DEF Init
<1>2. \A c \in Candidates : item[b][c] = "ABSENT" /\ job[b][c] = NoJob
  BY DEF Init
<1>3. QED
  BY <1>1, <1>2 DEF ItemsAreMembers, ClosesComplete, ClosedComplete, NoJob, NoBatch, Final

\* A batch that its jobs closed has an outcome for every item, and the status
\* its items give it, although each job computed it from an earlier read
\* (finalizeBatchIfComplete).
THEOREM ClosedFits == Spec => []ClosedBatchFits
<1>1. IInv /\ ClosingInv => ClosedBatchFits
  <2> SUFFICES ASSUME IInv, ClosingInv, NEW b \in Batches,
                      batch[b].status \in Final, start[b] \in {"created", "started"}
               PROVE  /\ \A c \in members[b] : item[b][c] \in Finished
                      /\ batch[b].status = "SUCCESS" <=> Items(b, "FAILED") = {}
                      /\ batch[b].status = "FAILED" <=> Items(b, "FAILED") = members[b]
    BY DEF ClosedBatchFits
  <2>1. /\ ItemsAreMembers(b) /\ members[b] # {} /\ Complete(b)
        /\ batch[b].status = FinalStatus(batch[b])
    BY DEF ClosingInv, ItemsAreMembers, ClosedComplete
  <2>2. \A c \in members[b] : item[b][c] \in Finished
    BY <2>1, CompleteIsFinished, WritebackAssumption DEF IInv
  <2>3. /\ batch[b].failed = Cardinality(Items(b, "FAILED"))
        /\ batch[b].success = Cardinality(Items(b, "SUCCESS"))
        /\ batch[b].skipped = Cardinality(Items(b, "SKIPPED_ALREADY_FILLED"))
    BY DEF IInv, CountersMatchItems
  <2>4. ASSUME NEW s PROVE Cardinality(Items(b, s)) \in Nat /\ (Cardinality(Items(b, s)) = 0 <=> Items(b, s) = {})
    <3>1. IsFiniteSet(Items(b, s))
      BY FS_Subset, WritebackAssumption DEF Items, WritebackAssumption
    <3>2. QED
      BY <3>1, FS_CardinalityType, FS_EmptySet
  <2>5. /\ batch[b].failed \in Nat /\ batch[b].success \in Nat /\ batch[b].skipped \in Nat
        /\ batch[b].failed = 0 <=> Items(b, "FAILED") = {}
        /\ batch[b].success = 0 <=> Items(b, "SUCCESS") = {}
        /\ batch[b].skipped = 0 <=> Items(b, "SKIPPED_ALREADY_FILLED") = {}
    BY <2>3, <2>4
  <2>6. /\ batch[b].status = "SUCCESS" <=> batch[b].failed = 0
        /\ batch[b].status = "FAILED" <=>
             batch[b].failed # 0 /\ batch[b].success = 0 /\ batch[b].skipped = 0
    BY <2>1, <2>5 DEF FinalStatus
  <2>7. Items(b, "FAILED") = members[b] <=>
          /\ Items(b, "FAILED") # {} /\ Items(b, "SUCCESS") = {} /\ Items(b, "SKIPPED_ALREADY_FILLED") = {}
    BY ZenonT(60), <2>1, <2>2 DEF ItemsAreMembers, Items, Finished, IInv, TypeOK
  <2>8. QED
    BY <2>2, <2>5, <2>6, <2>7
<1>2. QED
  BY Invariant, ClosingInit, ClosingStep, <1>1, PTL DEF Spec
=============================================================================
