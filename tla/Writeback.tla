----------------------------- MODULE Writeback -----------------------------
(***************************************************************************)
(* Writeback of one shop, from POST /api/writeback/start to the end of the *)
(* batch: startWriteback (writeback.service.ts), the writeback jobs that   *)
(* BullMQ runs, retries and redelivers (writeback.processor.ts), the       *)
(* handler of jobs that failed for good (worker/index.ts), and those who   *)
(* change the same images meanwhile: the merchant in the Shopify admin and *)
(* the decorative marks (decorative-mark.server.ts).                       *)
(*                                                                         *)
(* A request, a job and a mark are sequences of transactions and calls,    *)
(* one action for each.  The Redis key that keeps writebacks apart has a   *)
(* lifetime nobody extends and may expire under any of them; the lock of   *)
(* scans, which a writeback only reads, is in OperationLock.               *)
(***************************************************************************)
EXTENDS Integers, FiniteSets

CONSTANTS Batches, Candidates,
          None,           \* not a batch
          Touched,        \* bound: candidates the merchant fills, or marks decorative
          Attempts,       \* attempts of a writeback job
          MaxFaults       \* bound on exceptions, crashes and lost answers

ASSUME WritebackAssumption ==
  /\ None \notin Batches /\ IsFiniteSet(Candidates) /\ Touched \subseteq Candidates
  /\ Attempts \in Nat \ {0} /\ MaxFaults \in Nat

VARIABLES alt,         \* candidate -> alt text of its image in Shopify
          known,       \* candidate -> its target is recorded as having one
          candidate,   \* candidate -> status of its alt_candidate row
          decorative,  \* candidates with an active decorative_mark
          marking,     \* candidate -> status an open mark transaction will set
          key,         \* batch that holds the Redis key, or None
          start,       \* batch -> how far its start request is
          members,     \* batch -> candidates found valid for it
          batch,       \* batch -> its job_batch row
          item,        \* batch -> candidate -> status of its job_item row
          job,         \* batch -> candidate -> its writeback job
          kept,        \* history: candidates filled while no job was writing
          marked,      \* history: candidates ever marked decorative
          faults

shop == <<alt, known, kept>>
marks == <<decorative, marking, marked>>
request == <<start, members>>
vars == <<shop, candidate, marks, key, request, batch, item, job, faults>>

-----------------------------------------------------------------------------
Processable == {"GENERATED", "WRITEBACK_FAILED_RETRYABLE"}
CandidateStatuses == Processable \cup {"WRITTEN", "RESOLVED", "DECORATIVE_SKIPPED"}

Final == {"SUCCESS", "PARTIAL_SUCCESS", "FAILED"}
BatchRows == [status : {"NONE", "RUNNING"} \cup Final,
              success : Nat, failed : Nat, skipped : Nat]
NoBatch == [status |-> "NONE", success |-> 0, failed |-> 0, skipped |-> 0]

ItemStatuses == {"ABSENT", "PENDING", "RUNNING", "SUCCESS", "FAILED", "SKIPPED_ALREADY_FILLED"}
Finished == {"SUCCESS", "FAILED", "SKIPPED_ALREADY_FILLED"}

\* A job is the transaction or call it does next, and the batch status it
\* computed; "last" when its attempts are used up and the handler of the
\* "failed" event has taken over.
Busy == {"claiming", "checking", "skipping", "writing", "recording", "failing", "reading",
         "closing", "unlocking"}
JobRows == [step : {"absent", "waiting", "over"} \cup Busy,
            verdict : {"-"} \cup Final,
            tries : Nat,
            stalled : BOOLEAN,
            last : BOOLEAN]
NoJob == [step |-> "absent", verdict |-> "-", tries |-> 0, stalled |-> FALSE, last |-> FALSE]

Starts == {"idle", "checked", "validated", "locked", "created", "started",
           "unlocking", "deleting", "refused", "died"}

Starting(b, s) == start' = [start EXCEPT ![b] = s]
To(b, c, s) == job' = [job EXCEPT ![b][c].step = s]

\* The job is over, for BullMQ too, and what it had left is forgotten.
Over == [step |-> "over", verdict |-> "-", tries |-> 0, stalled |-> FALSE, last |-> FALSE]
Ends(b, c) == job' = [job EXCEPT ![b][c] = Over]

\* What an exception makes of a job, and a crash, and a batch read as complete
Retried(j) == [step |-> IF j.tries + 1 < Attempts THEN "waiting" ELSE "failing",
               verdict |-> j.verdict, tries |-> j.tries + 1, stalled |-> j.stalled,
               last |-> j.tries + 1 = Attempts]
Redelivered(j) == [step |-> "waiting", verdict |-> j.verdict, tries |-> j.tries,
                   stalled |-> TRUE, last |-> FALSE]
Closing(j, status) == [step |-> "closing", verdict |-> status, tries |-> j.tries,
                       stalled |-> j.stalled, last |-> j.last]

Init == /\ alt = [c \in Candidates |-> ""]
        /\ known = [c \in Candidates |-> FALSE]
        /\ candidate = [c \in Candidates |-> "GENERATED"]
        /\ decorative = {}
        /\ marking = [c \in Candidates |-> "-"]
        /\ key = None
        /\ start = [b \in Batches |-> "idle"]
        /\ members = [b \in Batches |-> {}]
        /\ batch = [b \in Batches |-> NoBatch]
        /\ item = [b \in Batches |-> [c \in Candidates |-> "ABSENT"]]
        /\ job = [b \in Batches |-> [c \in Candidates |-> NoJob]]
        /\ kept = {}
        /\ marked = {}
        /\ faults = 0

-----------------------------------------------------------------------------
\* The start request

\* Of the requested candidates, those that can be written
Valid(S) == {c \in S : candidate[c] \in Processable /\ c \notin decorative}

\* isWritebackLocked, or the request is refused.
CheckKey(b) ==
  /\ start[b] = "idle"
  /\ key = None
  /\ Starting(b, "checked")
  /\ UNCHANGED <<shop, candidate, marks, key, members, batch, item, job, faults>>

\* Some of the requested candidates can be written, or the request is refused.
Validate(b, S) ==
  /\ start[b] = "checked"
  /\ Valid(S) # {}
  /\ members' = [members EXCEPT ![b] = Valid(S)]
  /\ Starting(b, "validated")
  /\ UNCHANGED <<shop, candidate, marks, key, batch, item, job, faults>>

\* acquireWritebackLock: SET NX
TakeKey(b) ==
  /\ start[b] = "validated"
  /\ \/ key = None /\ key' = b /\ Starting(b, "locked")
     \/ key # None /\ Starting(b, "refused") /\ UNCHANGED key
  /\ UNCHANGED <<shop, candidate, marks, members, batch, item, job, faults>>

CreateBatch(b) ==
  /\ start[b] = "locked"
  /\ batch' = [batch EXCEPT ![b].status = "RUNNING"]
  /\ item' = [item EXCEPT ![b] = [c \in Candidates |->
                                    IF c \in members[b] THEN "PENDING" ELSE "ABSENT"]]
  /\ Starting(b, "created")
  /\ UNCHANGED <<shop, candidate, marks, key, members, job, faults>>

\* The jobs are enqueued one by one and may run at once; the request is
\* answered after the last.
Enqueue(b, c) ==
  /\ start[b] = "created"
  /\ c \in members[b] /\ job[b][c].step = "absent"
  /\ To(b, c, "waiting")
  /\ UNCHANGED <<shop, candidate, marks, key, request, batch, item, faults>>

Answer(b) ==
  /\ start[b] = "created"
  /\ \A c \in members[b] : job[b][c].step # "absent"
  /\ Starting(b, "started")
  /\ UNCHANGED <<shop, candidate, marks, key, members, batch, item, job, faults>>

\* An exception: rollbackWritebackStart releases the key and fails the batch,
\* whose jobs stay enqueued; its own exceptions skip a step.  Or the server dies.
StartFails(b) ==
  /\ faults < MaxFaults
  /\ faults' = faults + 1
  /\ \/ start[b] \in {"locked", "created"} /\ Starting(b, "unlocking")
     \/ start[b] = "unlocking" /\ Starting(b, "deleting")
     \/ start[b] = "deleting" /\ Starting(b, "refused")
     \/ start[b] \in {"locked", "created", "unlocking", "deleting"} /\ Starting(b, "died")
  /\ UNCHANGED <<shop, candidate, marks, key, members, batch, item, job>>

\* releaseWritebackLock: compare and delete
KeyReleased(b) == key' = IF key = b THEN None ELSE key

RollbackKey(b) ==
  /\ start[b] = "unlocking"
  /\ KeyReleased(b)
  /\ Starting(b, "deleting")
  /\ UNCHANGED <<shop, candidate, marks, members, batch, item, job, faults>>

RollbackBatch(b) ==
  /\ start[b] = "deleting"
  /\ batch' = [batch EXCEPT ![b].status = IF @ = "NONE" THEN @ ELSE "FAILED"]
  /\ Starting(b, "refused")
  /\ UNCHANGED <<shop, candidate, marks, key, members, item, job, faults>>

\* The key's 5 minutes are over; nobody extends them.
KeyExpires ==
  /\ key # None
  /\ key' = None
  /\ UNCHANGED <<shop, candidate, marks, request, batch, item, job, faults>>

-----------------------------------------------------------------------------
\* processWritebackJob

\* A worker takes the job; one whose candidate cannot be written ends here.
LoadCandidate(b, c) ==
  /\ job[b][c].step = "waiting"
  /\ \/ candidate[c] \in Processable /\ To(b, c, "claiming")
     \/ candidate[c] \notin Processable /\ Ends(b, c)
  /\ UNCHANGED <<shop, candidate, marks, key, request, batch, item, faults>>

\* claimJobItem: the item is taken, or was by an earlier delivery
Claim(b, c) ==
  /\ job[b][c].step = "claiming"
  /\ \/ /\ item[b][c] \in {"PENDING", "RUNNING"}
        /\ item' = [item EXCEPT ![b][c] = "RUNNING"]
        /\ To(b, c, "checking")
     \/ /\ item[b][c] \notin {"PENDING", "RUNNING"}
        /\ Ends(b, c)
        /\ UNCHANGED item
  /\ UNCHANGED <<shop, candidate, marks, key, request, batch, faults>>

\* Mutant of TruthCheck: a second attempt trusts the check of the first.
CheckOnce(b, c) ==
  /\ job[b][c].step = "checking"
  /\ To(b, c, IF alt[c] # "" /\ job[b][c].tries = 0 /\ ~job[b][c].stalled
              THEN "skipping" ELSE "writing")
  /\ UNCHANGED <<shop, candidate, marks, key, request, batch, item, faults>>

\* The text is read from Shopify again: one that is there is kept.
TruthCheck(b, c) ==
  /\ job[b][c].step = "checking"
  /\ To(b, c, IF alt[c] # "" THEN "skipping" ELSE "writing")
  /\ UNCHANGED <<shop, candidate, marks, key, request, batch, item, faults>>

\* The transaction of markSkippedAlreadyFilled
MarkSkipped(b, c) ==
  /\ job[b][c].step = "skipping"
  /\ \/ /\ item[b][c] = "RUNNING"
        /\ item' = [item EXCEPT ![b][c] = "SKIPPED_ALREADY_FILLED"]
        /\ candidate' = [candidate EXCEPT ![c] = IF @ \in Processable THEN "RESOLVED" ELSE @]
        /\ known' = [known EXCEPT ![c] = TRUE]
        /\ batch' = [batch EXCEPT ![b].skipped = @ + 1]
     \/ /\ item[b][c] # "RUNNING"
        /\ UNCHANGED <<item, candidate, known, batch>>
  /\ To(b, c, "reading")
  /\ UNCHANGED <<alt, kept, marks, key, request, faults>>

\* The mutation.  An answer that is lost is a failure like any other, although
\* the text may be there.
Mutate(b, c) ==
  /\ job[b][c].step = "writing"
  /\ \/ /\ alt' = [alt EXCEPT ![c] = "app"]
        /\ To(b, c, "recording")
        /\ UNCHANGED faults
     \/ /\ To(b, c, "failing")
        /\ UNCHANGED <<alt, faults>>
     \/ /\ faults < MaxFaults
        /\ faults' = faults + 1
        /\ alt' = [alt EXCEPT ![c] = "app"]
        /\ To(b, c, "failing")
  /\ UNCHANGED <<known, kept, candidate, marks, key, request, batch, item>>

\* Mutant of MarkWritten: like its siblings, it looks at the candidate.
MarkWrittenIfProcessable(b, c) ==
  /\ job[b][c].step = "recording"
  /\ \/ /\ item[b][c] = "RUNNING" /\ candidate[c] \in Processable
        /\ item' = [item EXCEPT ![b][c] = "SUCCESS"]
        /\ candidate' = [candidate EXCEPT ![c] = "WRITTEN"]
        /\ known' = [known EXCEPT ![c] = TRUE]
        /\ batch' = [batch EXCEPT ![b].success = @ + 1]
     \/ /\ ~(item[b][c] = "RUNNING" /\ candidate[c] \in Processable)
        /\ UNCHANGED <<item, candidate, known, batch>>
  /\ To(b, c, "reading")
  /\ UNCHANGED <<alt, kept, marks, key, request, faults>>

\* The transaction of markWritten, the audit row included: one for every item
\* that is SUCCESS
MarkWritten(b, c) ==
  /\ job[b][c].step = "recording"
  /\ \/ /\ item[b][c] = "RUNNING"
        /\ item' = [item EXCEPT ![b][c] = "SUCCESS"]
        /\ candidate' = [candidate EXCEPT ![c] = "WRITTEN"]
        /\ known' = [known EXCEPT ![c] = TRUE]
        /\ batch' = [batch EXCEPT ![b].success = @ + 1]
     \/ /\ item[b][c] # "RUNNING"
        /\ UNCHANGED <<item, candidate, known, batch>>
  /\ To(b, c, "reading")
  /\ UNCHANGED <<alt, kept, marks, key, request, faults>>

Failable(b, c) == item[b][c] \in {"PENDING", "RUNNING"}

\* The transaction of markWritebackJobFailed
MarkFailed(b, c) ==
  /\ job[b][c].step = "failing"
  /\ \/ /\ Failable(b, c)
        /\ item' = [item EXCEPT ![b][c] = "FAILED"]
        /\ candidate' = [candidate EXCEPT ![c] =
                           IF @ \in Processable THEN "WRITEBACK_FAILED_RETRYABLE" ELSE @]
        /\ batch' = [batch EXCEPT ![b].failed = @ + 1]
     \/ /\ ~Failable(b, c)
        /\ UNCHANGED <<item, candidate, batch>>
  /\ To(b, c, "reading")
  /\ UNCHANGED <<shop, marks, key, request, faults>>

\* Mutants of Complete: one item early; failed items are not counted
EarlyComplete(b) ==
  batch[b].success + batch[b].failed + batch[b].skipped + 1 >= Cardinality(members[b])
SuccessesOnly(b) == batch[b].success + batch[b].skipped >= Cardinality(members[b])

Complete(b) == batch[b].success + batch[b].failed + batch[b].skipped >= Cardinality(members[b])

\* resolveFinalBatchStatus
FinalStatus(row) == CASE row.failed = 0                                   -> "SUCCESS"
                      [] row.failed > 0 /\ row.success + row.skipped > 0  -> "PARTIAL_SUCCESS"
                      [] row.failed > 0 /\ row.success + row.skipped = 0  -> "FAILED"

\* finalizeBatchIfComplete reads the row ...
ReadBatch(b, c) ==
  /\ job[b][c].step = "reading"
  /\ \/ /\ batch[b].status = "RUNNING" /\ Complete(b)
        /\ job' = [job EXCEPT ![b][c] = Closing(@, FinalStatus(batch[b]))]
     \/ /\ ~(batch[b].status = "RUNNING" /\ Complete(b))
        /\ Ends(b, c)
  /\ UNCHANGED <<shop, candidate, marks, key, request, batch, item, faults>>

\* ... writes its status if it is still RUNNING ...
CloseBatch(b, c) ==
  /\ job[b][c].step = "closing"
  /\ \/ /\ batch[b].status = "RUNNING"
        /\ batch' = [batch EXCEPT ![b].status = job[b][c].verdict]
        /\ To(b, c, "unlocking")
     \/ /\ batch[b].status # "RUNNING"
        /\ Ends(b, c)
        /\ UNCHANGED batch
  /\ UNCHANGED <<shop, candidate, marks, key, request, item, faults>>

\* ... and releases the key.
Unlock(b, c) ==
  /\ job[b][c].step = "unlocking"
  /\ KeyReleased(b)
  /\ Ends(b, c)
  /\ UNCHANGED <<shop, candidate, marks, request, batch, item, faults>>

\* An exception fails the job, which BullMQ tries again.  After its last
\* attempt the handler of "failed" events marks the item failed and finalises
\* the batch; what it throws itself is only logged.
JobThrows(b, c) ==
  /\ job[b][c].step \in Busy \cup {"waiting"}
  /\ faults < MaxFaults
  /\ faults' = faults + 1
  /\ \/ job[b][c].last /\ Ends(b, c)
     \/ /\ ~job[b][c].last
        /\ job' = [job EXCEPT ![b][c] = Retried(@)]
  /\ UNCHANGED <<shop, candidate, marks, key, request, batch, item>>

\* The worker dies: BullMQ delivers the stalled job again, or gives it up when
\* it has stalled before, which the handler takes for a failure with attempts
\* left.  A job that has failed is not delivered again.
JobCrashes(b, c) ==
  /\ job[b][c].step \in Busy
  /\ faults < MaxFaults
  /\ faults' = faults + 1
  /\ \/ /\ job[b][c].stalled \/ job[b][c].last
        /\ Ends(b, c)
     \/ /\ ~job[b][c].stalled /\ ~job[b][c].last
        /\ job' = [job EXCEPT ![b][c] = Redelivered(@)]
  /\ UNCHANGED <<shop, candidate, marks, key, request, batch, item>>

-----------------------------------------------------------------------------
\* The merchant

\* An alt text is filled in, in the Shopify admin.
Fill(c) ==
  /\ alt[c] = ""
  /\ alt' = [alt EXCEPT ![c] = "merchant"]
  /\ kept' = IF \E b \in Batches : job[b][c].step = "writing" THEN kept ELSE kept \cup {c}
  /\ UNCHANGED <<known, candidate, marks, key, request, batch, item, job, faults>>

\* markDecorativeCandidate and unmarkDecorativeCandidate read the candidate
\* (getCandidateForUpdate locks nothing); one of them at a time here ...
BeginMark(c) ==
  /\ marking[c] = "-"
  /\ candidate[c] = "DECORATIVE_SKIPPED" \/ (~known[c] /\ candidate[c] \in Processable)
  /\ marking' = [marking EXCEPT ![c] = "DECORATIVE_SKIPPED"]
  /\ UNCHANGED <<shop, candidate, decorative, marked, key, request, batch, item, job, faults>>

BeginUnmark(c) ==
  /\ marking[c] = "-"
  /\ c \in decorative \/ candidate[c] = "DECORATIVE_SKIPPED"
  /\ marking' = [marking EXCEPT ![c] = IF known[c] THEN "RESOLVED" ELSE "GENERATED"]
  /\ UNCHANGED <<shop, candidate, decorative, marked, key, request, batch, item, job, faults>>

\* ... and set the mark and the status.
CommitMark(c) ==
  /\ marking[c] # "-"
  /\ \/ /\ marking[c] = "DECORATIVE_SKIPPED"
        /\ decorative' = decorative \cup {c}
        /\ marked' = marked \cup {c}
     \/ /\ marking[c] # "DECORATIVE_SKIPPED"
        /\ decorative' = decorative \ {c}
        /\ UNCHANGED marked
  /\ candidate' = [candidate EXCEPT ![c] = marking[c]]
  /\ marking' = [marking EXCEPT ![c] = "-"]
  /\ UNCHANGED <<shop, key, request, batch, item, job, faults>>

-----------------------------------------------------------------------------
StartStep(b) ==
  \/ TakeKey(b) \/ CreateBatch(b) \/ Answer(b) \/ RollbackKey(b) \/ RollbackBatch(b)
  \/ \E c \in Candidates : Enqueue(b, c)

JobStep(b, c) ==
  \/ LoadCandidate(b, c) \/ Claim(b, c) \/ TruthCheck(b, c) \/ MarkSkipped(b, c)
  \/ Mutate(b, c) \/ MarkWritten(b, c) \/ MarkFailed(b, c)
  \/ ReadBatch(b, c) \/ CloseBatch(b, c) \/ Unlock(b, c)

Next ==
  \/ \E b \in Batches :
       \/ CheckKey(b)
       \/ \E S \in SUBSET Candidates : Validate(b, S)
       \/ StartStep(b)
       \/ StartFails(b)
       \/ \E c \in Candidates : JobStep(b, c) \/ JobThrows(b, c) \/ JobCrashes(b, c)
  \/ \E c \in Touched : Fill(c) \/ BeginMark(c) \/ BeginUnmark(c) \/ CommitMark(c)
  \/ KeyExpires

Spec == Init /\ [][Next]_vars

\* A handler that is not interrupted runs to its end, and BullMQ delivers
\* every waiting job to a worker that carries on with it.
FairSpec == /\ Spec
            /\ \A b \in Batches :
                 /\ WF_vars(StartStep(b))
                 /\ \A c \in Candidates : WF_vars(JobStep(b, c))

-----------------------------------------------------------------------------
\* Properties

TypeOK ==
  /\ alt \in [Candidates -> {"", "merchant", "app"}]
  /\ known \in [Candidates -> BOOLEAN]
  /\ candidate \in [Candidates -> CandidateStatuses]
  /\ decorative \subseteq Candidates
  /\ marking \in [Candidates -> {"-", "DECORATIVE_SKIPPED", "GENERATED", "RESOLVED"}]
  /\ key \in Batches \cup {None}
  /\ start \in [Batches -> Starts]
  /\ members \in [Batches -> SUBSET Candidates]
  /\ batch \in [Batches -> BatchRows]
  /\ item \in [Batches -> [Candidates -> ItemStatuses]]
  /\ job \in [Batches -> [Candidates -> JobRows]]
  /\ kept \subseteq Candidates
  /\ marked \subseteq Candidates
  /\ faults \in 0 .. MaxFaults

Items(b, s) == {c \in Candidates : item[b][c] = s}

\* However often a job is tried, delivered again or failed for good, each item
\* of its batch is counted once, under the status it has.
CountersMatchItems ==
  \A b \in Batches :
    /\ batch[b].success = Cardinality(Items(b, "SUCCESS"))
    /\ batch[b].failed  = Cardinality(Items(b, "FAILED"))
    /\ batch[b].skipped = Cardinality(Items(b, "SKIPPED_ALREADY_FILLED"))

\* A batch that its jobs closed has an outcome for every item, and the status
\* its items give it, although it was computed from an earlier read.
ClosedBatchFits ==
  \A b \in Batches :
    batch[b].status \in Final /\ start[b] \in {"created", "started"} =>
      /\ \A c \in members[b] : item[b][c] \in Finished
      /\ batch[b].status = "SUCCESS" <=> Items(b, "FAILED") = {}
      /\ batch[b].status = "FAILED" <=> Items(b, "FAILED") = members[b]

\* A batch whose start was rolled back is never reported as successful by a job
\* that read it before.
RefusedStaysFailed ==
  [][\A b \in Batches :
       start[b] = "refused" /\ batch[b].status = "FAILED" => batch'[b].status = "FAILED"]_vars

\* Specs 8.19, as far as a second read can go: a text the merchant fills in while
\* no job is between its read and its mutation is never overwritten.
KeepsMerchantText == \A c \in kept : alt[c] = "merchant"

\* What the database calls written or filled is so in Shopify.
RecordedIsOnShop ==
  \A c \in Candidates : candidate[c] = "WRITTEN" \/ known[c] => alt[c] # ""

\* The inductive invariant of WritebackProofs: no item before its batch, a status
\* computed before it is written, no job writing over a kept text, and nothing
\* recorded that is not in the shop.
ItemsHaveBatch ==
  \A b \in Batches : start[b] \in {"idle", "checked", "validated", "locked"} =>
    Items(b, "ABSENT") = Candidates

ClosingHasStatus ==
  \A b \in Batches, c \in Candidates : job[b][c].step = "closing" => job[b][c].verdict \in Final

NobodyWritesKept ==
  \A c \in kept : \A b \in Batches : job[b][c].step # "writing"

RecordsWhatIsThere ==
  \A b \in Batches, c \in Candidates : job[b][c].step \in {"skipping", "recording"} => alt[c] # ""

IInv == /\ TypeOK /\ CountersMatchItems /\ ItemsHaveBatch /\ ClosingHasStatus
        /\ KeepsMerchantText /\ NobodyWritesKept
        /\ RecordedIsOnShop /\ RecordsWhatIsThere

\* Every started batch is finished, by the last of its jobs or by the handler
\* of one that failed: unless something throws, dies or is lost, a candidate is marked
\* decorative, or another batch takes one, whose job is then skipped uncounted.
WritebackFinishes ==
  \A b \in Batches :
    start[b] = "started" ~>
      \/ batch[b].status \in Final
      \/ faults > 0
      \/ members[b] \cap marked # {}
      \/ \E a \in Batches \ {b} : members[a] \cap members[b] # {}

\* Specs 4.8.3, docs/STATUS.md: every text that was written has its audit row,
\* whatever became of the candidate meanwhile, once no job is on its way to add
\* it.  (With a crash or a lost answer after the mutation it has none: the next
\* delivery takes the text for the merchant's.)
WrittenIsAudited ==
  \A c \in Candidates :
    alt[c] = "app" /\ faults = 0 =>
      \E b \in Batches : item[b][c] = "SUCCESS" \/ job[b][c].step = "recording"
=============================================================================
