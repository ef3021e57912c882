----------------------------- MODULE Generation -----------------------------
(***************************************************************************)
(* AI generation of one shop, from POST /api/generation/start to the end   *)
(* of the batch: the start handler (api.generation.start.tsx), the         *)
(* generate_alt jobs that BullMQ runs, retries and redelivers              *)
(* (generate-alt.processor.ts), the batch row (generation-batch.service)   *)
(* and what they do to the shop's credits (CreditAccount) and to its       *)
(* operation lock (LockRow).                                               *)
(*                                                                         *)
(* A request and a job are sequences of transactions, one action for each: *)
(* every other request and job may run in between, and a transaction may   *)
(* throw or the worker die after any of them.                              *)
(***************************************************************************)
EXTENDS LockRow, FiniteSets

CONSTANTS Batches, Candidates,
          None,              \* not a batch
          Credits,           \* most credits the shop may have to begin with
          Attempts,          \* attempts of a generate_alt job
          ReservationTtl,    \* lifetime of a reservation, in ticks
          MaxFaults,         \* bound on exceptions and crashes
          MaxClock           \* bound on the clock

ASSUME GenerationAssumption ==
  /\ Batches \subseteq Owners /\ None \notin Batches /\ IsFiniteSet(Candidates)
  /\ Credits \in Nat /\ Attempts \in Nat \ {0} /\ ReservationTtl \in Nat
  /\ MaxFaults \in Nat /\ MaxClock \in Nat

Amounts == 1 .. Cardinality(Candidates)

VARIABLES candidate,     \* candidate -> status of its alt_candidate row
          draft,         \* candidate -> batch of its alt_draft row, or None
          batch,         \* batch -> its generation_batch row
          members,       \* batch -> candidates it was requested for
          start,         \* batch -> how far its start request is
          job,           \* batch -> candidate -> its generate_alt job
          available,     \* credits that can be reserved
          reservation,   \* batch -> its credit_reservation row
          expiresAt,     \* batch -> expires_at of its reservation
          settled,       \* idempotency keys of the gen rows of credit_ledger
          lock,          \* the shop's row of shop_operation_lock
          faults,        \* exceptions and crashes so far
          spoiled,       \* history: batches whose rollback threw, or whose request died
          clock

Account == INSTANCE CreditAccount

requests == <<batch, members, start>>
credits == <<available, reservation, expiresAt, settled>>
vars == <<candidate, draft, requests, job, credits, lock, faults, spoiled, clock>>

-----------------------------------------------------------------------------
Generatable == {"MISSING", "GENERATION_FAILED_RETRYABLE"}
Processable == Generatable \cup {"GENERATING"}
CandidateStatuses == Processable \cup {"GENERATED", "SKIPPED_ALREADY_FILLED"}

BatchRows == [status : {"NONE", "IN_PROGRESS", "COMPLETED", "FAILED", "DELETED"},
              completed : 0 .. Cardinality(Candidates), failed : 0 .. Cardinality(Candidates)]
NoBatch == [status |-> "NONE", completed |-> 0, failed |-> 0]
Final == {"COMPLETED", "FAILED"}

\* A job is the transaction its processor runs next, and the outcome it is
\* recording: completed, skipped or failed.
JobRows == [step : {"absent", "waiting", "checking", "drafting", "settling", "counting",
                    "unusing", "unlocking", "closing", "done", "dead"},
            result : {"-", "completed", "skipped", "failed"},
            tries : 0 .. Attempts,
            stalled : BOOLEAN]
NoJob == [step |-> "absent", result |-> "-", tries |-> 0, stalled |-> FALSE]
Busy == {"checking", "drafting", "settling", "counting", "unusing", "unlocking", "closing"}

Starts == {"idle", "created", "reserved", "locked", "started",
           "unlocking", "releasing", "deleting", "failed", "died"}

Starting(b, s) == start' = [start EXCEPT ![b] = s]
To(b, c, s) == job' = [job EXCEPT ![b][c].step = s]

Init == /\ candidate = [c \in Candidates |-> "MISSING"]
        /\ draft = [c \in Candidates |-> None]
        /\ batch = [b \in Batches |-> NoBatch]
        /\ members = [b \in Batches |-> {}]
        /\ start = [b \in Batches |-> "idle"]
        /\ job = [b \in Batches |-> [c \in Candidates |-> NoJob]]
        /\ available \in 1 .. Credits
        /\ reservation = [b \in Batches |-> Account!NoReservation]
        /\ expiresAt = [b \in Batches |-> 0]
        /\ settled = {}
        /\ lock = NoLock
        /\ faults = 0
        /\ spoiled = {}
        /\ clock = 0

-----------------------------------------------------------------------------
\* The start request

\* The lock is free, the candidates can be generated and the preflight finds
\* enough credits; the batch row is created.  (Nothing of what was read is read
\* again, so that the reads may as well be as late as this.)
RequestStart(b, S) ==
  /\ start[b] = "idle"
  /\ \A type \in {"SCAN", "GENERATE"} : ~OperationRunning(lock, type, clock)
  /\ S # {} /\ \A c \in S : candidate[c] \in Generatable
  /\ Cardinality(S) <= available
  /\ batch' = [batch EXCEPT ![b].status = "IN_PROGRESS"]
  /\ members' = [members EXCEPT ![b] = S]
  /\ Starting(b, "created")
  /\ UNCHANGED <<candidate, draft, job, credits, lock, faults, spoiled, clock>>

\* createReservation, or InsufficientCreditError
Reserve(b) ==
  /\ start[b] = "created"
  /\ \/ /\ Account!Reserve(b, Cardinality(members[b]))
        /\ expiresAt' = [expiresAt EXCEPT ![b] = clock + ReservationTtl]
        /\ Starting(b, "reserved")
     \/ /\ available < Cardinality(members[b])
        /\ Starting(b, "deleting")
        /\ UNCHANGED <<available, reservation, expiresAt>>
  /\ UNCHANGED <<candidate, draft, batch, members, job, settled, lock, faults, spoiled, clock>>

\* acquireGenerateLock, or LOCK_CONFLICT
TakeLock(b) ==
  /\ start[b] = "reserved"
  /\ \/ /\ Grantable(lock, "GENERATE", b, clock)
        /\ lock' = Granted("GENERATE", b, clock)
        /\ Starting(b, "locked")
     \/ /\ ~Grantable(lock, "GENERATE", b, clock)
        /\ Starting(b, "releasing")
        /\ UNCHANGED lock
  /\ UNCHANGED <<candidate, draft, batch, members, job, credits, faults, spoiled, clock>>

\* The jobs are enqueued one by one and may run at once.
Enqueue(b, c) ==
  /\ start[b] = "locked"
  /\ c \in members[b] /\ job[b][c].step = "absent"
  /\ To(b, c, "waiting")
  /\ UNCHANGED <<candidate, draft, requests, credits, lock, faults, spoiled, clock>>

\* Only then are the candidates marked: those a job has not finished yet, and
\* those one has already failed.
MarkGenerating(b) ==
  /\ start[b] = "locked"
  /\ \A c \in members[b] : job[b][c].step # "absent"
  /\ candidate' = [c \in Candidates |->
                     IF c \in members[b] /\ candidate[c] \in Generatable
                     THEN "GENERATING" ELSE candidate[c]]
  /\ Starting(b, "started")
  /\ UNCHANGED <<draft, batch, members, job, credits, lock, faults, spoiled, clock>>

\* An exception between two steps: rollbackGenerationStart undoes what the
\* handler knows it did, the jobs it enqueued excepted ...
StartFails(b) ==
  /\ faults < MaxFaults
  /\ faults' = faults + 1
  /\ \/ start[b] = "created"  /\ Starting(b, "deleting")
     \/ start[b] = "reserved" /\ Starting(b, "releasing")
     \/ start[b] = "locked"   /\ Starting(b, "unlocking")
  /\ UNCHANGED <<candidate, draft, batch, members, job, credits, lock, spoiled, clock>>

\* ... its own exceptions skip a step, and leave the batch FAILED in place of
\* deleted.  Or the server dies.
RollbackFails(b) ==
  /\ faults < MaxFaults
  /\ faults' = faults + 1
  /\ \/ /\ \/ start[b] = "unlocking" /\ Starting(b, "releasing")
           \/ start[b] = "releasing" /\ Starting(b, "deleting")
           \/ start[b] \notin {"idle", "started", "failed", "died"} /\ Starting(b, "died")
        /\ UNCHANGED batch
     \/ /\ start[b] = "deleting"
        /\ batch' = [batch EXCEPT ![b].status = "FAILED"]
        /\ Starting(b, "failed")
  /\ spoiled' = spoiled \cup {b}
  /\ UNCHANGED <<candidate, draft, members, job, credits, lock, clock>>

RollbackLock(b) ==
  /\ start[b] = "unlocking"
  /\ lock' = Released(lock, b, clock)
  /\ Starting(b, "releasing")
  /\ UNCHANGED <<candidate, draft, batch, members, job, credits, faults, spoiled, clock>>

\* Mutant of RollbackReservation: the reservation is left to expire.
RollbackNothing(b) ==
  /\ start[b] = "releasing"
  /\ Starting(b, "deleting")
  /\ UNCHANGED <<candidate, draft, batch, members, job, credits, lock, faults, spoiled, clock>>

\* releaseReservation throws, and the rollback goes on, unless it is ACTIVE.
RollbackReservation(b) ==
  /\ start[b] = "releasing"
  /\ \/ Account!CloseReleased(b, "RELEASED")
     \/ reservation[b].status # "ACTIVE" /\ UNCHANGED <<available, reservation>>
  /\ Starting(b, "deleting")
  /\ UNCHANGED <<candidate, draft, batch, members, job, expiresAt, settled, lock, faults, spoiled, clock>>

\* The row is deleted; a draft's reference to it is set to null.
RollbackBatch(b) ==
  /\ start[b] = "deleting"
  /\ batch' = [batch EXCEPT ![b].status = "DELETED"]
  /\ draft' = [c \in Candidates |-> IF draft[c] = b THEN None ELSE draft[c]]
  /\ Starting(b, "failed")
  /\ UNCHANGED <<candidate, members, job, credits, lock, faults, spoiled, clock>>

-----------------------------------------------------------------------------
\* processGenerateAltJob

\* A worker takes the job and loads the candidate: a terminal status ends it.
LoadCandidate(b, c) ==
  /\ job[b][c].step = "waiting"
  /\ \/ candidate[c] \in Processable /\ To(b, c, "checking")
     \/ candidate[c] \notin Processable /\ To(b, c, "closing")
  /\ UNCHANGED <<candidate, draft, requests, credits, lock, faults, spoiled, clock>>

StatusFor(result) == CASE result = "completed" -> "GENERATED"
                       [] result = "skipped"   -> "SKIPPED_ALREADY_FILLED"
                       [] result = "failed"    -> "GENERATION_FAILED_RETRYABLE"

\* Mutant of Record: the status is set without looking at it.
RecordBlindly(b, c, result) ==
  /\ candidate' = [candidate EXCEPT ![c] = StatusFor(result)]
  /\ job' = [job EXCEPT ![b][c].result = result,
               ![b][c].step = IF result = "completed" THEN "drafting" ELSE "settling"]

\* Record an outcome of job (b, c): the candidate's status is set if it is
\* still processable, and only then does the job go on.
Record(b, c, result) ==
  \/ /\ candidate[c] \in Processable
     /\ candidate' = [candidate EXCEPT ![c] = StatusFor(result)]
     /\ job' = [job EXCEPT ![b][c].result = result,
                  ![b][c].step = IF result = "completed" THEN "drafting" ELSE "settling"]
  \/ /\ candidate[c] \notin Processable
     /\ To(b, c, "closing")
     /\ UNCHANGED candidate

\* Shopify has an alt text by now (skipped), or the model answers (completed),
\* or something on the way to it fails (failed).
Decide(b, c) ==
  /\ job[b][c].step = "checking"
  /\ \E result \in {"completed", "skipped", "failed"} : Record(b, c, result)
  /\ UNCHANGED <<draft, requests, credits, lock, faults, spoiled, clock>>

\* What an exception does to job (b, c).  Before its try block, inside
\* markGenerationFailed or after all, it fails the job, which BullMQ tries
\* again; elsewhere it is caught and the candidate marked as failed, which one
\* GENERATED or SKIPPED by now is not.  With it the calls of the model are written
\* down first, which may throw as well: then nothing is marked.
Caught(b, c) == job[b][c].result # "failed" /\ job[b][c].step \notin {"waiting", "closing"}

Escapes(b, c) == ~Caught(b, c) \/ job[b][c].step = "checking"

Throw(b, c) ==
  \/ Caught(b, c) /\ Record(b, c, "failed")
  \/ /\ Escapes(b, c)
     /\ job' = [job EXCEPT ![b][c].tries = @ + 1, ![b][c].result = "-",
                  ![b][c].step = IF job[b][c].tries + 1 < Attempts
                                 THEN "waiting" ELSE "dead"]
     /\ UNCHANGED candidate

WriteDraft(b, c) ==
  /\ job[b][c].step = "drafting"
  /\ \/ /\ batch[b].status # "DELETED"
        /\ draft' = [draft EXCEPT ![c] = b]
        /\ To(b, c, "settling")
        /\ UNCHANGED candidate
     \/ /\ batch[b].status = "DELETED"     \* foreign key violation
        /\ Throw(b, c)
        /\ UNCHANGED draft
  /\ UNCHANGED <<requests, credits, lock, faults, spoiled, clock>>

\* Mutant of SettleKey: one key for both kinds of settlement
OneKey(b, c) == <<"RELEASE", b, c>>

SettleKey(b, c) == <<IF job[b][c].result = "completed" THEN "CONSUME" ELSE "RELEASE", b, c>>

CanSettle(b) == /\ reservation[b].status \in Account!Settleable
                /\ Account!Held(reservation[b]) > 0

\* GenerationCreditService.consume or .releaseReservation: resolveOneCredit
Settle(b, c) ==
  /\ job[b][c].step = "settling"
  /\ \/ /\ SettleKey(b, c) \in settled
        /\ To(b, c, "counting")
        /\ UNCHANGED <<candidate, available, reservation, settled>>
     \/ /\ SettleKey(b, c) \notin settled
        /\ \/ job[b][c].result = "completed" /\ Account!ConsumeOne(b)
           \/ job[b][c].result # "completed" /\ Account!ReleaseOne(b)
        /\ settled' = settled \cup {SettleKey(b, c)}
        /\ To(b, c, "counting")
        /\ UNCHANGED candidate
     \/ /\ SettleKey(b, c) \notin settled /\ ~CanSettle(b)
        /\ Throw(b, c)
        /\ UNCHANGED <<available, reservation, settled>>
  /\ UNCHANGED <<draft, requests, expiresAt, lock, faults, spoiled, clock>>

\* Mutants of FinalStatus: one outcome early; failed candidates do not count
EarlyFinal(completed, failed, total) ==
  IF completed + 1 < total THEN "IN_PROGRESS" ELSE "COMPLETED"
SuccessesOnly(completed, failed, total) ==
  IF completed - failed < total THEN "IN_PROGRESS" ELSE "COMPLETED"

\* resolveFinalStatus of the counts
FinalStatus(completed, failed, total) ==
  CASE completed < total                -> "IN_PROGRESS"
    [] completed >= total /\ failed > 0 -> "FAILED"
    [] completed >= total /\ failed = 0 -> "COMPLETED"

\* Mutant of InProgress: the status is not looked at.
Existing(b) == batch[b].status \in Final \cup {"IN_PROGRESS"}

\* A batch that jobs are still counted for
InProgress(b) == batch[b].status = "IN_PROGRESS"

\* The transaction of markJobFinished
Count(b, c) ==
  LET completed == batch[b].completed + 1
      failed == batch[b].failed + IF job[b][c].result = "failed" THEN 1 ELSE 0
      status == FinalStatus(completed, failed, Cardinality(members[b]))
  IN /\ job[b][c].step = "counting"
     /\ \/ /\ InProgress(b)
           /\ batch' = [batch EXCEPT ![b] =
                          [status |-> status, completed |-> completed, failed |-> failed]]
           /\ To(b, c, IF status = "IN_PROGRESS" THEN "closing" ELSE "unusing")
           /\ UNCHANGED candidate
        \/ /\ batch[b].status \in Final
           /\ To(b, c, "closing")
           /\ UNCHANGED <<candidate, batch>>
        \/ /\ batch[b].status = "DELETED"
           /\ Throw(b, c)
           /\ UNCHANGED batch
     /\ UNCHANGED <<draft, members, start, credits, lock, faults, spoiled, clock>>

\* runCompletionSideEffects: releaseUnusedReservation, whose errors are only
\* logged ...
ReleaseUnused(b, c) ==
  /\ job[b][c].step = "unusing"
  /\ \/ Account!ReleaseUnused(b)
     \/ ~CanSettle(b) /\ UNCHANGED <<available, reservation>>
  /\ To(b, c, "unlocking")
  /\ UNCHANGED <<candidate, draft, requests, expiresAt, settled, lock, faults, spoiled, clock>>

\* ... and releaseGenerateLock.
Unlock(b, c) ==
  /\ job[b][c].step = "unlocking"
  /\ lock' = Released(lock, b, clock)
  /\ To(b, c, "closing")
  /\ UNCHANGED <<candidate, draft, requests, credits, faults, spoiled, clock>>

\* The progress is published, and BullMQ is told that the job is complete.
Close(b, c) ==
  /\ job[b][c].step = "closing"
  /\ To(b, c, "done")
  /\ UNCHANGED <<candidate, draft, requests, credits, lock, faults, spoiled, clock>>

\* A transaction of the job throws, or loading its candidate does.
JobThrows(b, c) ==
  /\ job[b][c].step \in Busy \cup {"waiting"}
  /\ faults < MaxFaults
  /\ faults' = faults + 1
  /\ \/ job[b][c].step = "unusing" /\ To(b, c, "unlocking") /\ UNCHANGED candidate
     \/ job[b][c].step # "unusing" /\ Throw(b, c)
  /\ UNCHANGED <<draft, requests, credits, lock, spoiled, clock>>

\* The worker dies: BullMQ delivers the stalled job again, or gives it up when
\* it has stalled before.
JobCrashes(b, c) ==
  /\ job[b][c].step \in Busy
  /\ faults < MaxFaults
  /\ faults' = faults + 1
  /\ job' = [job EXCEPT ![b][c].step = IF job[b][c].stalled THEN "dead" ELSE "waiting",
                        ![b][c].result = "-", ![b][c].stalled = TRUE]
  /\ UNCHANGED <<candidate, draft, requests, credits, lock, spoiled, clock>>

-----------------------------------------------------------------------------
\* The reservation reaper, as CreditLedger has it
ExpireReservation(b) ==
  /\ expiresAt[b] < clock
  /\ Account!CloseReleased(b, "RELEASED")
  /\ UNCHANGED <<candidate, draft, requests, job, expiresAt, settled, lock, faults, spoiled, clock>>

Tick == /\ clock < MaxClock
        /\ clock' = clock + 1
        /\ UNCHANGED <<candidate, draft, requests, job, credits, lock, faults, spoiled>>

StartStep(b) ==
  \/ Reserve(b) \/ TakeLock(b) \/ MarkGenerating(b)
  \/ \E c \in Candidates : Enqueue(b, c)
  \/ RollbackLock(b) \/ RollbackReservation(b) \/ RollbackBatch(b)

JobStep(b, c) ==
  \/ LoadCandidate(b, c) \/ Decide(b, c) \/ WriteDraft(b, c) \/ Settle(b, c)
  \/ Count(b, c) \/ ReleaseUnused(b, c) \/ Unlock(b, c) \/ Close(b, c)

Next ==
  \/ \E b \in Batches :
       \/ \E S \in SUBSET Candidates : RequestStart(b, S)
       \/ StartStep(b)
       \/ StartFails(b) \/ RollbackFails(b)
       \/ ExpireReservation(b)
       \/ \E c \in Candidates : JobStep(b, c) \/ JobThrows(b, c) \/ JobCrashes(b, c)
  \/ Tick

Spec == Init /\ [][Next]_vars

\* A handler that is not interrupted runs to its end, and BullMQ delivers
\* every waiting job to a worker that carries on with it.
FairSpec == /\ Spec
            /\ \A b \in Batches :
                 /\ WF_vars(StartStep(b))
                 /\ \A c \in Candidates : WF_vars(JobStep(b, c))

-----------------------------------------------------------------------------
\* Properties

\* The rows and the jobs; the history variable is typed with what it is for.
TypeOK ==
  /\ candidate \in [Candidates -> CandidateStatuses]
  /\ draft \in [Candidates -> Batches \cup {None}]
  /\ batch \in [Batches -> BatchRows]
  /\ members \in [Batches -> SUBSET Candidates]
  /\ start \in [Batches -> Starts]
  /\ job \in [Batches -> [Candidates -> JobRows]]
  /\ available \in Nat
  /\ reservation \in [Batches -> Account!Reservations]
  /\ expiresAt \in [Batches -> Nat]
  /\ settled \subseteq {"CONSUME", "RELEASE"} \X Batches \X Candidates
  /\ lock \in {NoLock} \cup LockRows
  /\ faults \in 0 .. MaxFaults
  /\ clock \in 0 .. MaxClock

Charged(b, c) == <<"CONSUME", b, c>> \in settled

\* Nobody pays for nothing, and nobody pays twice: a batch is charged for a
\* candidate only if it generated it, so of two batches that have the same
\* candidate, because the lock expired under the first, at most one is.
ChargedForGenerated ==
  \A b \in Batches, c \in Candidates :
    Charged(b, c) => /\ candidate[c] = "GENERATED"
                     /\ draft[c] = b \/ batch[b].status = "DELETED"
                     /\ \A a \in Batches \ {b} : ~Charged(a, c)

\* The completion of a batch runs once: no two jobs of it release what is
\* unused and the lock.
CompletesOnce ==
  \A b \in Batches, c, d \in Candidates :
    job[b][c].step \in {"unusing", "unlocking"} /\ job[b][d].step \in {"unusing", "unlocking"} => c = d

Quiet(b) == \A c \in Candidates : job[b][c].step \notin {"unusing", "unlocking"}

\* What goes wrong for a batch from outside: an exception or a crash, or the end
\* of its reservation under it.
Disturbed(b) == faults > 0 \/ expiresAt[b] < clock

\* A batch that nothing disturbs is only closed when it has seen an outcome of
\* each of its candidates, and then holds no credits once its completion ran.
FinishedIsOver ==
  \A b \in Batches :
    batch[b].status \in Final /\ ~Disturbed(b) =>
      /\ \A c \in members[b] : job[b][c].step \in {"unusing", "unlocking", "closing", "done"}
      /\ Quiet(b) => Account!Held(reservation[b]) = 0 /\ ~HeldBy(lock, b)

\* A batch is brought to its end once, and then nothing of it is left over.
EndsOnce == CompletesOnce /\ FinishedIsOver

\* A request that ends in an error after its batch was created, whatever threw at
\* whatever step, leaves neither the lock nor the batch nor credits behind, unless
\* the rollback itself throws or dies: the credits may only stay if one of the jobs
\* it had enqueued has settled its own (the rollback does not touch a reservation
\* that is PARTIALLY_CONSUMED).  If nothing threw it has enqueued none.
RefusedLeavesNothing ==
  \A b \in Batches : start[b] = "failed" /\ b \notin spoiled =>
    /\ ~HeldBy(lock, b) /\ batch[b].status = "DELETED"
    /\ Account!Held(reservation[b]) = 0 \/ reservation[b].status = "PARTIALLY_CONSUMED"
    /\ faults = 0 => \A c \in Candidates : job[b][c].step = "absent"

\* A batch that was started, and that no other competes with, is finished,
\* unless something throws or dies, or its reservation expires under it.
UndisturbedFinishes ==
  \A b \in Batches : start[b] = "started" ~> batch[b].status \in Final \/ Disturbed(b)

\* Every batch that was started is finished.  It does not hold: a batch whose
\* candidates another one has taken has nothing to do, and nobody ends it.
StartedFinishes ==
  \A b \in Batches : start[b] = "started" ~> batch[b].status \in Final

\* Specs 4.9.5: each successful generation of a batch that nothing disturbs turns
\* one reserved credit into a consumed one, at the latest when its job is over.
\* (A consume that throws is never made up for: the candidate is GENERATED by then.)
GeneratedIsCharged ==
  \A b \in Batches, c \in Candidates :
    draft[c] = b /\ job[b][c].step \in {"done", "dead"} /\ ~Disturbed(b) => Charged(b, c)

\* generate-alt.processor.ts: no candidate stays GENERATING when the last job
\* that could take it further is over.  It does not hold: the start handler sets
\* GENERATING after the job it enqueued may have failed.
NotStuckGenerating ==
  \A c \in Candidates : candidate[c] = "GENERATING" =>
    \E b \in Batches : c \in members[b] /\ job[b][c].step \notin {"absent", "done", "dead"}
=============================================================================
