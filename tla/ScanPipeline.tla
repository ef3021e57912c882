---------------------------- MODULE ScanPipeline ----------------------------
(***************************************************************************)
(* One full scan of a shop's catalog, from the row POST /api/scan/start    *)
(* leaves to its publication: the tasks (one per resource type), their     *)
(* attempts, the bulk operations these start at Shopify, and the jobs that *)
(* move them on - scan-start, the bulk_operations/finish webhook, parse,   *)
(* derive, publish - with the sweep of stale scans and the stop request.   *)
(*                                                                         *)
(* No job knows of the others: each reads the rows, writes them and        *)
(* enqueues the next one, and any of them may be the one that finds every  *)
(* task finished (finalizeScanJobIfTerminal).  A step is one transaction,  *)
(* one call of Shopify or one enqueue.  The queues retry a job at least    *)
(* three times: with fewer than three faults no job runs out of them.      *)
(*                                                                         *)
(* The jobs of a scan release the shop's SCAN lock, by its type, and none  *)
(* of them looks at it.  Whether it still is the lock this scan took - it  *)
(* lives 30 minutes without a heartbeat, and the publish job of another    *)
(* scan releases it as well - is OperationLock's business, not this one's. *)
(***************************************************************************)
EXTENDS Naturals, FiniteSets

CONSTANTS Tasks,         \* resource types the scan was started for
          MaxAttempts,   \* task -> its maxParseAttempts
          Slots,         \* MAX_SHOPIFY_BULK_QUERY_CONCURRENCY
          MaxFaults      \* bound on what goes wrong: exceptions, crashes, delays

ASSUME PipelineAssumption ==
  /\ IsFiniteSet(Tasks) /\ Tasks # {}
  /\ MaxAttempts \in [Tasks -> Nat \ {0}] /\ Slots \in Nat \ {0} /\ MaxFaults \in 0 .. 2

\* Numbers of attempts
Nos == UNION {1 .. MaxAttempts[t] : t \in Tasks}

VARIABLES job,        \* the scan_job row
          task,       \* task -> its scan_task row; attempt number 0 is null
          attempt,    \* task -> number -> status of its scan_task_attempt row
          result,     \* task -> attempt its scan_result rows were derived from
          published,  \* task -> attempt whose results are in the catalog
          flight,     \* submissions Shopify has not answered yet
          slot,       \* owner of the bulk slot lock (Redis), or Free
          step,       \* process -> how far it is
          kept,       \* no step of this scan has released the shop's SCAN lock
          seen,       \* what happened that a property excepts (history)
          faults

rows == <<job, task, attempt>>
data == <<result, published>>
submits == <<flight, slot>>
vars == <<rows, data, submits, step, kept, seen, faults>>

-----------------------------------------------------------------------------
\* Processes: a webhook event, a parse and a derive job for every attempt

Start == <<"start">>
Publish == <<"publish">>
Stop == <<"stop">>
Hook(t, n) == <<"hook", t, n>>
Parse(t, n) == <<"parse", t, n>>
Derive(t, n) == <<"derive", t, n>>
Tries == {x \in Tasks \X Nos : x[2] <= MaxAttempts[x[1]]}
Procs == {Start, Publish, Stop}
         \cup {<<kind, x[1], x[2]>> : kind \in {"hook", "parse", "derive"}, x \in Tries}
Free == <<"free">>

Resting == {"none", "done"}
Steps == Resting \cup {"waiting", "submitting", "trying", "finalizing", "parsing",
                       "retrying", "submitted", "failing", "ending", "failed", "unlocking"}

Goto(p, s) == step' = [step EXCEPT ![p] = s]

\* p goes to s, and job q is enqueued: an add whose job id the queue knows is ignored.
EnqueueAnd(p, s, q) ==
  step' = [step EXCEPT ![p] = s, ![q] = IF @ = "none" THEN "waiting" ELSE @]

TaskRows == [status : {"PENDING", "RUNNING", "SUCCESS", "FAILED"},
             current : Nos \cup {0}, successful : Nos \cup {0}]
Unfinished == {"PENDING", "RUNNING", "READY_TO_PARSE", "PARSING"}
AttemptStatuses == Unfinished \cup {"NONE", "SUCCESS", "FAILED"}
Succeeded == {"SUCCESS", "PARTIAL_SUCCESS"}
JobRows == [status : Succeeded \cup {"RUNNING", "FAILED"},
            publish : {"PENDING", "PUBLISHED", "NOT_PUBLISHED"},
            types : SUBSET Tasks]
Flights == [task : Tasks, no : Nos, by : Procs]

SetTask(t, s) == task' = [task EXCEPT ![t].status = s]
SetAttempt(t, n, s) == attempt' = [attempt EXCEPT ![t][n] = s]

Fault == faults < MaxFaults /\ faults' = faults + 1

Init == /\ job = [status |-> "RUNNING", publish |-> "PENDING", types |-> {}]
        /\ task = [t \in Tasks |-> [status |-> "PENDING", current |-> 0, successful |-> 0]]
        /\ attempt = [t \in Tasks |-> [n \in Nos |-> "NONE"]]
        /\ result = [t \in Tasks |-> 0]
        /\ published = [t \in Tasks |-> 0]
        /\ flight = {}
        /\ slot = Free
        /\ step = [p \in Procs |-> IF p = Start THEN "waiting" ELSE "none"]
        /\ kept = TRUE
        /\ seen = {}
        /\ faults = 0

-----------------------------------------------------------------------------
\* finalizeScanJobIfTerminal

Terminal == \A t \in Tasks : task[t].status \notin {"PENDING", "RUNNING"}

Won == {t \in Tasks : task[t].status = "SUCCESS"}

FinalStatus == IF Won = Tasks THEN "SUCCESS"
               ELSE IF Won # {} THEN "PARTIAL_SUCCESS" ELSE "FAILED"

\* The caller is the one whose conditional update ends the job
Transitions == Terminal /\ job.status = "RUNNING"

Finalize ==
  job' = IF Transitions
         THEN [status |-> FinalStatus, types |-> Won,
               publish |-> IF FinalStatus = "FAILED" THEN "NOT_PUBLISHED" ELSE "PENDING"]
         ELSE job

\* Mutant of Publishes: a scan that succeeded in part is not published.
PublishesFull == Transitions /\ FinalStatus = "SUCCESS"

Publishes == Transitions /\ FinalStatus \in Succeeded

\* Mutant of Releases: whether the call ended the scan is not asked.
ReleasesAlways(unlocks) == unlocks

\* Derive releases the lock when it is the one that ended the scan.
Releases(unlocks) == unlocks /\ Transitions

\* The job processors enqueue the publication of a scan they end; derive releases
\* the lock of one that failed.  A process that dies in between does
\* neither, and its retry transitions nothing.
FinalizeThen(p, s, unlocks) ==
  /\ Finalize
  /\ \/ /\ Publishes
        /\ EnqueueAnd(p, s, Publish)
        /\ UNCHANGED <<kept, faults>>
     \/ /\ ~Publishes
        /\ Goto(p, s)
        /\ kept' = (kept /\ ~Releases(unlocks))
        /\ UNCHANGED faults
     \/ /\ Transitions
        /\ Fault
        /\ Goto(p, "waiting")
        /\ UNCHANGED kept

\* The submitters do neither: trySubmitNextBatch and the webhook handler drop
\* what finalizeScanJobIfTerminal returns.
FinalizeOnly(p, s) ==
  /\ Finalize
  /\ Goto(p, s)
  /\ seen' = IF Publishes THEN seen \cup {"unnoticed"} ELSE seen

-----------------------------------------------------------------------------
\* submitTask: reserve the task's next attempt, call Shopify, record the answer

\* Mutant of Reservable: a task that is running is reserved again.
ReservableTwice(t) == task[t].current < MaxAttempts[t] /\ task[t].status \in {"PENDING", "RUNNING"}

Reservable(t) == task[t].status = "PENDING"

\* p reserves the next attempt of the tasks S.
Reserve(p, S) ==
  /\ attempt' = [t \in Tasks |-> IF t \in S
                   THEN [attempt[t] EXCEPT ![task[t].current + 1] = "PENDING"]
                   ELSE attempt[t]]
  /\ task' = [t \in Tasks |-> IF t \in S
                THEN [task[t] EXCEPT !.status = "RUNNING", !.current = @ + 1] ELSE task[t]]
  /\ flight' = flight \cup {[task |-> t, no |-> task[t].current + 1, by |-> p] : t \in S}

\* The submission is over; a parse job that waits for it goes to s.
Return(f, s) ==
  /\ flight' = flight \ {f}
  /\ step' = IF step[f.by] = "submitted" THEN [step EXCEPT ![f.by] = s] ELSE step

\* Shopify runs as many bulk operations as it allows (those of other apps
\* count as well): releaseReservedAttempt.
LimitReached(f) ==
  /\ SetAttempt(f.task, f.no, "NONE")
  /\ task' = [task EXCEPT ![f.task].status = "PENDING", ![f.task].current = f.no - 1]
  /\ Return(f, "done")
  /\ Fault
  /\ UNCHANGED <<job, data, slot, kept, seen>>

\* Shopify refuses, its answer is lost or recording it throws:
\* failAttemptSubmission.  (Of an operation that runs all the same nobody will
\* ever know: its webhook finds no attempt.)
Refused(f) ==
  /\ SetAttempt(f.task, f.no, "FAILED")
  /\ SetTask(f.task, "FAILED")
  /\ Return(f, "failing")
  /\ UNCHANGED <<job, data, slot, kept, seen, faults>>

\* markAttemptSubmitted, whatever the attempt and the task are by now, and then
\* the scan is RUNNING, whatever it was.  The webhook of the operation is to
\* come, or was there before its id was recorded: then it found no attempt.
Submitted(f) ==
  /\ SetAttempt(f.task, f.no, "RUNNING")
  /\ SetTask(f.task, "RUNNING")
  /\ job' = [job EXCEPT !.status = "RUNNING"]
  /\ flight' = flight \ {f}
  /\ seen' = IF job.status = "RUNNING" THEN seen ELSE seen \cup {"revived"}
  /\ \E early \in BOOLEAN :
       /\ step' = [step EXCEPT ![Hook(f.task, f.no)] = IF early THEN "done" ELSE "waiting",
                               ![f.by] = IF @ = "submitted" THEN "done" ELSE @]
       /\ IF early THEN Fault ELSE UNCHANGED faults
  /\ UNCHANGED <<data, slot, kept>>

-----------------------------------------------------------------------------
\* trySubmitNextBatch, called by the scan-start job and by webhook handlers

Submitters == {Start} \cup {Hook(x[1], x[2]) : x \in Tries}

\* The scan-start job is over then, a webhook handler finalizes once more.
After(p) == IF p = Start THEN "done" ELSE "finalizing"

AtSubmit(p) == step[p] = IF p = Start THEN "waiting" ELSE "submitting"

Pending == {t \in Tasks : Reservable(t)}

\* getRunningBulkCount, and the slots it leaves
RunningBulks == {x \in Tries : /\ task[x[1]].status = "RUNNING"
                                      /\ attempt[x[1]][x[2]] \in {"PENDING", "RUNNING"}}
Available == IF Cardinality(RunningBulks) >= Slots THEN 0 ELSE Slots - Cardinality(RunningBulks)

\* As many pending tasks are submitted as there are slots (which ones is their
\* priority's business).
BeginSubmit(p) ==
  /\ AtSubmit(p)
  /\ Pending # {} /\ slot = Free
  /\ \E S \in SUBSET Pending :
       /\ S # {} /\ (S = Pending \/ Cardinality(S) = Available) /\ Cardinality(S) <= Available
       /\ Reserve(p, S)
  /\ slot' = p
  /\ Goto(p, "trying")
  /\ UNCHANGED <<job, data, kept, seen, faults>>

\* Another call holds the slot lock, or there is no slot: nothing is submitted.
SkipSubmit(p) ==
  /\ AtSubmit(p)
  /\ Pending # {} /\ (slot # Free \/ Available = 0)
  /\ Goto(p, After(p))
  /\ UNCHANGED <<rows, data, submits, kept, seen, faults>>

\* Every submission has returned; the scan may have ended with them.  (The
\* handler's own finalize follows this one and finds what this one would.)
EndSubmit(p) ==
  /\ p \in Submitters /\ step[p] = "trying"
  /\ \A f \in flight : f.by # p
  /\ IF p = Start THEN FinalizeOnly(p, "done")
     ELSE Goto(p, "finalizing") /\ UNCHANGED <<job, seen>>
  /\ slot' = IF slot = p THEN Free ELSE slot
  /\ UNCHANGED <<task, attempt, data, flight, kept, faults>>

\* With nothing left to submit the scan may be at its end.
SubmitNothing(p) ==
  /\ \/ AtSubmit(p) /\ Pending = {}
     \/ step[p] = "finalizing"
  /\ FinalizeOnly(p, "done")
  /\ UNCHANGED <<task, attempt, data, submits, kept, faults>>

\* The slot lock lives 5 seconds, a call may take longer.
SlotExpires ==
  /\ slot # Free
  /\ Fault
  /\ slot' = Free
  /\ UNCHANGED <<rows, data, flight, step, kept, seen>>

-----------------------------------------------------------------------------
\* The webhook that says a bulk operation has finished

\* markAttemptFinishedFromWebhook does not look again at an attempt that has
\* ended: a handler that throws before it has enqueued the parse job does not do
\* so when the event is processed again.

\* Mutant of HookIgnores: an attempt that was parsed is started over.
IgnoresUnparsed(t, n) == attempt[t][n] \in {"READY_TO_PARSE", "FAILED"}

HookIgnores(t, n) == attempt[t][n] \in {"READY_TO_PARSE", "SUCCESS", "FAILED"}

HookSkips(t, n) ==
  /\ step[Hook(t, n)] = "waiting"
  /\ HookIgnores(t, n)
  /\ Goto(Hook(t, n), "done")
  /\ UNCHANGED <<rows, data, submits, kept, seen, faults>>

HookCompleted(t, n) ==
  /\ step[Hook(t, n)] = "waiting"
  /\ ~HookIgnores(t, n)
  /\ SetAttempt(t, n, "READY_TO_PARSE")
  /\ task' = [task EXCEPT ![t].status = "RUNNING", ![t].successful = 0]
  /\ \/ EnqueueAnd(Hook(t, n), "submitting", Parse(t, n)) /\ UNCHANGED faults
     \/ Fault /\ UNCHANGED step
  /\ UNCHANGED <<job, data, submits, kept, seen>>

\* The operation failed or was cancelled (one that is being parsed did not).
HookFailed(t, n) ==
  /\ step[Hook(t, n)] = "waiting"
  /\ ~HookIgnores(t, n) /\ attempt[t][n] # "PARSING"
  /\ SetAttempt(t, n, "FAILED")
  /\ task' = [task EXCEPT ![t].status = "FAILED", ![t].successful = 0]
  /\ Goto(Hook(t, n), "submitting")
  /\ UNCHANGED <<job, data, submits, kept, seen, faults>>

\* A worker dies, or a job throws where nothing catches it: it runs again.
Dies(p) ==
  /\ step[p] \notin Resting \cup {"waiting"}
  /\ p \notin {Publish, Stop}
  /\ Fault
  /\ Goto(p, "waiting")
  /\ flight' = {f \in flight : f.by # p}
  /\ UNCHANGED <<rows, data, slot, kept, seen>>

-----------------------------------------------------------------------------
\* The parse job of an attempt

ParseStarts(t, n) ==
  /\ step[Parse(t, n)] = "waiting"
  /\ \/ /\ attempt[t][n] = "READY_TO_PARSE"
        /\ SetAttempt(t, n, "PARSING")
        /\ Goto(Parse(t, n), "parsing")
     \/ /\ attempt[t][n] = "SUCCESS" /\ task[t].successful # n
        /\ EnqueueAnd(Parse(t, n), "done", Derive(t, n))
        /\ UNCHANGED attempt
     \/ /\ attempt[t][n] # "READY_TO_PARSE"
        /\ attempt[t][n] = "SUCCESS" => task[t].successful = n
        /\ Goto(Parse(t, n), "done")
        /\ UNCHANGED attempt
  /\ UNCHANGED <<job, task, data, submits, kept, seen, faults>>

\* A worker that dies before it has enqueued derive leaves that to the retry.
ParseSucceeds(t, n) ==
  /\ step[Parse(t, n)] = "parsing"
  /\ SetAttempt(t, n, "SUCCESS")
  /\ \/ EnqueueAnd(Parse(t, n), "done", Derive(t, n)) /\ UNCHANGED faults
     \/ Fault /\ Goto(Parse(t, n), "waiting")
  /\ UNCHANGED <<job, task, data, submits, kept, seen>>

Retryable(t, n) == n < MaxAttempts[t]

\* The result cannot be fetched or parsed, or derive cannot be enqueued.
\* classifyParseFailure decides whether another bulk operation may help; then
\* resetScanTaskToPendingForRetry puts the task back.
ParseFails(t, n) ==
  /\ step[Parse(t, n)] = "parsing"
  /\ SetAttempt(t, n, "FAILED")
  /\ \/ /\ Retryable(t, n)
        /\ task' = [task EXCEPT ![t].status = "PENDING", ![t].successful = 0]
        /\ Goto(Parse(t, n), "retrying")
     \/ Goto(Parse(t, n), "failing") /\ UNCHANGED task
  /\ UNCHANGED <<job, data, submits, kept, seen, faults>>

\* submitTask without the slot lock; a task somebody else has reserved
\* meanwhile is skipped, which the job takes for a failure.
ParseResubmits(t, n) ==
  /\ step[Parse(t, n)] = "retrying"
  /\ \/ /\ Reservable(t)
        /\ Reserve(Parse(t, n), {t})
        /\ Goto(Parse(t, n), "submitted")
     \/ /\ ~Reservable(t)
        /\ Goto(Parse(t, n), "failing")
        /\ UNCHANGED <<task, attempt, flight>>
  /\ UNCHANGED <<job, data, slot, kept, seen, faults>>

ParseGivesUp(t, n) ==
  /\ step[Parse(t, n)] = "failing"
  /\ SetTask(t, "FAILED")
  /\ Goto(Parse(t, n), "ending")
  /\ UNCHANGED <<job, attempt, data, submits, kept, seen, faults>>

ParseEnds(t, n) ==
  /\ step[Parse(t, n)] = "ending"
  /\ FinalizeThen(Parse(t, n), "done", FALSE)
  /\ UNCHANGED <<task, attempt, data, submits, seen>>

-----------------------------------------------------------------------------
\* The derive job of an attempt

\* The job of any other attempt does nothing.  There is none: whoever has parsed an
\* attempt has parsed the task's latest (DeriveIsOfLatest).
Derivable(t, n) == attempt[t][n] = "SUCCESS" /\ n = task[t].current

\* The results are written, then markScanTaskSucceeded.
DeriveSucceeds(t, n) ==
  /\ step[Derive(t, n)] = "waiting"
  /\ Derivable(t, n)
  /\ result' = [result EXCEPT ![t] = n]
  /\ task' = [task EXCEPT ![t].status = "SUCCESS", ![t].successful = n]
  /\ Goto(Derive(t, n), "ending")
  /\ UNCHANGED <<job, attempt, published, submits, kept, seen, faults>>

\* Any exception, before or after the results are written, fails the task ...
DeriveThrows(t, n) ==
  /\ \/ /\ step[Derive(t, n)] = "waiting" /\ Derivable(t, n)
        /\ result' \in {result, [result EXCEPT ![t] = n]}
     \/ step[Derive(t, n)] = "ending" /\ UNCHANGED result
  /\ Fault
  /\ SetTask(t, "FAILED")
  /\ Goto(Derive(t, n), "failed")
  /\ UNCHANGED <<job, attempt, published, submits, kept, seen>>

\* ... and the queue runs the job again.
DeriveEnds(t, n) ==
  /\ \/ step[Derive(t, n)] = "ending" /\ FinalizeThen(Derive(t, n), "done", TRUE)
     \/ step[Derive(t, n)] = "failed" /\ FinalizeThen(Derive(t, n), "waiting", TRUE)
  /\ UNCHANGED <<task, attempt, data, submits, seen>>

-----------------------------------------------------------------------------
\* The publish job (what it does to the catalog is Catalog's subject)

Publishable == job.status \in Succeeded /\ job.publish # "PUBLISHED"

PublishRuns ==
  /\ step[Publish] = "waiting"
  /\ \/ /\ Publishable /\ job.types # {}
        /\ published' = [t \in Tasks |-> IF t \in job.types THEN result[t] ELSE published[t]]
        /\ job' = [job EXCEPT !.publish = "PUBLISHED"]
     \/ /\ (Publishable /\ job.types = {}) \/ job.status = "FAILED"
        /\ job' = [job EXCEPT !.publish = "NOT_PUBLISHED"]
        /\ UNCHANGED published
     \/ /\ ~Publishable /\ job.status # "FAILED"
        /\ UNCHANGED <<job, published>>
  /\ Goto(Publish, "unlocking")
  /\ UNCHANGED <<task, attempt, result, submits, kept, seen, faults>>

PublishUnlocks ==
  /\ step[Publish] = "unlocking"
  /\ kept' = FALSE
  /\ Goto(Publish, "done")
  /\ UNCHANGED <<rows, data, submits, seen, faults>>

\* An exception releases the lock too, and the job runs again.
PublishThrows ==
  /\ step[Publish] \in {"waiting", "unlocking"}
  /\ Fault
  /\ kept' = FALSE
  /\ Goto(Publish, "waiting")
  /\ UNCHANGED <<rows, data, submits, seen>>

-----------------------------------------------------------------------------
\* The sweep of scans without progress for ten minutes, and the stop request

\* Nothing is under way: only the sweep is left to move the scan.
Quiet == flight = {} /\ \A p \in Procs : step[p] \in Resting

\* Mutant of Stale: only scans with a running task are looked for.
StaleRunning == job.status = "RUNNING" /\ \E t \in Tasks : task[t].status = "RUNNING"

Stale == job.status = "RUNNING"

Sweep ==
  /\ Stale
  /\ IF Quiet THEN UNCHANGED faults ELSE Fault
  /\ job' = [job EXCEPT !.status = "FAILED", !.publish = "NOT_PUBLISHED"]
  /\ attempt' = [t \in Tasks |-> [n \in Nos |->
                   IF attempt[t][n] \in Unfinished THEN "FAILED" ELSE attempt[t][n]]]
  /\ task' = [t \in Tasks |-> IF task[t].status \in {"PENDING", "RUNNING"}
                              THEN [task[t] EXCEPT !.status = "FAILED"] ELSE task[t]]
  /\ kept' = FALSE
  /\ UNCHANGED <<data, submits, step, seen>>

\* stopPendingScanJob finds a scan of which nothing has started - as it may have
\* read a while ago, which counts as a fault - removes the queued job, which
\* throws while a worker has it, and fails the rows without another look.
StopScan ==
  /\ step[Stop] = "none"
  /\ IF job.status = "RUNNING" /\ \A t \in Tasks : task[t].status = "PENDING" /\ task[t].current = 0
     THEN UNCHANGED faults ELSE Fault
  /\ step[Start] # "trying"
  /\ step' = [step EXCEPT ![Stop] = "done", ![Start] = "done"]
  /\ task' = [t \in Tasks |-> IF task[t].status = "PENDING"
                              THEN [task[t] EXCEPT !.status = "FAILED"] ELSE task[t]]
  /\ job' = [job EXCEPT !.status = "FAILED", !.publish = "NOT_PUBLISHED"]
  /\ kept' = FALSE
  /\ UNCHANGED <<attempt, data, submits, seen>>

-----------------------------------------------------------------------------
Submission == \/ \E f \in flight : LimitReached(f) \/ Refused(f) \/ Submitted(f)
              \/ \E p \in Submitters : \/ BeginSubmit(p) \/ SkipSubmit(p)
                                       \/ EndSubmit(p) \/ SubmitNothing(p)
              \/ SlotExpires

Attempt(t, n) == \/ HookSkips(t, n) \/ HookCompleted(t, n) \/ HookFailed(t, n)
                 \/ ParseStarts(t, n) \/ ParseSucceeds(t, n) \/ ParseFails(t, n)
                 \/ ParseResubmits(t, n) \/ ParseGivesUp(t, n) \/ ParseEnds(t, n)
                 \/ DeriveSucceeds(t, n) \/ DeriveThrows(t, n) \/ DeriveEnds(t, n)

Next == \/ Submission
        \/ \E x \in Tries : Attempt(x[1], x[2])
        \/ PublishRuns \/ PublishUnlocks \/ PublishThrows
        \/ \E p \in Procs : Dies(p)
        \/ Sweep \/ StopScan

Spec == Init /\ [][Next]_vars

\* Jobs are run, Shopify answers and the sweep comes round; a scan on which
\* nothing is under way is stale ten minutes later.
Progress == \/ Submission
            \/ \E x \in Tries : Attempt(x[1], x[2])
            \/ PublishRuns \/ PublishUnlocks
            \/ Quiet /\ Sweep

FairSpec == Spec /\ WF_vars(Progress)

-----------------------------------------------------------------------------
\* Properties

TypeOK == /\ job \in JobRows /\ task \in [Tasks -> TaskRows]
          /\ attempt \in [Tasks -> [Nos -> AttemptStatuses]]
          /\ result \in [Tasks -> Nos \cup {0}] /\ published \in [Tasks -> Nos \cup {0}]
          /\ flight \subseteq Flights
          /\ slot \in Submitters \cup {Free} /\ step \in [Procs -> Steps]
          /\ kept \in BOOLEAN /\ faults \in 0 .. MaxFaults
          /\ seen \subseteq {"unnoticed", "revived"}
          /\ \A t \in Tasks : task[t].current <= MaxAttempts[t]

\* A task never has two unfinished attempts, and the one it has is its latest:
\* retries, webhooks of old operations and late submissions do not mix up
\* which bulk operation is the task's (reserveNextScanTaskAttempt).
OneLiveAttempt ==
  \A t \in Tasks, n \in Nos : attempt[t][n] \in Unfinished => n = task[t].current

\* What the scan lists as successful has results, and results are never of an
\* attempt that failed or is to be parsed again: what a webhook or a retry
\* starts over is not in the results, and so not in the catalog.
PublishedWasParsed ==
  /\ \A t \in job.types : result[t] # 0
  /\ \A t \in Tasks : result[t] # 0 => attempt[t][result[t]] = "SUCCESS"

\* Undisturbed, no scan needs the sweep: whichever job finds the last task
\* finished, it is not left RUNNING with nothing under way, and one that succeeded,
\* wholly or in part, is published and has released its lock - if the job that
\* ended it was not one that drops what finalizeScanJobIfTerminal tells it, and no
\* submission came back after that.  With fewer slots than tasks (the code has five
\* for four types of resources) a task would be left PENDING: who finds its
\* submissions refused does not submit what waits for their slots.
UndisturbedCompletes ==
  Quiet /\ faults = 0 /\ "revived" \notin seen /\ Cardinality(Tasks) <= Slots =>
    /\ job.status # "RUNNING"
    /\ job.status \in Succeeded => (job.publish = "PUBLISHED" /\ ~kept) \/ "unnoticed" \in seen

\* None of a scan's many ends gives the shop's SCAN lock away early: while the scan
\* is RUNNING no step of it has released the lock, unless a submission came back
\* after its end.  (That the lock outlasts the scan is not said, and not true: it
\* lives 30 minutes and nobody extends it, see OperationLock.)
KeepsLock == job.status = "RUNNING" => kept \/ "revived" \in seen

\* Whatever goes wrong, a scan comes to an end, and stays there.
ScanEnds == <>[](job.status # "RUNNING")

\* A scan that succeeded, wholly or in part, is published.  It need not be, if a
\* submission ends it: what finalizeScanJobIfTerminal returns is dropped there.
SucceededIsPublished == Quiet /\ job.status \in Succeeded => job.publish = "PUBLISHED"
=============================================================================
