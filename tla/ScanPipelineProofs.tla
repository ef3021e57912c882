------------------------- MODULE ScanPipelineProofs -------------------------
(***************************************************************************)
(* Proofs about ScanPipeline, for any set of tasks, any number of attempts *)
(* and slots, and every order of webhooks, retries, late submissions,      *)
(* deaths of workers, the sweep and the stop request.                      *)
(*                                                                         *)
(* The core of the invariant is that a task is PENDING only while none of  *)
(* its attempts is alive: then the one that reserves the next attempt is   *)
(* alone with it, the answer of a submission meets the attempt it was made *)
(* for, and a parse job works on the task's latest attempt.                *)
(*                                                                         *)
(* That an undisturbed scan needs no sweep (Completes) rests on a second   *)
(* invariant: something is under way for every task that is not finished,  *)
(* and somebody will look when the last one is.                            *)
(***************************************************************************)
EXTENDS ScanPipeline, FiniteSetTheorems, TLAPS

-----------------------------------------------------------------------------
\* The inductive invariant

\* A task that may be reserved has an attempt left.
PendingHasNext(t) == task[t].status = "PENDING" => task[t].current < MaxAttempts[t]

\* An attempt that is alive or was parsed is the latest of a task that is taken.
LatestLives(t) ==
  \A n \in Nos :
    /\ attempt[t][n] \in Unfinished \cup {"SUCCESS"} =>
         n = task[t].current /\ task[t].status # "PENDING"
    /\ attempt[t][n] # "NONE" => n <= task[t].current

\* A submission that Shopify has not answered is of a task's latest attempt, which
\* nobody has heard of yet.
FlightIsLatest(f) ==
  /\ f.no = task[f.task].current /\ f.no # 0
  /\ task[f.task].status # "PENDING"
  /\ attempt[f.task][f.no] \in {"PENDING", "FAILED"}
  /\ step[Hook(f.task, f.no)] = "none"

FlightsAreLatest(t) ==
  /\ \A f \in flight : f.task = t => FlightIsLatest(f)
  /\ \A f, g \in flight : f.task = t /\ g.task = t => f = g

\* Webhooks come of attempts that were made, and parse jobs of webhooks.
JobsFollowWebhooks(t) ==
  \A n \in 1 .. MaxAttempts[t] :
    /\ step[Hook(t, n)] # "none" => attempt[t][n] # "NONE"
    /\ step[Parse(t, n)] # "none" => step[Hook(t, n)] # "none"
    /\ step[Derive(t, n)] # "none" => attempt[t][n] = "SUCCESS"

\* Who parses has the task's latest attempt.
ParsesLatest(t) ==
  \A n \in 1 .. MaxAttempts[t] : step[Parse(t, n)] = "parsing" =>
    /\ n = task[t].current
    /\ task[t].status # "PENDING"
    /\ attempt[t][n] \in {"PARSING", "READY_TO_PARSE", "FAILED"}

TaskInv(t) == /\ PendingHasNext(t) /\ LatestLives(t) /\ FlightsAreLatest(t)
              /\ JobsFollowWebhooks(t) /\ ParsesLatest(t)

\* A task that succeeded has results, and results are of an attempt that was parsed.
ResultsWereParsed ==
  /\ \A t \in job.types : result[t] # 0
  /\ \A t \in Tasks : task[t].status = "SUCCESS" => result[t] # 0
  /\ \A t \in Tasks : result[t] # 0 => attempt[t][result[t]] = "SUCCESS"

\* A scan is published, and its lock released, when it is over.
PublishFollowsEnd == step[Publish] # "none" => job.status # "RUNNING" \/ "revived" \in seen

IInv == /\ TypeOK
        /\ \A t \in Tasks : TaskInv(t)
        /\ ResultsWereParsed
        /\ PublishFollowsEnd
        /\ KeepsLock

-----------------------------------------------------------------------------
\* Processes are told apart by what they do, and by whose attempt.

LEMMA ProcsDiffer ==
  ASSUME NEW t, NEW n, NEW u, NEW m
  PROVE  /\ Hook(t, n) = Hook(u, m) => t = u /\ n = m
         /\ Parse(t, n) = Parse(u, m) => t = u /\ n = m
         /\ Derive(t, n) = Derive(u, m) => t = u /\ n = m
         /\ Hook(t, n) # Parse(u, m) /\ Hook(t, n) # Derive(u, m) /\ Parse(t, n) # Derive(u, m)
         /\ Start # Hook(t, n) /\ Publish # Hook(t, n) /\ Stop # Hook(t, n)
         /\ Start # Parse(t, n) /\ Publish # Parse(t, n) /\ Stop # Parse(t, n)
         /\ Start # Derive(t, n) /\ Publish # Derive(t, n) /\ Stop # Derive(t, n)
BY DEF Hook, Parse, Derive, Start, Publish, Stop

LEMMA ProcsAre ==
  /\ {Start, Publish, Stop} \subseteq Procs
  /\ \A x \in Tries : {Hook(x[1], x[2]), Parse(x[1], x[2]), Derive(x[1], x[2])} \subseteq Procs
  /\ Start # Publish /\ Start # Stop /\ Publish # Stop
  /\ Submitters \subseteq Procs
  /\ \A p \in Submitters : p # Publish /\ p # Stop /\ \A t, n : p # Parse(t, n) /\ p # Derive(t, n)
BY DEF Procs, Submitters, Hook, Parse, Derive, Start, Publish, Stop

\* A number of an attempt that a task may make
LEMMA NosAre ==
  /\ \A t \in Tasks : MaxAttempts[t] \in Nat /\ MaxAttempts[t] > 0
  /\ Nos \subseteq Nat \ {0}
  /\ \A t \in Tasks : \A n \in 1 .. MaxAttempts[t] : n \in Nos /\ <<t, n>> \in Tries
  /\ \A x \in Tries : x = <<x[1], x[2]>> /\ x[1] \in Tasks /\ x[2] \in Nos /\ x[2] <= MaxAttempts[x[1]]
<1>1. \A t \in Tasks : MaxAttempts[t] \in Nat /\ MaxAttempts[t] > 0
  BY PipelineAssumption DEF PipelineAssumption
<1>2. Nos \subseteq Nat \ {0}
  BY <1>1 DEF Nos
<1>3. \A t \in Tasks : \A n \in 1 .. MaxAttempts[t] : n \in Nos
  BY DEF Nos
<1>4. \A t \in Tasks : \A n \in 1 .. MaxAttempts[t] : <<t, n>> \in Tries
  BY <1>1, <1>3 DEF Tries
<1>5. \A x \in Tries : x = <<x[1], x[2]>> /\ x[1] \in Tasks /\ x[2] \in Nos /\ x[2] <= MaxAttempts[x[1]]
  BY DEF Tries
<1>6. QED
  BY <1>1, <1>2, <1>3, <1>4, <1>5

-----------------------------------------------------------------------------
\* What the helpers of the actions do, row by row

LEMMA SettingTask ==
  ASSUME task \in [Tasks -> TaskRows], NEW t \in Tasks,
         NEW s \in {"PENDING", "RUNNING", "SUCCESS", "FAILED"}, SetTask(t, s)
  PROVE  /\ task' \in [Tasks -> TaskRows]
         /\ \A u \in Tasks : u # t => task'[u] = task[u]
         /\ task'[t].status = s /\ task'[t].current = task[t].current
BY DEF SetTask, TaskRows

LEMMA SettingAttempt ==
  ASSUME attempt \in [Tasks -> [Nos -> AttemptStatuses]],
         NEW t \in Tasks, NEW n \in Nos, NEW s \in AttemptStatuses, SetAttempt(t, n, s)
  PROVE  /\ attempt' \in [Tasks -> [Nos -> AttemptStatuses]]
         /\ \A u \in Tasks, m \in Nos :
              attempt'[u][m] = IF u = t /\ m = n THEN s ELSE attempt[u][m]
         /\ \A u \in Tasks : u # t => attempt'[u] = attempt[u]
BY DEF SetAttempt

LEMMA Going ==
  ASSUME step \in [Procs -> Steps], NEW p \in Procs, NEW s \in Steps, Goto(p, s)
  PROVE  /\ step' \in [Procs -> Steps]
         /\ \A r \in Procs : step'[r] = IF r = p THEN s ELSE step[r]
BY DEF Goto

LEMMA Enqueueing ==
  ASSUME step \in [Procs -> Steps], NEW p \in Procs, NEW s \in Steps, NEW q \in Procs, p # q,
         EnqueueAnd(p, s, q)
  PROVE  /\ step' \in [Procs -> Steps]
         /\ \A r \in Procs : step'[r] = IF r = p THEN s
                                         ELSE IF r = q /\ step[q] = "none" THEN "waiting"
                                         ELSE step[r]
BY DEF EnqueueAnd, Steps

LEMMA Returning ==
  ASSUME step \in [Procs -> Steps], NEW f, f.by \in Procs, NEW s \in Steps, Return(f, s)
  PROVE  /\ step' \in [Procs -> Steps]
         /\ \A r \in Procs : step'[r] = IF r = f.by /\ step[r] = "submitted" THEN s ELSE step[r]
         /\ flight' = flight \ {f}
BY DEF Return

\* A job that ends is ended with the tasks that succeeded.
LEMMA Finalizing ==
  ASSUME TypeOK, ResultsWereParsed, UNCHANGED <<task, attempt, result>>, Finalize
  PROVE  /\ job' \in JobRows
         /\ ResultsWereParsed'
         /\ Transitions => job'.status # "RUNNING"
         /\ ~Transitions => job' = job
<1>1. Won \subseteq Tasks /\ FinalStatus \in Succeeded \cup {"FAILED"}
  BY DEF Won, FinalStatus, Succeeded
<1>2. CASE Transitions
  <2>1. job' = [status |-> FinalStatus, types |-> Won,
                publish |-> IF FinalStatus = "FAILED" THEN "NOT_PUBLISHED" ELSE "PENDING"]
    BY <1>2 DEF Finalize
  <2>2. job' \in JobRows /\ job'.types = Won /\ job'.status = FinalStatus
    BY <1>1, <2>1 DEF JobRows, Succeeded
  <2>3. \A t \in Won : result[t] # 0
    BY DEF Won, ResultsWereParsed
  <2>4. job'.status # "RUNNING"
    BY <1>1, <2>2 DEF Succeeded
  <2>5. ResultsWereParsed'
    BY <2>2, <2>3 DEF ResultsWereParsed
  <2>6. QED
    BY <1>2, <2>2, <2>4, <2>5
<1>3. CASE ~Transitions
  <2>1. job' = job
    BY <1>3 DEF Finalize
  <2>2. QED
    BY <1>3, <2>1 DEF TypeOK, ResultsWereParsed
<1>4. QED
  BY <1>2, <1>3

-----------------------------------------------------------------------------
\* What most steps do to a task: nothing, or they end an attempt or take the task

\* Process p neither begins nor comes to parse.
Calm(p) == /\ step'[p] = "none" <=> step[p] = "none"
           /\ step'[p] = "parsing" => step[p] = "parsing"

JobsCalm(t) == \A n \in 1 .. MaxAttempts[t] :
                 Calm(Hook(t, n)) /\ Calm(Parse(t, n)) /\ Calm(Derive(t, n))

LEMMA CalmJobs ==
  ASSUME NEW q, \A r \in Procs \ {q} : Calm(r)
  PROVE  \A t \in Tasks : (\A n \in 1 .. MaxAttempts[t] : q \notin {Hook(t, n), Parse(t, n), Derive(t, n)})
                          => JobsCalm(t)
<1> SUFFICES ASSUME NEW t \in Tasks, NEW n \in 1 .. MaxAttempts[t],
                    q \notin {Hook(t, n), Parse(t, n), Derive(t, n)}
             PROVE  Calm(Hook(t, n)) /\ Calm(Parse(t, n)) /\ Calm(Derive(t, n))
  BY DEF JobsCalm
<1>1. <<t, n>> \in Tries
  BY NosAre
<1>2. {Hook(t, n), Parse(t, n), Derive(t, n)} \subseteq Procs
  BY <1>1, ProcsAre
<1>3. QED
  BY <1>2

LEMMA GoingIsCalm ==
  ASSUME step \in [Procs -> Steps], NEW p \in Procs, step[p] # "none",
         NEW s \in Steps \ {"none", "parsing"}, Goto(p, s)
  PROVE  step' \in [Procs -> Steps] /\ \A r \in Procs : Calm(r)
BY Going DEF Calm

LEMMA ReturningIsCalm ==
  ASSUME step \in [Procs -> Steps], NEW f, f.by \in Procs,
         NEW s \in Steps \ {"none", "parsing"}, Return(f, s)
  PROVE  /\ step' \in [Procs -> Steps]
         /\ \A r \in Procs : Calm(r)
         /\ flight' = flight \ {f}
BY Returning DEF Calm

\* An attempt may end, and the task may be taken by somebody: neither makes an
\* attempt live, nor a task free.
Settles(t) ==
  /\ task'[t].current = task[t].current
  /\ task'[t].status = "PENDING" => task[t].status = "PENDING"
  /\ \A n \in Nos : \/ attempt'[t][n] = attempt[t][n]
                    \/ attempt[t][n] \in Unfinished /\ attempt'[t][n] = "FAILED"
  /\ \A f \in flight' : f.task = t => f \in flight
  /\ JobsCalm(t)

LEMMA Settling ==
  ASSUME TypeOK, NEW t \in Tasks, TaskInv(t), Settles(t)
  PROVE  TaskInv(t)'
<1>1. PendingHasNext(t)'
  BY DEF TaskInv, Settles, PendingHasNext
<1>2. LatestLives(t)'
  BY DEF TaskInv, Settles, LatestLives, Unfinished
<1>3. JobsFollowWebhooks(t)'
  <2> SUFFICES ASSUME NEW n \in 1 .. MaxAttempts[t]
               PROVE  /\ step'[Hook(t, n)] # "none" => attempt'[t][n] # "NONE"
                      /\ step'[Parse(t, n)] # "none" => step'[Hook(t, n)] # "none"
                      /\ step'[Derive(t, n)] # "none" => attempt'[t][n] = "SUCCESS"
    BY DEF JobsFollowWebhooks
  <2>1. n \in Nos
    BY NosAre
  <2>2. QED
    BY <2>1 DEF TaskInv, Settles, JobsFollowWebhooks, JobsCalm, Calm, Unfinished
<1>4. ParsesLatest(t)'
  <2> SUFFICES ASSUME NEW n \in 1 .. MaxAttempts[t], step'[Parse(t, n)] = "parsing"
               PROVE  /\ n = task'[t].current
                      /\ task'[t].status # "PENDING"
                      /\ attempt'[t][n] \in {"PARSING", "READY_TO_PARSE", "FAILED"}
    BY DEF ParsesLatest
  <2>1. n \in Nos
    BY NosAre
  <2>2. QED
    BY <2>1 DEF TaskInv, Settles, ParsesLatest, JobsCalm, Calm
<1>5. ASSUME NEW f \in flight', f.task = t PROVE FlightIsLatest(f)'
  <2>1. f \in flight /\ FlightIsLatest(f)
    BY <1>5 DEF TaskInv, Settles, FlightsAreLatest
  <2>2. f.no \in Nos /\ f.no \in 1 .. MaxAttempts[t]
    BY <1>5, <2>1, NosAre DEF FlightIsLatest, TypeOK, Flights, TaskRows
  <2>3. step'[Hook(t, f.no)] = "none"
    BY <1>5, <2>1, <2>2 DEF FlightIsLatest, Settles, JobsCalm, Calm
  <2>4. QED
    BY <1>5, <2>1, <2>2, <2>3 DEF FlightIsLatest, Settles
<1>6. FlightsAreLatest(t)'
  BY <1>5 DEF TaskInv, Settles, FlightsAreLatest
<1>7. QED
  BY <1>1, <1>2, <1>3, <1>4, <1>6 DEF TaskInv

\* The tasks a step does not write settle when no process of theirs begins.
LEMMA Untouched ==
  ASSUME TypeOK, \A t \in Tasks : TaskInv(t),
         NEW t \in Tasks, task'[t] = task[t], attempt'[t] = attempt[t],
         \A f \in flight' : f.task = t => f \in flight, JobsCalm(t)
  PROVE  TaskInv(t)'
BY Settling DEF Settles

LEMMA AllCalm ==
  ASSUME \A r \in Procs : Calm(r)
  PROVE  \A t \in Tasks : JobsCalm(t)
<1> SUFFICES ASSUME NEW t \in Tasks, NEW n \in 1 .. MaxAttempts[t]
             PROVE  Calm(Hook(t, n)) /\ Calm(Parse(t, n)) /\ Calm(Derive(t, n))
  BY DEF JobsCalm
<1>1. <<t, n>> \in Tries
  BY NosAre
<1>2. {Hook(t, n), Parse(t, n), Derive(t, n)} \subseteq Procs
  BY <1>1, ProcsAre
<1>3. QED
  BY <1>2

\* An attempt's jobs are processes, and no others.
LEMMA JobsAre ==
  ASSUME NEW t \in Tasks, NEW n \in 1 .. MaxAttempts[t]
  PROVE  /\ n \in Nos /\ n \in Nat \ {0} /\ <<t, n>> \in Tries
         /\ Hook(t, n) \in Procs /\ Parse(t, n) \in Procs /\ Derive(t, n) \in Procs
         /\ Hook(t, n) # Parse(t, n) /\ Hook(t, n) # Derive(t, n) /\ Parse(t, n) # Derive(t, n)
         /\ Hook(t, n) # Publish /\ Parse(t, n) # Publish /\ Derive(t, n) # Publish
<1>1. n \in Nos /\ <<t, n>> \in Tries
  BY NosAre
<1>2. n \in Nat \ {0}
  BY <1>1, NosAre
<1>3. Hook(t, n) \in Procs /\ Parse(t, n) \in Procs /\ Derive(t, n) \in Procs
  BY <1>1, ProcsAre
<1>4. /\ Hook(t, n) # Parse(t, n) /\ Hook(t, n) # Derive(t, n) /\ Parse(t, n) # Derive(t, n)
      /\ Hook(t, n) # Publish /\ Parse(t, n) # Publish /\ Derive(t, n) # Publish
  BY ProcsDiffer
<1>5. QED
  BY <1>1, <1>2, <1>3, <1>4

\* The end of the scan, as a step leaves it that does not end it
LEMMA EndStays ==
  ASSUME PublishFollowsEnd, KeepsLock, UNCHANGED <<job, kept, seen>>,
         step'[Publish] = "none" <=> step[Publish] = "none"
  PROVE  PublishFollowsEnd' /\ KeepsLock'
BY DEF PublishFollowsEnd, KeepsLock

\* Results that a step does not write, of attempts it does not start over
LEMMA ResultsStay ==
  ASSUME TypeOK, ResultsWereParsed, UNCHANGED <<job, result>>,
         \A t \in Tasks : task'[t].status = "SUCCESS" => task[t].status = "SUCCESS",
         \A t \in Tasks, n \in Nos : attempt[t][n] = "SUCCESS" => attempt'[t][n] = "SUCCESS"
  PROVE  ResultsWereParsed'
BY DEF TypeOK, ResultsWereParsed

-----------------------------------------------------------------------------
\* Steps that only move processes

LEMMA MovingKeeps ==
  ASSUME IInv, UNCHANGED <<rows, data, kept, seen>>,
         step' \in [Procs -> Steps], \A r \in Procs : Calm(r),
         flight' \subseteq flight, slot' \in Submitters \cup {Free}, faults' \in 0 .. MaxFaults
  PROVE  IInv'
<1>1. TypeOK'
  BY DEF IInv, TypeOK, rows, data
<1>2. \A t \in Tasks : TaskInv(t)'
  BY AllCalm, Untouched DEF IInv, rows
<1>3. ResultsWereParsed'
  BY ResultsStay DEF IInv, rows, data
<1>4. PublishFollowsEnd' /\ KeepsLock'
  BY EndStays, ProcsAre DEF IInv, Calm, rows
<1>5. QED
  BY <1>1, <1>2, <1>3, <1>4 DEF IInv

\* A fault is counted within its bound.
LEMMA Faulting ==
  ASSUME TypeOK, Fault \/ UNCHANGED faults
  PROVE  faults' \in 0 .. MaxFaults
<1>1. MaxFaults \in Nat
  BY PipelineAssumption DEF PipelineAssumption
<1>2. QED
  BY <1>1 DEF TypeOK, Fault

LEMMA SkipSubmitKeeps ==
  ASSUME IInv, NEW p \in Submitters, SkipSubmit(p)
  PROVE  IInv'
<1>1. p \in Procs /\ step[p] # "none" /\ After(p) \in Steps \ {"none", "parsing"}
  BY ProcsAre DEF SkipSubmit, AtSubmit, After, Steps, Resting
<1>2. step' \in [Procs -> Steps] /\ \A r \in Procs : Calm(r)
  BY <1>1, GoingIsCalm DEF SkipSubmit, IInv, TypeOK
<1>3. QED
  BY <1>2, MovingKeeps DEF SkipSubmit, IInv, TypeOK, submits

LEMMA SlotExpiresKeeps ==
  ASSUME IInv, SlotExpires
  PROVE  IInv'
<1>1. step' \in [Procs -> Steps] /\ \A r \in Procs : Calm(r)
  BY DEF SlotExpires, IInv, TypeOK, Calm
<1>2. QED
  BY <1>1, MovingKeeps, Faulting DEF SlotExpires, IInv, TypeOK

LEMMA HookSkipsKeeps ==
  ASSUME IInv, NEW t \in Tasks, NEW n \in 1 .. MaxAttempts[t], HookSkips(t, n)
  PROVE  IInv'
<1>1. Hook(t, n) \in Procs /\ step[Hook(t, n)] # "none" /\ "done" \in Steps \ {"none", "parsing"}
  BY JobsAre DEF HookSkips, Steps, Resting
<1>2. step' \in [Procs -> Steps] /\ \A r \in Procs : Calm(r)
  BY <1>1, GoingIsCalm DEF HookSkips, IInv, TypeOK
<1>3. QED
  BY <1>2, MovingKeeps DEF HookSkips, IInv, TypeOK, submits

LEMMA DiesKeeps ==
  ASSUME IInv, NEW p \in Procs, Dies(p)
  PROVE  IInv'
<1>1. step[p] # "none" /\ "waiting" \in Steps \ {"none", "parsing"}
  BY DEF Dies, Steps, Resting
<1>2. step' \in [Procs -> Steps] /\ \A r \in Procs : Calm(r)
  BY <1>1, GoingIsCalm DEF Dies, IInv, TypeOK
<1>3. flight' \subseteq flight
  BY DEF Dies
<1>4. QED
  BY <1>2, <1>3, MovingKeeps, Faulting DEF Dies, IInv, TypeOK

-----------------------------------------------------------------------------
\* Steps after which a task is taken or an attempt over

LEMMA RefusedKeeps ==
  ASSUME IInv, NEW f \in flight, Refused(f)
  PROVE  IInv'
<1>1. f.task \in Tasks /\ f.no \in Nos /\ f.by \in Procs /\ FlightIsLatest(f)
  BY DEF IInv, TypeOK, Flights, TaskInv, FlightsAreLatest
<1>2. /\ task' \in [Tasks -> TaskRows]
      /\ \A u \in Tasks : u # f.task => task'[u] = task[u]
      /\ task'[f.task].status = "FAILED" /\ task'[f.task].current = task[f.task].current
  BY <1>1, SettingTask DEF Refused, IInv, TypeOK
<1>3. /\ attempt' \in [Tasks -> [Nos -> AttemptStatuses]]
      /\ \A u \in Tasks, m \in Nos :
           attempt'[u][m] = IF u = f.task /\ m = f.no THEN "FAILED" ELSE attempt[u][m]
  BY <1>1, SettingAttempt DEF Refused, IInv, TypeOK, AttemptStatuses
<1>4. step' \in [Procs -> Steps] /\ (\A r \in Procs : Calm(r)) /\ flight' = flight \ {f}
  BY <1>1, ReturningIsCalm DEF Refused, IInv, TypeOK, Steps, Resting
<1>5. TypeOK'
  BY <1>2, <1>3, <1>4 DEF Refused, IInv, TypeOK, data
<1>6. \A t \in Tasks : Settles(t)
  BY <1>1, <1>2, <1>3, <1>4, AllCalm DEF Settles, FlightIsLatest, Unfinished
<1>7. \A t \in Tasks : TaskInv(t)'
  BY <1>6, Settling DEF IInv
<1>8. ResultsWereParsed'
  BY <1>1, <1>2, <1>3, ResultsStay DEF Refused, IInv, data, FlightIsLatest
<1>9. PublishFollowsEnd' /\ KeepsLock'
  BY <1>4, EndStays, ProcsAre DEF Refused, IInv, Calm
<1>10. QED
  BY <1>5, <1>7, <1>8, <1>9 DEF IInv

LEMMA HookFailedKeeps ==
  ASSUME IInv, NEW t \in Tasks, NEW n \in 1 .. MaxAttempts[t], HookFailed(t, n)
  PROVE  IInv'
<1>1. n \in Nos /\ Hook(t, n) \in Procs /\ step[Hook(t, n)] # "none"
  BY JobsAre DEF HookFailed
<1>2. attempt[t][n] \in Unfinished
  BY <1>1 DEF HookFailed, HookIgnores, IInv, TypeOK, AttemptStatuses, TaskInv, JobsFollowWebhooks
<1>3. /\ task' \in [Tasks -> TaskRows]
      /\ \A u \in Tasks : u # t => task'[u] = task[u]
      /\ task'[t].status = "FAILED" /\ task'[t].current = task[t].current
  BY ZenonT(60) DEF HookFailed, IInv, TypeOK, TaskRows
<1>4. /\ attempt' \in [Tasks -> [Nos -> AttemptStatuses]]
      /\ \A u \in Tasks, m \in Nos :
           attempt'[u][m] = IF u = t /\ m = n THEN "FAILED" ELSE attempt[u][m]
  BY <1>1, SettingAttempt DEF HookFailed, IInv, TypeOK, AttemptStatuses
<1>5. step' \in [Procs -> Steps] /\ (\A r \in Procs : Calm(r))
  BY <1>1, GoingIsCalm DEF HookFailed, IInv, TypeOK, Steps, Resting
<1>6. TypeOK'
  BY <1>3, <1>4, <1>5 DEF HookFailed, IInv, TypeOK, data, submits
<1>7. \A u \in Tasks : Settles(u)
  BY <1>2, <1>3, <1>4, <1>5, AllCalm DEF HookFailed, Settles, submits
<1>8. \A u \in Tasks : TaskInv(u)'
  BY <1>7, Settling DEF IInv
<1>9. ResultsWereParsed'
  BY <1>2, <1>3, <1>4, ResultsStay DEF HookFailed, IInv, data, Unfinished
<1>10. PublishFollowsEnd' /\ KeepsLock'
  BY <1>5, EndStays, ProcsAre DEF HookFailed, IInv, Calm
<1>11. QED
  BY <1>6, <1>8, <1>9, <1>10 DEF IInv

LEMMA ParseGivesUpKeeps ==
  ASSUME IInv, NEW t \in Tasks, NEW n \in 1 .. MaxAttempts[t], ParseGivesUp(t, n)
  PROVE  IInv'
<1>1. Parse(t, n) \in Procs /\ step[Parse(t, n)] # "none"
  BY JobsAre DEF ParseGivesUp
<1>2. /\ task' \in [Tasks -> TaskRows]
      /\ \A u \in Tasks : u # t => task'[u] = task[u]
      /\ task'[t].status = "FAILED" /\ task'[t].current = task[t].current
  BY SettingTask DEF ParseGivesUp, IInv, TypeOK
<1>3. step' \in [Procs -> Steps] /\ (\A r \in Procs : Calm(r))
  BY <1>1, GoingIsCalm DEF ParseGivesUp, IInv, TypeOK, Steps, Resting
<1>4. TypeOK'
  BY <1>2, <1>3 DEF ParseGivesUp, IInv, TypeOK, data, submits
<1>5. \A u \in Tasks : Settles(u)
  BY <1>2, <1>3, AllCalm DEF ParseGivesUp, Settles, submits
<1>6. \A u \in Tasks : TaskInv(u)'
  BY <1>5, Settling DEF IInv
<1>7. ResultsWereParsed'
  BY <1>2, ResultsStay DEF ParseGivesUp, IInv, data
<1>8. PublishFollowsEnd' /\ KeepsLock'
  BY <1>3, EndStays, ProcsAre DEF ParseGivesUp, IInv, Calm
<1>9. QED
  BY <1>4, <1>6, <1>7, <1>8 DEF IInv

\* markScanTaskSucceeded, and the catch of a derive job: of results of the latest attempt
LEMMA DeriveSucceedsKeeps ==
  ASSUME IInv, NEW t \in Tasks, NEW n \in 1 .. MaxAttempts[t], DeriveSucceeds(t, n)
  PROVE  IInv'
<1>1. n \in Nos /\ n # 0 /\ Derive(t, n) \in Procs /\ step[Derive(t, n)] # "none"
  BY JobsAre DEF DeriveSucceeds
<1>2. attempt[t][n] = "SUCCESS" /\ n = task[t].current
  BY DEF DeriveSucceeds, Derivable
<1>3. /\ task' \in [Tasks -> TaskRows]
      /\ \A u \in Tasks : u # t => task'[u] = task[u]
      /\ task'[t].status = "SUCCESS" /\ task'[t].current = task[t].current
  BY ZenonT(60), <1>1 DEF DeriveSucceeds, IInv, TypeOK, TaskRows
<1>4. /\ result' \in [Tasks -> Nos \cup {0}]
      /\ \A u \in Tasks : result'[u] = IF u = t THEN n ELSE result[u]
  BY <1>1 DEF DeriveSucceeds, IInv, TypeOK
<1>5. step' \in [Procs -> Steps] /\ (\A r \in Procs : Calm(r))
  BY <1>1, GoingIsCalm DEF DeriveSucceeds, IInv, TypeOK, Steps, Resting
<1>6. TypeOK'
  BY <1>3, <1>4, <1>5 DEF DeriveSucceeds, IInv, TypeOK, submits
<1>7. \A u \in Tasks : Settles(u)
  BY <1>3, <1>5, AllCalm DEF DeriveSucceeds, Settles, submits
<1>8. \A u \in Tasks : TaskInv(u)'
  BY <1>7, Settling DEF IInv
<1>9. ResultsWereParsed'
  BY <1>1, <1>2, <1>3, <1>4 DEF DeriveSucceeds, IInv, TypeOK, JobRows, ResultsWereParsed
<1>10. PublishFollowsEnd' /\ KeepsLock'
  BY <1>5, EndStays, ProcsAre DEF DeriveSucceeds, IInv, Calm
<1>11. QED
  BY <1>6, <1>8, <1>9, <1>10 DEF IInv

LEMMA DeriveThrowsKeeps ==
  ASSUME IInv, NEW t \in Tasks, NEW n \in 1 .. MaxAttempts[t], DeriveThrows(t, n)
  PROVE  IInv'
<1>1. n \in Nos /\ n # 0 /\ Derive(t, n) \in Procs /\ step[Derive(t, n)] # "none"
  BY JobsAre DEF DeriveThrows
<1>2. \/ result' = result
      \/ attempt[t][n] = "SUCCESS" /\ result' = [result EXCEPT ![t] = n]
  BY DEF DeriveThrows, Derivable
<1>3. /\ task' \in [Tasks -> TaskRows]
      /\ \A u \in Tasks : u # t => task'[u] = task[u]
      /\ task'[t].status = "FAILED" /\ task'[t].current = task[t].current
  BY SettingTask DEF DeriveThrows, IInv, TypeOK
<1>4. /\ result' \in [Tasks -> Nos \cup {0}]
      /\ \A u \in Tasks : \/ result'[u] = result[u]
                          \/ u = t /\ result'[u] = n /\ attempt[t][n] = "SUCCESS"
  BY <1>1, <1>2 DEF IInv, TypeOK
<1>5. step' \in [Procs -> Steps] /\ (\A r \in Procs : Calm(r))
  BY <1>1, GoingIsCalm DEF DeriveThrows, IInv, TypeOK, Steps, Resting
<1>6. TypeOK'
  BY <1>3, <1>4, <1>5, Faulting DEF DeriveThrows, IInv, TypeOK, submits
<1>7. \A u \in Tasks : Settles(u)
  BY <1>3, <1>5, AllCalm DEF DeriveThrows, Settles, submits
<1>8. \A u \in Tasks : TaskInv(u)'
  BY <1>7, Settling DEF IInv
<1>9. ResultsWereParsed'
  BY <1>1, <1>3, <1>4 DEF DeriveThrows, IInv, TypeOK, JobRows, ResultsWereParsed
<1>10. PublishFollowsEnd' /\ KeepsLock'
  BY <1>5, EndStays, ProcsAre DEF DeriveThrows, IInv, Calm
<1>11. QED
  BY <1>6, <1>8, <1>9, <1>10 DEF IInv

LEMMA SweepKeeps ==
  ASSUME IInv, Sweep
  PROVE  IInv'
<1>1. /\ attempt' \in [Tasks -> [Nos -> AttemptStatuses]]
      /\ \A t \in Tasks, n \in Nos :
           attempt'[t][n] = IF attempt[t][n] \in Unfinished THEN "FAILED" ELSE attempt[t][n]
  BY DEF Sweep, IInv, TypeOK, AttemptStatuses
<1>2. \A t \in Tasks :
        /\ task'[t] \in TaskRows /\ task'[t].current = task[t].current
        /\ task'[t].status \in {task[t].status, "FAILED"}
  <2> SUFFICES ASSUME NEW t \in Tasks
               PROVE  /\ task'[t] \in TaskRows /\ task'[t].current = task[t].current
                      /\ task'[t].status \in {task[t].status, "FAILED"}
    OBVIOUS
  <2>1. task'[t] \in {task[t], [task[t] EXCEPT !.status = "FAILED"]} /\ task[t] \in TaskRows
    BY DEF Sweep, IInv, TypeOK
  <2>2. QED
    BY <2>1 DEF TaskRows
<1>3. task' = [t \in Tasks |-> task'[t]]
  BY DEF Sweep
<1>4. /\ job' \in JobRows /\ job'.types = job.types /\ job'.status = "FAILED"
  BY DEF Sweep, IInv, TypeOK, JobRows
<1>5. TypeOK'
  BY <1>1, <1>2, <1>3, <1>4, Faulting DEF Sweep, IInv, TypeOK, data, submits
<1>6. \A p \in Procs : Calm(p)
  BY DEF Sweep, Calm
<1>7. \A t \in Tasks : Settles(t)
  BY <1>1, <1>2, <1>6, AllCalm DEF Sweep, Settles, submits
<1>8. \A t \in Tasks : TaskInv(t)'
  BY <1>7, Settling DEF IInv
<1>9. ResultsWereParsed'
  BY <1>1, <1>2, <1>4 DEF Sweep, IInv, TypeOK, data, ResultsWereParsed, Unfinished
<1>10. PublishFollowsEnd' /\ KeepsLock'
  BY <1>4 DEF PublishFollowsEnd, KeepsLock
<1>11. QED
  BY <1>5, <1>8, <1>9, <1>10 DEF IInv

LEMMA StopScanKeeps ==
  ASSUME IInv, StopScan
  PROVE  IInv'
<1>1. \A t \in Tasks :
        /\ task'[t] \in TaskRows /\ task'[t].current = task[t].current
        /\ task'[t].status \in {task[t].status, "FAILED"}
  <2> SUFFICES ASSUME NEW t \in Tasks
               PROVE  /\ task'[t] \in TaskRows /\ task'[t].current = task[t].current
                      /\ task'[t].status \in {task[t].status, "FAILED"}
    OBVIOUS
  <2>1. task'[t] \in {task[t], [task[t] EXCEPT !.status = "FAILED"]} /\ task[t] \in TaskRows
    BY DEF StopScan, IInv, TypeOK
  <2>2. QED
    BY <2>1 DEF TaskRows
<1>2. task' = [t \in Tasks |-> task'[t]]
  BY DEF StopScan
<1>3. /\ job' \in JobRows /\ job'.types = job.types /\ job'.status = "FAILED"
  BY DEF StopScan, IInv, TypeOK, JobRows
<1>4. /\ step' \in [Procs -> Steps]
      /\ \A p \in Procs : p \notin {Start, Stop} => step'[p] = step[p]
  BY DEF StopScan, IInv, TypeOK, Steps, Resting
<1>5. TypeOK'
  BY <1>1, <1>2, <1>3, <1>4, Faulting DEF StopScan, IInv, TypeOK, data, submits
<1>6. \A t \in Tasks : JobsCalm(t)
  <2> SUFFICES ASSUME NEW t \in Tasks, NEW n \in 1 .. MaxAttempts[t]
               PROVE  Calm(Hook(t, n)) /\ Calm(Parse(t, n)) /\ Calm(Derive(t, n))
    BY DEF JobsCalm
  <2>1. {Hook(t, n), Parse(t, n), Derive(t, n)} \subseteq Procs
    BY JobsAre
  <2>2. \A p \in {Hook(t, n), Parse(t, n), Derive(t, n)} : p # Start /\ p # Stop
    BY ProcsDiffer
  <2>3. QED
    BY <1>4, <2>1, <2>2 DEF Calm
<1>7. \A t \in Tasks : Settles(t)
  BY <1>1, <1>6 DEF StopScan, Settles, submits
<1>8. \A t \in Tasks : TaskInv(t)'
  BY <1>7, Settling DEF IInv
<1>9. ResultsWereParsed'
  BY <1>1, <1>3 DEF StopScan, IInv, TypeOK, data, ResultsWereParsed
<1>10. PublishFollowsEnd' /\ KeepsLock'
  BY <1>3 DEF PublishFollowsEnd, KeepsLock
<1>11. QED
  BY <1>5, <1>8, <1>9, <1>10 DEF IInv

-----------------------------------------------------------------------------
\* Steps that may end the scan

LEMMA FinalizeOnlyKeeps ==
  ASSUME IInv, NEW p \in Procs \ {Publish}, step[p] # "none", FinalizeOnly(p, "done"),
         UNCHANGED <<task, attempt, data, flight, kept, faults>>,
         slot' \in Submitters \cup {Free}
  PROVE  IInv'
<1>1. /\ job' \in JobRows /\ ResultsWereParsed'
      /\ Transitions => job'.status # "RUNNING"
      /\ ~Transitions => job' = job
  BY Finalizing DEF FinalizeOnly, IInv, data
<1>2. step' \in [Procs -> Steps] /\ \A r \in Procs : Calm(r)
  BY GoingIsCalm DEF FinalizeOnly, IInv, TypeOK, Steps, Resting
<1>3. seen \subseteq seen' /\ seen' \subseteq {"unnoticed", "revived"}
  BY DEF FinalizeOnly, IInv, TypeOK
<1>4. TypeOK'
  BY <1>1, <1>2, <1>3 DEF IInv, TypeOK, data
<1>5. \A t \in Tasks : TaskInv(t)'
  BY <1>2, AllCalm, Untouched DEF IInv
<1>6. PublishFollowsEnd' /\ KeepsLock'
  BY <1>1, <1>2, <1>3, ProcsAre DEF IInv, PublishFollowsEnd, KeepsLock, Calm
<1>7. QED
  BY <1>1, <1>4, <1>5, <1>6 DEF IInv

LEMMA FinalizeThenKeeps ==
  ASSUME IInv, NEW p \in Procs \ {Publish}, step[p] # "none", NEW s \in {"done", "waiting"},
         NEW unlocks \in BOOLEAN, FinalizeThen(p, s, unlocks),
         UNCHANGED <<task, attempt, data, submits, seen>>
  PROVE  IInv'
<1>1. /\ job' \in JobRows /\ ResultsWereParsed'
      /\ Transitions => job'.status # "RUNNING"
      /\ ~Transitions => job' = job
  BY Finalizing DEF FinalizeThen, IInv, data
<1>2. /\ step' \in [Procs -> Steps]
      /\ \A r \in Procs \ {Publish} : Calm(r)
      /\ step[Publish] # "none" => step'[Publish] # "none"
      /\ ~Transitions => Calm(Publish)
  <2>1. CASE Publishes /\ EnqueueAnd(p, s, Publish)
    BY <2>1, Enqueueing, ProcsAre DEF IInv, TypeOK, Steps, Resting, Calm, Publishes
  <2>2. CASE Goto(p, s) \/ Goto(p, "waiting")
    BY <2>2, GoingIsCalm, ProcsAre DEF IInv, TypeOK, Steps, Resting, Calm
  <2>3. QED
    BY <2>1, <2>2 DEF FinalizeThen
<1>3. /\ kept' \in BOOLEAN
      /\ ~Transitions => kept' = kept
      /\ faults' \in 0 .. MaxFaults
  BY Faulting DEF FinalizeThen, IInv, TypeOK, Releases, Publishes
<1>4. TypeOK'
  BY <1>1, <1>2, <1>3 DEF IInv, TypeOK, data, submits
<1>5. \A t \in Tasks : JobsCalm(t)
  <2> SUFFICES ASSUME NEW t \in Tasks, NEW n \in 1 .. MaxAttempts[t]
               PROVE  Calm(Hook(t, n)) /\ Calm(Parse(t, n)) /\ Calm(Derive(t, n))
    BY DEF JobsCalm
  <2>1. QED
    BY <1>2, JobsAre
<1>6. \A t \in Tasks : TaskInv(t)'
  BY <1>5, Untouched DEF IInv, submits
<1>7. PublishFollowsEnd' /\ KeepsLock'
  BY <1>1, <1>2, <1>3 DEF IInv, PublishFollowsEnd, KeepsLock, Calm
<1>8. QED
  BY <1>1, <1>4, <1>6, <1>7 DEF IInv

LEMMA EndSubmitKeeps ==
  ASSUME IInv, NEW p \in Submitters, EndSubmit(p)
  PROVE  IInv'
<1>1. p \in Procs \ {Publish} /\ step[p] # "none" /\ slot' \in Submitters \cup {Free}
  BY ProcsAre DEF EndSubmit, IInv, TypeOK
<1>2. CASE p = Start
  BY <1>1, <1>2, FinalizeOnlyKeeps DEF EndSubmit
<1>3. CASE p # Start
  <2>1. "finalizing" \in Steps \ {"none", "parsing"} /\ Goto(p, "finalizing")
    BY <1>3 DEF EndSubmit, Steps, Resting
  <2>2. step' \in [Procs -> Steps] /\ \A r \in Procs : Calm(r)
    BY <1>1, <2>1, GoingIsCalm DEF IInv, TypeOK
  <2>3. QED
    BY <1>1, <1>3, <2>2, MovingKeeps DEF EndSubmit, IInv, TypeOK, rows
<1>4. QED
  BY <1>2, <1>3

LEMMA SubmitNothingKeeps ==
  ASSUME IInv, NEW p \in Submitters, SubmitNothing(p)
  PROVE  IInv'
<1>1. p \in Procs \ {Publish} /\ step[p] # "none" /\ slot' \in Submitters \cup {Free}
  BY ProcsAre DEF SubmitNothing, AtSubmit, IInv, TypeOK, submits
<1>2. QED
  BY <1>1, FinalizeOnlyKeeps DEF SubmitNothing, submits

LEMMA ParseEndsKeeps ==
  ASSUME IInv, NEW t \in Tasks, NEW n \in 1 .. MaxAttempts[t], ParseEnds(t, n)
  PROVE  IInv'
<1>1. Parse(t, n) \in Procs \ {Publish} /\ step[Parse(t, n)] # "none"
  BY JobsAre DEF ParseEnds
<1>2. QED
  BY <1>1, FinalizeThenKeeps DEF ParseEnds

LEMMA DeriveEndsKeeps ==
  ASSUME IInv, NEW t \in Tasks, NEW n \in 1 .. MaxAttempts[t], DeriveEnds(t, n)
  PROVE  IInv'
<1>1. Derive(t, n) \in Procs \ {Publish} /\ step[Derive(t, n)] # "none"
  BY JobsAre DEF DeriveEnds
<1>2. QED
  BY <1>1, FinalizeThenKeeps DEF DeriveEnds

\* The publish job is there only when the scan is over, and does not bring it back.
LEMMA PublishKeeps ==
  ASSUME IInv, PublishRuns \/ PublishUnlocks \/ PublishThrows
  PROVE  IInv'
<1>1. Publish \in Procs /\ step[Publish] # "none"
  BY ProcsAre DEF PublishRuns, PublishUnlocks, PublishThrows
<1>2. step' \in [Procs -> Steps] /\ \A r \in Procs : Calm(r)
  BY <1>1, GoingIsCalm DEF PublishRuns, PublishUnlocks, PublishThrows, IInv, TypeOK, Steps, Resting
<1>3. /\ job' \in JobRows /\ job'.status = job.status /\ job'.types = job.types
      /\ published' \in [Tasks -> Nos \cup {0}]
      /\ kept' \in BOOLEAN /\ faults' \in 0 .. MaxFaults
  <2>1. CASE PublishRuns
    <3>1. job' = job \/ \E q \in {"PUBLISHED", "NOT_PUBLISHED"} : job' = [job EXCEPT !.publish = q]
      BY <2>1 DEF PublishRuns
    <3>2. job' \in JobRows /\ job'.status = job.status /\ job'.types = job.types
      BY <3>1 DEF IInv, TypeOK, JobRows
    <3>3. published' \in [Tasks -> Nos \cup {0}]
      BY <2>1 DEF PublishRuns, IInv, TypeOK
    <3>4. QED
      BY <2>1, <3>2, <3>3 DEF PublishRuns, IInv, TypeOK
  <2>2. CASE PublishUnlocks
    BY <2>2 DEF PublishUnlocks, IInv, TypeOK, rows, data
  <2>3. CASE PublishThrows
    BY <2>3, Faulting DEF PublishThrows, IInv, TypeOK, rows, data
  <2>4. QED
    BY <2>1, <2>2, <2>3
<1>4. UNCHANGED <<task, attempt, result, flight, slot, seen>>
  BY DEF PublishRuns, PublishUnlocks, PublishThrows, rows, data, submits
<1>5. TypeOK'
  BY <1>2, <1>3, <1>4 DEF IInv, TypeOK
<1>6. \A t \in Tasks : TaskInv(t)'
  BY <1>2, <1>4, AllCalm, Untouched DEF IInv
<1>7. ResultsWereParsed'
  BY <1>3, <1>4 DEF IInv, TypeOK, ResultsWereParsed
<1>8. PublishFollowsEnd' /\ KeepsLock'
  BY <1>1, <1>3, <1>4 DEF PublishRuns, PublishUnlocks, PublishThrows,
                          IInv, PublishFollowsEnd, KeepsLock
<1>9. QED
  BY <1>5, <1>6, <1>7, <1>8 DEF IInv

-----------------------------------------------------------------------------
\* Steps that start an attempt, move it on or give it back

\* A task that is pending has no attempt alive, none parsed, and no submission;
\* the number it reserves next was never used.
LEMMA PendingIsIdle ==
  ASSUME TypeOK, NEW t \in Tasks, TaskInv(t), task[t].status = "PENDING"
  PROVE  /\ task[t].current + 1 \in 1 .. MaxAttempts[t]
         /\ attempt[t][task[t].current + 1] = "NONE"
         /\ \A n \in Nos : attempt[t][n] \in {"NONE", "FAILED"}
         /\ \A f \in flight : f.task # t
         /\ \A n \in 1 .. MaxAttempts[t] : step[Parse(t, n)] # "parsing"
<1>1. task[t].current \in Nat /\ task[t].current < MaxAttempts[t] /\ MaxAttempts[t] \in Nat
  BY NosAre DEF TypeOK, TaskRows, TaskInv, PendingHasNext
<1>2. task[t].current + 1 \in 1 .. MaxAttempts[t] /\ task[t].current + 1 \in Nos
  <2>1. task[t].current + 1 \in 1 .. MaxAttempts[t]
    BY <1>1
  <2>2. QED
    BY <2>1, NosAre
<1>3. attempt[t][task[t].current + 1] = "NONE"
  BY <1>1, <1>2 DEF TaskInv, LatestLives
<1>4. \A n \in Nos : attempt[t][n] \in {"NONE", "FAILED"}
  BY DEF TypeOK, TaskInv, LatestLives, AttemptStatuses, Unfinished
<1>5. \A f \in flight : f.task # t
  BY DEF TaskInv, FlightsAreLatest, FlightIsLatest
<1>6. QED
  BY <1>2, <1>3, <1>4, <1>5 DEF TaskInv, ParsesLatest

LEMMA Reserving ==
  ASSUME TypeOK, \A t \in Tasks : TaskInv(t),
         NEW p \in Procs, NEW S \in SUBSET Pending, Reserve(p, S),
         step' \in [Procs -> Steps], \A r \in Procs : Calm(r)
  PROVE  /\ task' \in [Tasks -> TaskRows]
         /\ \A t \in Tasks : task'[t].current <= MaxAttempts[t]
         /\ attempt' \in [Tasks -> [Nos -> AttemptStatuses]]
         /\ flight' \subseteq Flights
         /\ \A t \in Tasks : TaskInv(t)'
         /\ \A t \in Tasks : task'[t].status = "SUCCESS" => task[t].status = "SUCCESS"
         /\ \A t \in Tasks, n \in Nos : attempt[t][n] = "SUCCESS" => attempt'[t][n] = "SUCCESS"
<1> DEFINE new(t) == [task |-> t, no |-> task[t].current + 1, by |-> p]
           next(t) == task[t].current + 1
<1>1. S \subseteq Tasks /\ \A t \in S : task[t].status = "PENDING"
  BY DEF Pending, Reservable
<1>2. \A t \in S : /\ next(t) \in 1 .. MaxAttempts[t] /\ next(t) \in Nos
                   /\ attempt[t][next(t)] = "NONE"
                   /\ (\A n \in Nos : attempt[t][n] \in {"NONE", "FAILED"})
                   /\ (\A f \in flight : f.task # t)
                   /\ \A n \in 1 .. MaxAttempts[t] : step[Parse(t, n)] # "parsing"
  BY <1>1, PendingIsIdle, NosAre
<1>3. \A t \in Tasks \ S : task'[t] = task[t] /\ attempt'[t] = attempt[t]
  BY DEF Reserve
<1>4. \A t \in S : task'[t] \in TaskRows /\ task'[t].status = "RUNNING" /\ task'[t].current = next(t)
  <2> SUFFICES ASSUME NEW t \in S
               PROVE  task'[t] \in TaskRows /\ task'[t].status = "RUNNING" /\ task'[t].current = next(t)
    OBVIOUS
  <2>1. task[t] \in TaskRows /\ next(t) \in Nos
    BY <1>1, <1>2 DEF TypeOK
  <2>2. task'[t] = [task[t] EXCEPT !.status = "RUNNING", !.current = task[t].current + 1]
    BY <1>1 DEF Reserve
  <2>3. QED
    BY <2>1, <2>2 DEF TaskRows
<1>5. \A t \in S, n \in Nos : attempt'[t][n] = IF n = next(t) THEN "PENDING" ELSE attempt[t][n]
  BY <1>1 DEF Reserve, TypeOK
<1>6. flight' = flight \cup {new(t) : t \in S}
  BY DEF Reserve
<1>7. task' \in [Tasks -> TaskRows] /\ \A t \in Tasks : task'[t].current <= MaxAttempts[t]
  <2>1. task' = [t \in Tasks |-> task'[t]]
    BY DEF Reserve
  <2>2. \A t \in S : task'[t] \in TaskRows /\ task'[t].current <= MaxAttempts[t]
    <3> SUFFICES ASSUME NEW t \in S PROVE task'[t].current <= MaxAttempts[t]
      BY <1>4
    <3>1. t \in Tasks /\ task'[t].current = next(t) /\ next(t) \in 1 .. MaxAttempts[t]
      BY <1>1, <1>2, <1>4
    <3>2. QED
      BY <3>1, NosAre
  <2>3. \A t \in Tasks \ S : task'[t] \in TaskRows /\ task'[t].current <= MaxAttempts[t]
    BY <1>3 DEF TypeOK
  <2>4. QED
    BY <2>1, <2>2, <2>3
<1>8. attempt' \in [Tasks -> [Nos -> AttemptStatuses]]
  <2>1. attempt' = [t \in Tasks |-> attempt'[t]]
    BY DEF Reserve
  <2>2. \A t \in S : attempt'[t] \in [Nos -> AttemptStatuses]
    <3> SUFFICES ASSUME NEW t \in S PROVE attempt'[t] \in [Nos -> AttemptStatuses]
      OBVIOUS
    <3>1. attempt'[t] = [attempt[t] EXCEPT ![task[t].current + 1] = "PENDING"]
      BY <1>1 DEF Reserve
    <3>2. attempt[t] \in [Nos -> AttemptStatuses] /\ "PENDING" \in AttemptStatuses
      BY <1>1 DEF TypeOK, AttemptStatuses, Unfinished
    <3>3. QED
      BY <3>1, <3>2
  <2>3. QED
    BY <1>3, <2>1, <2>2 DEF TypeOK
<1>9. flight' \subseteq Flights
  <2>1. \A t \in S : new(t) \in Flights
    BY <1>1, <1>2 DEF Flights
  <2>2. QED
    BY <1>6, <2>1 DEF TypeOK
<1>10. \A t \in Tasks : JobsCalm(t)
  BY AllCalm
<1>11. ASSUME NEW t \in Tasks \ S PROVE TaskInv(t)'
  <2>1. \A f \in flight' : f.task = t => f \in flight
    BY <1>6
  <2>2. QED
    BY <1>3, <1>10, <2>1, Untouched
<1>12. ASSUME NEW t \in S PROVE TaskInv(t)'
  <2>0. /\ t \in Tasks /\ task'[t].status = "RUNNING" /\ task'[t].current = next(t)
        /\ next(t) \in Nos /\ next(t) # 0
    BY <1>1, <1>2, <1>4, NosAre
  <2>1. PendingHasNext(t)'
    BY <2>0 DEF PendingHasNext
  <2>2. LatestLives(t)'
    <3> SUFFICES ASSUME NEW n \in Nos
                 PROVE  /\ attempt'[t][n] \in Unfinished \cup {"SUCCESS"} =>
                             n = task'[t].current /\ task'[t].status # "PENDING"
                        /\ attempt'[t][n] # "NONE" => n <= task'[t].current
      BY DEF LatestLives
    <3>1. attempt[t][n] # "NONE" => n <= task[t].current
      BY <1>1 DEF TaskInv, LatestLives
    <3>2. n \in Nat /\ task[t].current \in Nat
      BY <1>1, NosAre DEF TypeOK, TaskRows
    <3>3. CASE n = next(t)
      BY <2>0, <3>2, <3>3
    <3>4. CASE n # next(t)
      <4>1. attempt'[t][n] = attempt[t][n] /\ attempt[t][n] \in {"NONE", "FAILED"}
        BY <1>2, <1>5, <3>4
      <4>2. QED
        BY <2>0, <3>1, <3>2, <4>1 DEF Unfinished
    <3>5. QED
      BY <3>3, <3>4
  <2>3. JobsFollowWebhooks(t)'
    <3> SUFFICES ASSUME NEW n \in 1 .. MaxAttempts[t]
                 PROVE  /\ step'[Hook(t, n)] # "none" => attempt'[t][n] # "NONE"
                        /\ step'[Parse(t, n)] # "none" => step'[Hook(t, n)] # "none"
                        /\ step'[Derive(t, n)] # "none" => attempt'[t][n] = "SUCCESS"
      BY DEF JobsFollowWebhooks
    <3>1. n \in Nos
      BY <1>1, NosAre
    <3>2. /\ step[Hook(t, n)] # "none" => attempt[t][n] # "NONE"
          /\ step[Parse(t, n)] # "none" => step[Hook(t, n)] # "none"
          /\ step[Derive(t, n)] # "none" => attempt[t][n] = "SUCCESS"
      BY <1>1 DEF TaskInv, JobsFollowWebhooks
    <3>3. Calm(Hook(t, n)) /\ Calm(Parse(t, n)) /\ Calm(Derive(t, n))
      BY <1>1, <1>10 DEF JobsCalm
    <3>4. QED
      BY <1>2, <1>5, <3>1, <3>2, <3>3 DEF Calm
  <2>4. ParsesLatest(t)'
    BY <1>1, <1>2, <1>10 DEF ParsesLatest, JobsCalm, Calm
  <2>5. ASSUME NEW f \in flight', f.task = t PROVE f = new(t)
    <3>1. f \notin flight
      BY <1>2, <2>5
    <3>2. PICK u \in S : f = new(u)
      BY <1>6, <3>1
    <3>3. QED
      BY <2>5, <3>2
  <2>6. ASSUME NEW f \in flight', f.task = t PROVE FlightIsLatest(f)'
    <3>0. f.no = next(t)
      BY <2>5, <2>6
    <3>1. step[Hook(t, next(t))] = "none"
      BY <1>1, <1>2 DEF TaskInv, JobsFollowWebhooks
    <3>2. step'[Hook(t, next(t))] = "none"
      BY <1>1, <1>2, <1>10, <3>1 DEF JobsCalm, Calm
    <3>3. attempt'[t][next(t)] = "PENDING"
      BY <1>5, <2>0
    <3>4. QED
      BY <2>0, <2>6, <3>0, <3>2, <3>3 DEF FlightIsLatest
  <2>7. FlightsAreLatest(t)'
    <3>1. ASSUME NEW f \in flight', NEW g \in flight', f.task = t, g.task = t PROVE f = g
      BY <2>5, <3>1
    <3>2. QED
      BY <2>6, <3>1 DEF FlightsAreLatest
  <2>8. QED
    BY <2>1, <2>2, <2>3, <2>4, <2>7 DEF TaskInv
<1>13. \A t \in Tasks : task'[t].status = "SUCCESS" => task[t].status = "SUCCESS"
  <2>1. \A t \in S : task'[t].status # "SUCCESS"
    BY <1>4
  <2>2. QED
    BY <1>3, <2>1
<1>14. \A t \in Tasks, n \in Nos : attempt[t][n] = "SUCCESS" => attempt'[t][n] = "SUCCESS"
  BY <1>2, <1>3, <1>5
<1>15. QED
  BY <1>7, <1>8, <1>9, <1>11, <1>12, <1>13, <1>14

LEMMA BeginSubmitKeeps ==
  ASSUME IInv, NEW p \in Submitters, BeginSubmit(p)
  PROVE  IInv'
<1>1. p \in Procs /\ step[p] # "none"
  BY ProcsAre DEF BeginSubmit, AtSubmit
<1>2. step' \in [Procs -> Steps] /\ \A r \in Procs : Calm(r)
  BY <1>1, GoingIsCalm DEF BeginSubmit, IInv, TypeOK, Steps, Resting
<1>3. PICK S \in SUBSET Pending : Reserve(p, S)
  BY DEF BeginSubmit
<1>4. /\ task' \in [Tasks -> TaskRows]
      /\ \A t \in Tasks : task'[t].current <= MaxAttempts[t]
      /\ attempt' \in [Tasks -> [Nos -> AttemptStatuses]]
      /\ flight' \subseteq Flights
      /\ \A t \in Tasks : TaskInv(t)'
      /\ \A t \in Tasks : task'[t].status = "SUCCESS" => task[t].status = "SUCCESS"
      /\ \A t \in Tasks, n \in Nos : attempt[t][n] = "SUCCESS" => attempt'[t][n] = "SUCCESS"
  BY <1>1, <1>2, <1>3, Reserving DEF IInv
<1>5. TypeOK'
  BY <1>2, <1>4 DEF BeginSubmit, IInv, TypeOK, data
<1>6. ResultsWereParsed'
  BY <1>4, ResultsStay DEF BeginSubmit, IInv, data
<1>7. PublishFollowsEnd' /\ KeepsLock'
  BY <1>2, EndStays, ProcsAre DEF BeginSubmit, IInv, Calm
<1>8. QED
  BY <1>4, <1>5, <1>6, <1>7 DEF IInv

LEMMA ParseResubmitsKeeps ==
  ASSUME IInv, NEW t \in Tasks, NEW n \in 1 .. MaxAttempts[t], ParseResubmits(t, n)
  PROVE  IInv'
<1>1. Parse(t, n) \in Procs /\ step[Parse(t, n)] # "none"
  BY JobsAre DEF ParseResubmits
<1>2. step' \in [Procs -> Steps] /\ \A r \in Procs : Calm(r)
  BY <1>1, GoingIsCalm DEF ParseResubmits, IInv, TypeOK, Steps, Resting
<1>3. CASE Reservable(t) /\ Reserve(Parse(t, n), {t})
  <2>1. {t} \in SUBSET Pending
    BY <1>3 DEF Pending
  <2>2. /\ task' \in [Tasks -> TaskRows]
        /\ \A u \in Tasks : task'[u].current <= MaxAttempts[u]
        /\ attempt' \in [Tasks -> [Nos -> AttemptStatuses]]
        /\ flight' \subseteq Flights
        /\ \A u \in Tasks : TaskInv(u)'
        /\ \A u \in Tasks : task'[u].status = "SUCCESS" => task[u].status = "SUCCESS"
        /\ \A u \in Tasks, m \in Nos : attempt[u][m] = "SUCCESS" => attempt'[u][m] = "SUCCESS"
    BY <1>1, <1>2, <1>3, <2>1, Reserving DEF IInv
  <2>3. TypeOK'
    BY <1>2, <2>2 DEF ParseResubmits, IInv, TypeOK, data
  <2>4. ResultsWereParsed'
    BY <2>2, ResultsStay DEF ParseResubmits, IInv, data
  <2>5. PublishFollowsEnd' /\ KeepsLock'
    BY <1>2, EndStays, ProcsAre DEF ParseResubmits, IInv, Calm
  <2>6. QED
    BY <2>2, <2>3, <2>4, <2>5 DEF IInv
<1>4. CASE UNCHANGED <<task, attempt, flight>>
  BY <1>2, <1>4, MovingKeeps DEF ParseResubmits, IInv, TypeOK, rows
<1>5. QED
  BY <1>3, <1>4 DEF ParseResubmits

\* releaseReservedAttempt takes the attempt back, and with it the task's number.
LEMMA LimitReachedKeeps ==
  ASSUME IInv, NEW f \in flight, LimitReached(f)
  PROVE  IInv'
<1> DEFINE t == f.task
           n == f.no
<1>1. t \in Tasks /\ n \in Nos /\ f.by \in Procs /\ FlightIsLatest(f)
  BY DEF IInv, TypeOK, Flights, TaskInv, FlightsAreLatest
<1>2. n \in 1 .. MaxAttempts[t] /\ n - 1 \in Nos \cup {0} /\ n \in Nat
  <2>1. n \in Nat \ {0} /\ n <= MaxAttempts[t] /\ MaxAttempts[t] \in Nat
    BY <1>1, NosAre DEF FlightIsLatest, IInv, TypeOK
  <2>2. n - 1 = 0 \/ n - 1 \in 1 .. MaxAttempts[t]
    BY <2>1
  <2>3. n \in 1 .. MaxAttempts[t]
    BY <2>1
  <2>4. n - 1 \in Nos \cup {0}
    BY <1>1, <2>2, NosAre
  <2>5. QED
    BY <2>1, <2>3, <2>4
<1>3. /\ task' \in [Tasks -> TaskRows]
      /\ \A u \in Tasks : u # t => task'[u] = task[u]
      /\ task'[t].status = "PENDING" /\ task'[t].current = n - 1
  BY SMTT(40), <1>1, <1>2 DEF LimitReached, IInv, TypeOK, TaskRows
<1>4. /\ attempt' \in [Tasks -> [Nos -> AttemptStatuses]]
      /\ \A u \in Tasks, m \in Nos :
           attempt'[u][m] = IF u = t /\ m = n THEN "NONE" ELSE attempt[u][m]
  BY <1>1, SettingAttempt DEF LimitReached, IInv, TypeOK, AttemptStatuses
<1>5. step' \in [Procs -> Steps] /\ (\A r \in Procs : Calm(r)) /\ flight' = flight \ {f}
  BY <1>1, ReturningIsCalm DEF LimitReached, IInv, TypeOK, Steps, Resting
<1>6. \A u \in Tasks : JobsCalm(u)
  BY <1>5, AllCalm
<1>7. TypeOK'
  <2>1. \A u \in Tasks : task'[u].current <= MaxAttempts[u]
    BY <1>1, <1>2, <1>3, NosAre DEF IInv, TypeOK
  <2>2. QED
    BY <1>3, <1>4, <1>5, <2>1, Faulting DEF LimitReached, IInv, TypeOK, data
<1>8. ASSUME NEW u \in Tasks, u # t PROVE TaskInv(u)'
  <2>1. task'[u] = task[u] /\ attempt'[u] = attempt[u]
    BY <1>3, <1>8 DEF LimitReached, SetAttempt, IInv, TypeOK
  <2>2. QED
    BY <1>5, <1>6, <2>1, Untouched DEF IInv
<1>9. TaskInv(t)'
  <2>1. PendingHasNext(t)'
    BY <1>1, <1>2, <1>3, NosAre DEF PendingHasNext
  <2>2. LatestLives(t)'
    <3> SUFFICES ASSUME NEW m \in Nos
                 PROVE  /\ attempt'[t][m] \notin Unfinished \cup {"SUCCESS"}
                        /\ attempt'[t][m] # "NONE" => m <= task'[t].current
      BY DEF LatestLives
    <3>1. /\ attempt[t][m] \in Unfinished \cup {"SUCCESS"} => m = n
          /\ attempt[t][m] # "NONE" => m <= n
          /\ m \in Nat
      BY <1>1, NosAre DEF IInv, TaskInv, LatestLives, FlightIsLatest
    <3>2. CASE m = n
      BY <1>1, <1>4, <3>2 DEF Unfinished
    <3>3. CASE m # n
      <4>1. attempt'[t][m] = attempt[t][m] /\ attempt[t][m] \notin Unfinished \cup {"SUCCESS"}
        BY <1>1, <1>4, <3>1, <3>3
      <4>2. attempt[t][m] # "NONE" => m <= n - 1
        BY <1>2, <3>1, <3>3
      <4>3. QED
        BY <1>3, <4>1, <4>2
    <3>4. QED
      BY <3>2, <3>3
  <2>3. \A m \in 1 .. MaxAttempts[t] : m = n => step[Parse(t, m)] = "none" /\ step[Derive(t, m)] = "none"
    BY <1>1, <1>2 DEF IInv, TaskInv, JobsFollowWebhooks, FlightIsLatest
  <2>4. JobsFollowWebhooks(t)'
    <3> SUFFICES ASSUME NEW m \in 1 .. MaxAttempts[t]
                 PROVE  /\ step'[Hook(t, m)] # "none" => attempt'[t][m] # "NONE"
                        /\ step'[Parse(t, m)] # "none" => step'[Hook(t, m)] # "none"
                        /\ step'[Derive(t, m)] # "none" => attempt'[t][m] = "SUCCESS"
      BY DEF JobsFollowWebhooks
    <3>1. m \in Nos
      BY <1>1, NosAre
    <3>2. /\ step[Hook(t, m)] # "none" => attempt[t][m] # "NONE"
          /\ step[Parse(t, m)] # "none" => step[Hook(t, m)] # "none"
          /\ step[Derive(t, m)] # "none" => attempt[t][m] = "SUCCESS"
          /\ m = n => step[Hook(t, m)] = "none"
      BY <1>1 DEF IInv, TaskInv, JobsFollowWebhooks, FlightIsLatest
    <3>3. Calm(Hook(t, m)) /\ Calm(Parse(t, m)) /\ Calm(Derive(t, m))
      BY <1>1, <1>6 DEF JobsCalm
    <3>4. QED
      BY <1>1, <1>4, <2>3, <3>1, <3>2, <3>3 DEF Calm
  <2>5. ParsesLatest(t)'
    <3>1. \A m \in 1 .. MaxAttempts[t] : step'[Parse(t, m)] # "parsing"
      BY <1>1, <1>6, <2>3 DEF IInv, TaskInv, ParsesLatest, FlightIsLatest, JobsCalm, Calm
    <3>2. QED
      BY <3>1 DEF ParsesLatest
  <2>6. \A g \in flight' : g.task # t
    BY <1>1, <1>5 DEF IInv, TaskInv, FlightsAreLatest
  <2>7. FlightsAreLatest(t)'
    BY <2>6 DEF FlightsAreLatest
  <2>8. QED
    BY <2>1, <2>2, <2>4, <2>5, <2>7 DEF TaskInv
<1>10. \A u \in Tasks : TaskInv(u)'
  BY <1>8, <1>9
<1>11. ResultsWereParsed'
  BY <1>1, <1>3, <1>4, ResultsStay DEF LimitReached, IInv, data, FlightIsLatest
<1>12. PublishFollowsEnd' /\ KeepsLock'
  BY <1>5, EndStays, ProcsAre DEF LimitReached, IInv, Calm
<1>13. QED
  BY <1>7, <1>10, <1>11, <1>12 DEF IInv

\* markAttemptSubmitted finds the attempt it submitted, or one that the sweep or the
\* stop request has ended: nobody else can have heard of it.
LEMMA SubmittedKeeps ==
  ASSUME IInv, NEW f \in flight, Submitted(f)
  PROVE  IInv'
<1> DEFINE t == f.task
           n == f.no
<1>1. t \in Tasks /\ n \in Nos /\ f.by \in Procs /\ FlightIsLatest(f)
  BY DEF IInv, TypeOK, Flights, TaskInv, FlightsAreLatest
<1>2. n \in 1 .. MaxAttempts[t]
  BY <1>1, NosAre DEF FlightIsLatest, IInv, TypeOK
<1>3. /\ task' \in [Tasks -> TaskRows]
      /\ \A u \in Tasks : u # t => task'[u] = task[u]
      /\ task'[t].status = "RUNNING" /\ task'[t].current = n
  BY <1>1, SettingTask DEF Submitted, IInv, TypeOK, FlightIsLatest
<1>4. /\ attempt' \in [Tasks -> [Nos -> AttemptStatuses]]
      /\ \A u \in Tasks, m \in Nos :
           attempt'[u][m] = IF u = t /\ m = n THEN "RUNNING" ELSE attempt[u][m]
  BY <1>1, SettingAttempt DEF Submitted, IInv, TypeOK, AttemptStatuses, Unfinished
<1>5. /\ step' \in [Procs -> Steps]
      /\ step'[Hook(t, n)] # "none" /\ step'[Hook(t, n)] # "parsing"
      /\ \A r \in Procs \ {Hook(t, n)} : Calm(r)
      /\ faults' \in 0 .. MaxFaults
  <2>1. PICK early \in BOOLEAN :
          /\ step' = [step EXCEPT ![Hook(t, n)] = IF early THEN "done" ELSE "waiting",
                                  ![f.by] = IF @ = "submitted" THEN "done" ELSE @]
          /\ IF early THEN Fault ELSE UNCHANGED faults
    BY DEF Submitted
  <2>2. Hook(t, n) \in Procs
    BY <1>1, <1>2, JobsAre
  <2>3. QED
    BY <1>1, <2>1, <2>2, Faulting DEF IInv, TypeOK, Steps, Resting, Calm
<1>6. flight' = flight \ {f} /\ \A g \in flight' : g.task # t
  BY <1>1 DEF Submitted, IInv, TaskInv, FlightsAreLatest
<1>7. job' \in JobRows /\ job'.status = "RUNNING" /\ job'.types = job.types
  BY DEF Submitted, IInv, TypeOK, JobRows
<1>8. /\ seen \subseteq seen' /\ seen' \subseteq {"unnoticed", "revived"}
      /\ job.status = "RUNNING" \/ "revived" \in seen'
  BY DEF Submitted, IInv, TypeOK
<1>9. TypeOK'
  <2>1. \A u \in Tasks : task'[u].current <= MaxAttempts[u]
    BY <1>2, <1>3, NosAre DEF IInv, TypeOK
  <2>2. QED
    BY <1>3, <1>4, <1>5, <1>6, <1>7, <1>8, <2>1 DEF Submitted, IInv, TypeOK, data
<1>10. ASSUME NEW u \in Tasks, u # t PROVE TaskInv(u)'
  <2>1. task'[u] = task[u] /\ attempt'[u] = attempt[u]
    BY <1>3, <1>10 DEF Submitted, SetAttempt, IInv, TypeOK
  <2>2. \A m \in 1 .. MaxAttempts[u] : Hook(t, n) \notin {Hook(u, m), Parse(u, m), Derive(u, m)}
    BY <1>10, ProcsDiffer
  <2>3. JobsCalm(u)
    BY <1>5, <2>2, CalmJobs
  <2>4. QED
    BY <1>6, <2>1, <2>3, Untouched DEF IInv
<1>11. TaskInv(t)'
  <2>1. PendingHasNext(t)'
    BY <1>3 DEF PendingHasNext
  <2>2. LatestLives(t)'
    BY <1>1, <1>3, <1>4, NosAre DEF IInv, TaskInv, LatestLives, FlightIsLatest
  <2>3. \A m \in 1 .. MaxAttempts[t] :
          /\ Calm(Parse(t, m)) /\ Calm(Derive(t, m))
          /\ m # n => Calm(Hook(t, m))
    <3> SUFFICES ASSUME NEW m \in 1 .. MaxAttempts[t]
                 PROVE  Calm(Parse(t, m)) /\ Calm(Derive(t, m)) /\ (m # n => Calm(Hook(t, m)))
      OBVIOUS
    <3>1. Hook(t, m) \in Procs /\ Parse(t, m) \in Procs /\ Derive(t, m) \in Procs
      BY <1>1, JobsAre
    <3>2. /\ Parse(t, m) # Hook(t, n) /\ Derive(t, m) # Hook(t, n)
          /\ m # n => Hook(t, m) # Hook(t, n)
      BY ProcsDiffer
    <3>3. QED
      BY <1>5, <3>1, <3>2
  <2>4. step[Parse(t, n)] = "none" /\ step[Derive(t, n)] = "none"
    BY <1>1, <1>2 DEF IInv, TaskInv, JobsFollowWebhooks, FlightIsLatest
  <2>5. JobsFollowWebhooks(t)'
    <3> SUFFICES ASSUME NEW m \in 1 .. MaxAttempts[t]
                 PROVE  /\ step'[Hook(t, m)] # "none" => attempt'[t][m] # "NONE"
                        /\ step'[Parse(t, m)] # "none" => step'[Hook(t, m)] # "none"
                        /\ step'[Derive(t, m)] # "none" => attempt'[t][m] = "SUCCESS"
      BY DEF JobsFollowWebhooks
    <3>1. m \in Nos
      BY <1>1, NosAre
    <3>2. /\ step[Hook(t, m)] # "none" => attempt[t][m] # "NONE"
          /\ step[Parse(t, m)] # "none" => step[Hook(t, m)] # "none"
          /\ step[Derive(t, m)] # "none" => attempt[t][m] = "SUCCESS"
      BY <1>1 DEF IInv, TaskInv, JobsFollowWebhooks
    <3>3. CASE m = n
      BY <1>1, <1>4, <1>5, <2>3, <2>4, <3>1, <3>3 DEF Calm
    <3>4. CASE m # n
      BY <1>1, <1>4, <2>3, <3>1, <3>2, <3>4 DEF Calm
    <3>5. QED
      BY <3>3, <3>4
  <2>6. ParsesLatest(t)'
    <3>1. \A m \in 1 .. MaxAttempts[t] : step'[Parse(t, m)] # "parsing"
      BY <1>1, <2>3, <2>4 DEF IInv, TaskInv, ParsesLatest, FlightIsLatest, Calm
    <3>2. QED
      BY <3>1 DEF ParsesLatest
  <2>7. FlightsAreLatest(t)'
    BY <1>6 DEF FlightsAreLatest
  <2>8. QED
    BY <2>1, <2>2, <2>5, <2>6, <2>7 DEF TaskInv
<1>12. \A u \in Tasks : TaskInv(u)'
  BY <1>10, <1>11
<1>13. ResultsWereParsed'
  <2>1. attempt[t][n] # "SUCCESS"
    BY <1>1 DEF FlightIsLatest
  <2>2. \A u \in Tasks : task'[u].status = "SUCCESS" => task[u].status = "SUCCESS"
    BY <1>3
  <2>3. \A u \in Tasks, m \in Nos : attempt[u][m] = "SUCCESS" => attempt'[u][m] = "SUCCESS"
    BY <1>4, <2>1
  <2>4. QED
    BY <1>7, <2>2, <2>3 DEF Submitted, IInv, TypeOK, data, ResultsWereParsed
<1>14. PublishFollowsEnd' /\ KeepsLock'
  <2>1. Calm(Publish)
    BY <1>5, ProcsAre, ProcsDiffer
  <2>2. QED
    BY <1>7, <1>8, <2>1 DEF Submitted, IInv, PublishFollowsEnd, KeepsLock, Calm
<1>15. QED
  BY <1>9, <1>12, <1>13, <1>14 DEF IInv

\* An attempt whose webhook has come is not being submitted, and no other is.
LEMMA HeardIsAlone ==
  ASSUME TypeOK, NEW t \in Tasks, TaskInv(t), NEW n \in 1 .. MaxAttempts[t],
         step[Hook(t, n)] # "none",
         attempt[t][n] \in Unfinished \cup {"SUCCESS"} \/ step[Parse(t, n)] = "parsing"
  PROVE  /\ n = task[t].current /\ task[t].status # "PENDING"
         /\ \A f \in flight : f.task # t
<1>1. n \in Nos
  BY NosAre
<1>2. n = task[t].current /\ task[t].status # "PENDING"
  BY <1>1 DEF TaskInv, LatestLives, ParsesLatest
<1>3. \A f \in flight : f.task # t
  BY <1>2 DEF TaskInv, FlightsAreLatest, FlightIsLatest
<1>4. QED
  BY <1>2, <1>3

\* Such an attempt moves on: nothing else of the task does, and the task becomes
\* free only when the attempt has failed and is not parsed.
Advances(t, n) ==
  /\ n = task[t].current /\ step[Hook(t, n)] # "none"
  /\ \A f \in flight : f.task # t
  /\ \A u \in Tasks : u # t => task'[u] = task[u] /\ attempt'[u] = attempt[u]
  /\ \A m \in Nos : m # n => attempt'[t][m] = attempt[t][m]
  /\ attempt'[t][n] # "NONE"
  /\ task'[t].current = n
  /\ task'[t].status = "PENDING" => /\ attempt'[t][n] = "FAILED" /\ n < MaxAttempts[t]
                                    /\ step'[Parse(t, n)] # "parsing"
  /\ \A r \in Procs : r \notin {Parse(t, n), Derive(t, n)} => Calm(r)
  /\ step'[Parse(t, n)] = "parsing" => attempt'[t][n] \in {"PARSING", "READY_TO_PARSE", "FAILED"}
  /\ step'[Derive(t, n)] # "none" => attempt'[t][n] = "SUCCESS"

LEMMA Advancing ==
  ASSUME TypeOK, \A u \in Tasks : TaskInv(u), UNCHANGED flight,
         NEW t \in Tasks, NEW n \in 1 .. MaxAttempts[t], Advances(t, n)
  PROVE  \A u \in Tasks : TaskInv(u)'
<1>1. ASSUME NEW u \in Tasks, u # t PROVE TaskInv(u)'
  <2>1. task'[u] = task[u] /\ attempt'[u] = attempt[u]
    BY <1>1 DEF Advances
  <2>2. ASSUME NEW m \in 1 .. MaxAttempts[u]
        PROVE  Calm(Hook(u, m)) /\ Calm(Parse(u, m)) /\ Calm(Derive(u, m))
    <3>1. Hook(u, m) \in Procs /\ Parse(u, m) \in Procs /\ Derive(u, m) \in Procs
      BY JobsAre
    <3>2. \A r \in {Hook(u, m), Parse(u, m), Derive(u, m)} : r # Parse(t, n) /\ r # Derive(t, n)
      BY <1>1, ProcsDiffer
    <3>3. QED
      BY <3>1, <3>2 DEF Advances
  <2>3. JobsCalm(u)
    BY <2>2 DEF JobsCalm
  <2>4. QED
    BY <2>1, <2>3, Untouched
<1>2. ASSUME NEW m \in 1 .. MaxAttempts[t]
      PROVE  Calm(Hook(t, m)) /\ (m # n => Calm(Parse(t, m)) /\ Calm(Derive(t, m)))
  <2>1. Hook(t, m) \in Procs /\ Parse(t, m) \in Procs /\ Derive(t, m) \in Procs
    BY JobsAre
  <2>2. Hook(t, m) # Parse(t, n) /\ Hook(t, m) # Derive(t, n)
    BY ProcsDiffer
  <2>3. m # n => /\ Parse(t, m) # Parse(t, n) /\ Parse(t, m) # Derive(t, n)
                 /\ Derive(t, m) # Parse(t, n) /\ Derive(t, m) # Derive(t, n)
    BY ProcsDiffer
  <2>4. QED
    BY <2>1, <2>2, <2>3 DEF Advances
<1>3. PendingHasNext(t)'
  BY DEF Advances, PendingHasNext
<1>4. LatestLives(t)'
  <2> SUFFICES ASSUME NEW m \in Nos
               PROVE  /\ attempt'[t][m] \in Unfinished \cup {"SUCCESS"} =>
                           m = task'[t].current /\ task'[t].status # "PENDING"
                      /\ attempt'[t][m] # "NONE" => m <= task'[t].current
    BY DEF LatestLives
  <2>1. n \in Nat
    BY JobsAre
  <2>2. CASE m = n
    BY <2>1, <2>2 DEF Advances, Unfinished
  <2>3. CASE m # n
    BY <2>3 DEF Advances, TaskInv, LatestLives
  <2>4. QED
    BY <2>2, <2>3
<1>5. JobsFollowWebhooks(t)'
  <2> SUFFICES ASSUME NEW m \in 1 .. MaxAttempts[t]
               PROVE  /\ step'[Hook(t, m)] # "none" => attempt'[t][m] # "NONE"
                      /\ step'[Parse(t, m)] # "none" => step'[Hook(t, m)] # "none"
                      /\ step'[Derive(t, m)] # "none" => attempt'[t][m] = "SUCCESS"
    BY DEF JobsFollowWebhooks
  <2>1. m \in Nos
    BY JobsAre
  <2>2. CASE m = n
    BY <1>2, <2>1, <2>2 DEF Advances, Calm
  <2>3. CASE m # n
    BY <1>2, <2>1, <2>3 DEF Advances, TaskInv, JobsFollowWebhooks, Calm
  <2>4. QED
    BY <2>2, <2>3
<1>6. ParsesLatest(t)'
  <2> SUFFICES ASSUME NEW m \in 1 .. MaxAttempts[t], step'[Parse(t, m)] = "parsing"
               PROVE  /\ m = task'[t].current
                      /\ task'[t].status # "PENDING"
                      /\ attempt'[t][m] \in {"PARSING", "READY_TO_PARSE", "FAILED"}
    BY DEF ParsesLatest
  <2>1. m = n
    BY <1>2 DEF Advances, TaskInv, ParsesLatest, Calm
  <2>2. QED
    BY <2>1 DEF Advances
<1>7. FlightsAreLatest(t)'
  BY DEF Advances, FlightsAreLatest
<1>8. TaskInv(t)'
  BY <1>3, <1>4, <1>5, <1>6, <1>7 DEF TaskInv
<1>9. QED
  BY <1>1, <1>8

LEMMA HookCompletedKeeps ==
  ASSUME IInv, NEW t \in Tasks, NEW n \in 1 .. MaxAttempts[t], HookCompleted(t, n)
  PROVE  IInv'
<1>1. /\ n \in Nos /\ Hook(t, n) \in Procs /\ Parse(t, n) \in Procs /\ Derive(t, n) \in Procs
      /\ Hook(t, n) # Parse(t, n) /\ step[Hook(t, n)] = "waiting"
  BY JobsAre, ProcsDiffer DEF HookCompleted
<1>2. attempt[t][n] \in Unfinished /\ step[Derive(t, n)] = "none"
  BY <1>1 DEF HookCompleted, HookIgnores, IInv, TypeOK, AttemptStatuses, TaskInv, JobsFollowWebhooks
<1>3. n = task[t].current /\ \A f \in flight : f.task # t
  BY <1>1, <1>2, HeardIsAlone DEF IInv
<1>4. /\ task' \in [Tasks -> TaskRows]
      /\ \A u \in Tasks : u # t => task'[u] = task[u]
      /\ task'[t].status = "RUNNING" /\ task'[t].current = task[t].current
  BY ZenonT(60) DEF HookCompleted, IInv, TypeOK, TaskRows
<1>5. /\ attempt' \in [Tasks -> [Nos -> AttemptStatuses]]
      /\ \A u \in Tasks, m \in Nos :
           attempt'[u][m] = IF u = t /\ m = n THEN "READY_TO_PARSE" ELSE attempt[u][m]
      /\ \A u \in Tasks : u # t => attempt'[u] = attempt[u]
  BY <1>1, SettingAttempt DEF HookCompleted, IInv, TypeOK, AttemptStatuses, Unfinished
<1>6. /\ step' \in [Procs -> Steps] /\ faults' \in 0 .. MaxFaults
      /\ \A r \in Procs \ {Parse(t, n)} : Calm(r)
  <2>1. CASE EnqueueAnd(Hook(t, n), "submitting", Parse(t, n)) /\ UNCHANGED faults
    <3>1. "submitting" \in Steps /\ step \in [Procs -> Steps]
      BY DEF IInv, TypeOK, Steps
    <3>2. /\ step' \in [Procs -> Steps]
          /\ \A r \in Procs : step'[r] = IF r = Hook(t, n) THEN "submitting"
                                          ELSE IF r = Parse(t, n) /\ step[Parse(t, n)] = "none"
                                          THEN "waiting" ELSE step[r]
      BY <1>1, <2>1, <3>1, Enqueueing
    <3>3. QED
      BY <1>1, <2>1, <3>2, Faulting DEF IInv, Calm
  <2>2. CASE Fault /\ UNCHANGED step
    BY <2>2, Faulting DEF IInv, TypeOK, Calm
  <2>3. QED
    BY <2>1, <2>2 DEF HookCompleted
<1>7. TypeOK'
  BY <1>4, <1>5, <1>6 DEF HookCompleted, IInv, TypeOK, data, submits
<1>8. step'[Derive(t, n)] = "none"
  BY <1>1, <1>2, <1>6, ProcsDiffer DEF Calm
<1>9. \A u \in Tasks : TaskInv(u)'
  <2>1. Advances(t, n)
    BY <1>1, <1>3, <1>4, <1>5, <1>6, <1>8 DEF Advances
  <2>2. QED
    BY <2>1, Advancing DEF HookCompleted, IInv, submits
<1>10. ResultsWereParsed'
  BY <1>2, <1>4, <1>5, ResultsStay DEF HookCompleted, IInv, data, Unfinished
<1>11. PublishFollowsEnd' /\ KeepsLock'
  <2>1. Calm(Publish)
    BY <1>6, ProcsAre, ProcsDiffer
  <2>2. QED
    BY <2>1, EndStays DEF HookCompleted, IInv, Calm
<1>12. QED
  BY <1>7, <1>9, <1>10, <1>11 DEF IInv

LEMMA ParseStartsKeeps ==
  ASSUME IInv, NEW t \in Tasks, NEW n \in 1 .. MaxAttempts[t], ParseStarts(t, n)
  PROVE  IInv'
<1>1. /\ n \in Nos /\ Parse(t, n) \in Procs /\ Derive(t, n) \in Procs
      /\ Parse(t, n) # Derive(t, n) /\ step[Parse(t, n)] = "waiting" /\ step[Hook(t, n)] # "none"
  BY JobsAre, ProcsDiffer DEF ParseStarts, IInv, TaskInv, JobsFollowWebhooks
<1>2. UNCHANGED <<job, task, result, published, flight, slot, kept, seen, faults>>
  BY DEF ParseStarts, data, submits
<1>3. CASE attempt[t][n] = "READY_TO_PARSE" /\ SetAttempt(t, n, "PARSING") /\ Goto(Parse(t, n), "parsing")
  <2>1. /\ attempt' \in [Tasks -> [Nos -> AttemptStatuses]]
        /\ \A u \in Tasks, m \in Nos :
             attempt'[u][m] = IF u = t /\ m = n THEN "PARSING" ELSE attempt[u][m]
        /\ \A u \in Tasks : u # t => attempt'[u] = attempt[u]
    BY <1>1, <1>3, SettingAttempt DEF IInv, TypeOK, AttemptStatuses, Unfinished
  <2>2. step' \in [Procs -> Steps] /\ \A r \in Procs \ {Parse(t, n)} : Calm(r)
    BY <1>1, <1>3, Going DEF IInv, TypeOK, Steps, Resting, Calm
  <2>3. n = task[t].current /\ task[t].status # "PENDING" /\ \A f \in flight : f.task # t
    BY <1>1, <1>3, HeardIsAlone DEF IInv, Unfinished
  <2>4. step'[Derive(t, n)] = "none"
    BY <1>1, <1>3, <2>2 DEF IInv, TaskInv, JobsFollowWebhooks, Calm
  <2>5. TypeOK'
    BY <1>2, <2>1, <2>2 DEF IInv, TypeOK
  <2>6. \A u \in Tasks : TaskInv(u)'
    <3>1. Advances(t, n)
      BY <1>1, <1>2, <2>1, <2>2, <2>3, <2>4 DEF Advances
    <3>2. QED
      BY <1>2, <3>1, Advancing DEF IInv
  <2>7. ResultsWereParsed'
    BY <1>2, <1>3, <2>1, ResultsStay DEF IInv
  <2>8. PublishFollowsEnd' /\ KeepsLock'
    <3>1. Calm(Publish)
      BY <2>2, ProcsAre, ProcsDiffer
    <3>2. QED
      BY <1>2, <3>1, EndStays DEF IInv, Calm
  <2>9. QED
    BY <2>5, <2>6, <2>7, <2>8 DEF IInv
<1>4. CASE attempt[t][n] = "SUCCESS" /\ EnqueueAnd(Parse(t, n), "done", Derive(t, n)) /\ UNCHANGED attempt
  <2>1. /\ attempt' \in [Tasks -> [Nos -> AttemptStatuses]]
        /\ \A u \in Tasks, m \in Nos :
             attempt'[u][m] = IF u = t /\ m = n THEN "SUCCESS" ELSE attempt[u][m]
        /\ \A u \in Tasks : u # t => attempt'[u] = attempt[u]
    BY <1>4 DEF IInv, TypeOK
  <2>2. /\ step' \in [Procs -> Steps] /\ step'[Parse(t, n)] # "parsing"
        /\ \A r \in Procs \ {Derive(t, n)} : Calm(r)
    BY <1>1, <1>4, Enqueueing DEF IInv, TypeOK, Steps, Resting, Calm
  <2>3. n = task[t].current /\ task[t].status # "PENDING" /\ \A f \in flight : f.task # t
    BY <1>1, <1>4, HeardIsAlone DEF IInv
  <2>4. TypeOK'
    BY <1>2, <2>1, <2>2 DEF IInv, TypeOK
  <2>5. \A u \in Tasks : TaskInv(u)'
    <3>1. Advances(t, n)
      BY <1>1, <1>2, <2>1, <2>2, <2>3 DEF Advances
    <3>2. QED
      BY <1>2, <3>1, Advancing DEF IInv
  <2>6. ResultsWereParsed'
    BY <1>2, <1>4, ResultsStay DEF IInv
  <2>7. PublishFollowsEnd' /\ KeepsLock'
    <3>1. Calm(Publish)
      BY <2>2, ProcsAre, ProcsDiffer
    <3>2. QED
      BY <1>2, <3>1, EndStays DEF IInv, Calm
  <2>8. QED
    BY <2>4, <2>5, <2>6, <2>7 DEF IInv
<1>5. CASE Goto(Parse(t, n), "done") /\ UNCHANGED attempt
  <2>1. step' \in [Procs -> Steps] /\ \A r \in Procs : Calm(r)
    BY <1>1, <1>5, GoingIsCalm DEF IInv, TypeOK, Steps, Resting
  <2>2. QED
    BY <1>2, <1>5, <2>1, MovingKeeps DEF IInv, TypeOK, rows, data
<1>6. QED
  BY <1>3, <1>4, <1>5 DEF ParseStarts

LEMMA ParseSucceedsKeeps ==
  ASSUME IInv, NEW t \in Tasks, NEW n \in 1 .. MaxAttempts[t], ParseSucceeds(t, n)
  PROVE  IInv'
<1>1. /\ n \in Nos /\ Parse(t, n) \in Procs /\ Derive(t, n) \in Procs
      /\ Parse(t, n) # Derive(t, n) /\ step[Parse(t, n)] = "parsing" /\ step[Hook(t, n)] # "none"
  BY JobsAre, ProcsDiffer DEF ParseSucceeds, IInv, TaskInv, JobsFollowWebhooks
<1>2. n = task[t].current /\ task[t].status # "PENDING" /\ \A f \in flight : f.task # t
  BY <1>1, HeardIsAlone DEF IInv
<1>3. UNCHANGED <<job, task, result, published, flight, slot, kept, seen>>
  BY DEF ParseSucceeds, data, submits
<1>4. /\ attempt' \in [Tasks -> [Nos -> AttemptStatuses]]
      /\ \A u \in Tasks, m \in Nos :
           attempt'[u][m] = IF u = t /\ m = n THEN "SUCCESS" ELSE attempt[u][m]
      /\ \A u \in Tasks : u # t => attempt'[u] = attempt[u]
  BY <1>1, SettingAttempt DEF ParseSucceeds, IInv, TypeOK, AttemptStatuses
<1>5. /\ step' \in [Procs -> Steps] /\ step'[Parse(t, n)] # "parsing" /\ faults' \in 0 .. MaxFaults
      /\ \A r \in Procs \ {Derive(t, n)} : Calm(r)
  <2>1. CASE EnqueueAnd(Parse(t, n), "done", Derive(t, n)) /\ UNCHANGED faults
    BY SMTT(40), <1>1, <2>1, Enqueueing DEF IInv, TypeOK, Steps, Resting, Calm
  <2>2. CASE Fault /\ Goto(Parse(t, n), "waiting")
    BY <1>1, <2>2, Going, Faulting DEF IInv, TypeOK, Steps, Resting, Calm
  <2>3. QED
    BY <2>1, <2>2 DEF ParseSucceeds
<1>6. TypeOK'
  BY <1>3, <1>4, <1>5 DEF IInv, TypeOK
<1>7. \A u \in Tasks : TaskInv(u)'
  <2>1. Advances(t, n)
    BY <1>1, <1>2, <1>3, <1>4, <1>5 DEF Advances
  <2>2. QED
    BY <1>3, <2>1, Advancing DEF IInv
<1>8. ResultsWereParsed'
  BY <1>3, <1>4, ResultsStay DEF IInv
<1>9. PublishFollowsEnd' /\ KeepsLock'
  <2>1. Calm(Publish)
    BY <1>5, ProcsAre, ProcsDiffer
  <2>2. QED
    BY <1>3, <2>1, EndStays DEF IInv, Calm
<1>10. QED
  BY <1>6, <1>7, <1>8, <1>9 DEF IInv

\* resetScanTaskToPendingForRetry frees the task when its latest attempt is over.
LEMMA ParseFailsKeeps ==
  ASSUME IInv, NEW t \in Tasks, NEW n \in 1 .. MaxAttempts[t], ParseFails(t, n)
  PROVE  IInv'
<1>1. /\ n \in Nos /\ Parse(t, n) \in Procs /\ step[Parse(t, n)] = "parsing"
      /\ step[Hook(t, n)] # "none"
  BY JobsAre DEF ParseFails, IInv, TaskInv, JobsFollowWebhooks
<1>2. n = task[t].current /\ task[t].status # "PENDING" /\ \A f \in flight : f.task # t
  BY <1>1, HeardIsAlone DEF IInv
<1>3. attempt[t][n] # "SUCCESS" /\ step[Derive(t, n)] = "none"
  BY <1>1 DEF IInv, TaskInv, ParsesLatest, JobsFollowWebhooks
<1>4. UNCHANGED <<job, result, published, flight, slot, kept, seen, faults>>
  BY DEF ParseFails, data, submits
<1>5. /\ task' \in [Tasks -> TaskRows]
      /\ \A u \in Tasks : u # t => task'[u] = task[u]
      /\ task'[t].current = n
      /\ task'[t].status = "PENDING" => n < MaxAttempts[t]
      /\ task'[t].status = "SUCCESS" => task[t].status = "SUCCESS"
  <2>1. CASE UNCHANGED task
    BY <1>2, <2>1 DEF IInv, TypeOK
  <2>2. CASE Retryable(t, n) /\ task' = [task EXCEPT ![t].status = "PENDING", ![t].successful = 0]
    <3>1. /\ task' \in [Tasks -> TaskRows]
          /\ \A u \in Tasks : u # t => task'[u] = task[u]
          /\ task'[t].status = "PENDING" /\ task'[t].current = task[t].current
      BY ZenonT(60), <2>2 DEF IInv, TypeOK, TaskRows
    <3>2. QED
      BY <1>2, <2>2, <3>1 DEF Retryable
  <2>3. QED
    BY <2>1, <2>2 DEF ParseFails
<1>6. /\ attempt' \in [Tasks -> [Nos -> AttemptStatuses]]
      /\ \A u \in Tasks, m \in Nos :
           attempt'[u][m] = IF u = t /\ m = n THEN "FAILED" ELSE attempt[u][m]
      /\ \A u \in Tasks : u # t => attempt'[u] = attempt[u]
  BY <1>1, SettingAttempt DEF ParseFails, IInv, TypeOK, AttemptStatuses
<1>7. /\ step' \in [Procs -> Steps] /\ step'[Parse(t, n)] # "parsing"
      /\ \A r \in Procs : Calm(r)
  <2>1. Goto(Parse(t, n), "retrying") \/ Goto(Parse(t, n), "failing")
    BY DEF ParseFails
  <2>2. QED
    BY <1>1, <2>1, Going DEF IInv, TypeOK, Steps, Resting, Calm
<1>8. TypeOK'
  <2>1. \A u \in Tasks : task'[u].current <= MaxAttempts[u]
    BY <1>2, <1>5 DEF IInv, TypeOK
  <2>2. QED
    BY <1>4, <1>5, <1>6, <1>7, <2>1 DEF IInv, TypeOK
<1>9. step'[Derive(t, n)] = "none"
  BY <1>1, <1>3, <1>7, JobsAre DEF Calm
<1>10. \A u \in Tasks : TaskInv(u)'
  <2>1. Advances(t, n)
    BY <1>1, <1>2, <1>4, <1>5, <1>6, <1>7, <1>9 DEF Advances
  <2>2. QED
    BY <1>4, <2>1, Advancing DEF IInv
<1>11. ResultsWereParsed'
  BY <1>3, <1>4, <1>5, <1>6, ResultsStay DEF IInv
<1>12. PublishFollowsEnd' /\ KeepsLock'
  BY <1>4, <1>7, EndStays, ProcsAre DEF IInv, Calm
<1>13. QED
  BY <1>8, <1>10, <1>11, <1>12 DEF IInv

-----------------------------------------------------------------------------
\* The invariant holds initially and is kept by every step.

LEMMA InitHolds == Init => IInv
<1> SUFFICES ASSUME Init PROVE IInv
  OBVIOUS
<1>1. task = [t \in Tasks |-> [status |-> "PENDING", current |-> 0, successful |-> 0]]
  BY DEF Init
<1>2. attempt = [t \in Tasks |-> [n \in Nos |-> "NONE"]]
  BY DEF Init
<1>3. job = [status |-> "RUNNING", publish |-> "PENDING", types |-> {}]
  BY DEF Init
<1>4. step \in [Procs -> Steps] /\ \A p \in Procs : p # Start => step[p] = "none"
  BY DEF Init, Steps, Resting
<1>5. /\ result = [t \in Tasks |-> 0] /\ published = [t \in Tasks |-> 0] /\ flight = {}
      /\ slot = Free /\ kept = TRUE /\ seen = {} /\ faults = 0
  BY DEF Init
<1>6. TypeOK
  <2>1. task \in [Tasks -> TaskRows] /\ \A t \in Tasks : task[t].current <= MaxAttempts[t]
    BY <1>1, NosAre DEF TaskRows
  <2>2. attempt \in [Tasks -> [Nos -> AttemptStatuses]]
    BY <1>2 DEF AttemptStatuses
  <2>3. job \in JobRows
    BY <1>3 DEF JobRows
  <2>4. faults \in 0 .. MaxFaults
    BY <1>5, PipelineAssumption DEF PipelineAssumption
  <2>5. QED
    BY <1>4, <1>5, <2>1, <2>2, <2>3, <2>4 DEF TypeOK
<1>7. ASSUME NEW t \in Tasks PROVE TaskInv(t)
  <2>1. PendingHasNext(t) /\ LatestLives(t) /\ FlightsAreLatest(t)
    BY <1>1, <1>2, <1>5, NosAre DEF PendingHasNext, LatestLives, FlightsAreLatest, Unfinished
  <2>2. \A n \in 1 .. MaxAttempts[t] :
          step[Hook(t, n)] = "none" /\ step[Parse(t, n)] = "none" /\ step[Derive(t, n)] = "none"
    BY <1>4, JobsAre, ProcsDiffer
  <2>3. QED
    BY <2>1, <2>2 DEF TaskInv, JobsFollowWebhooks, ParsesLatest
<1>8. ResultsWereParsed
  BY <1>1, <1>3, <1>5 DEF ResultsWereParsed
<1>9. PublishFollowsEnd /\ KeepsLock
  BY <1>4, <1>5, ProcsAre DEF PublishFollowsEnd, KeepsLock
<1>10. QED
  BY <1>6, <1>7, <1>8, <1>9 DEF IInv

LEMMA NextKeeps == IInv /\ [Next]_vars => IInv'
<1> SUFFICES ASSUME IInv, [Next]_vars PROVE IInv'
  OBVIOUS
<1>1. CASE UNCHANGED vars
  <2>1. /\ UNCHANGED <<rows, data, kept, seen>> /\ UNCHANGED step
        /\ flight' = flight /\ slot' = slot /\ faults' = faults
    BY <1>1 DEF vars, submits
  <2>2. step' \in [Procs -> Steps] /\ \A r \in Procs : Calm(r)
    BY <2>1 DEF IInv, TypeOK, Calm
  <2>3. QED
    BY <2>1, <2>2, MovingKeeps DEF IInv, TypeOK
<1>2. CASE Submission
  BY <1>2, LimitReachedKeeps, RefusedKeeps, SubmittedKeeps, BeginSubmitKeeps, SkipSubmitKeeps,
     EndSubmitKeeps, SubmitNothingKeeps, SlotExpiresKeeps DEF Submission
<1>3. ASSUME NEW x \in Tries, Attempt(x[1], x[2]) PROVE IInv'
  <2> DEFINE t == x[1]
             n == x[2]
  <2>1. t \in Tasks /\ n \in 1 .. MaxAttempts[t]
    BY NosAre
  <2>2. CASE HookSkips(t, n) \/ HookCompleted(t, n) \/ HookFailed(t, n)
    BY <2>1, <2>2, HookSkipsKeeps, HookCompletedKeeps, HookFailedKeeps
  <2>3. CASE ParseStarts(t, n) \/ ParseSucceeds(t, n) \/ ParseFails(t, n)
    BY <2>1, <2>3, ParseStartsKeeps, ParseSucceedsKeeps, ParseFailsKeeps
  <2>4. CASE ParseResubmits(t, n) \/ ParseGivesUp(t, n) \/ ParseEnds(t, n)
    BY <2>1, <2>4, ParseResubmitsKeeps, ParseGivesUpKeeps, ParseEndsKeeps
  <2>5. CASE DeriveSucceeds(t, n) \/ DeriveThrows(t, n) \/ DeriveEnds(t, n)
    BY <2>1, <2>5, DeriveSucceedsKeeps, DeriveThrowsKeeps, DeriveEndsKeeps
  <2>6. QED
    BY <1>3, <2>2, <2>3, <2>4, <2>5 DEF Attempt
<1>4. CASE PublishRuns \/ PublishUnlocks \/ PublishThrows
  BY <1>4, PublishKeeps
<1>5. CASE \E p \in Procs : Dies(p)
  BY <1>5, DiesKeeps
<1>6. CASE Sweep \/ StopScan
  BY <1>6, SweepKeeps, StopScanKeeps
<1>7. QED
  BY <1>1, <1>2, <1>3, <1>4, <1>5, <1>6 DEF Next

\* IInv is an invariant: whatever the webhooks, the retries, the sweep and the stop
\* request meet, it is what their handlers expect.
THEOREM Invariant == Spec => []IInv
BY InitHolds, NextKeeps, PTL DEF Spec

-----------------------------------------------------------------------------
\* What the invariant says of a scan

\* Every row stays within its type: no attempt is made beyond maxParseAttempts.
THEOREM TypeCorrect == Spec => []TypeOK
<1>1. IInv => TypeOK
  BY DEF IInv
<1>2. QED
  BY Invariant, <1>1, PTL

\* Never two unfinished attempts of a task (reserveNextScanTaskAttempt).
THEOREM OneAttemptLives == Spec => []OneLiveAttempt
<1>1. IInv => OneLiveAttempt
  BY DEF IInv, TaskInv, LatestLives, OneLiveAttempt
<1>2. QED
  BY Invariant, <1>1, PTL

\* What a finalized scan lists for publication has results, and every result is
\* of an attempt that was parsed (publish takes them as they are).
THEOREM ResultsAreParsed == Spec => []PublishedWasParsed
<1>1. IInv => PublishedWasParsed
  BY DEF IInv, ResultsWereParsed, PublishedWasParsed
<1>2. QED
  BY Invariant, <1>1, PTL

\* No step of a scan releases the SCAN lock while the scan is RUNNING, unless a late
\* submission has set it RUNNING again.
THEOREM RunningKeepsLock == Spec => []KeepsLock
<1>1. IInv => KeepsLock
  BY DEF IInv
<1>2. QED
  BY Invariant, <1>1, PTL

\* The derive job of an attempt never finds that another one is the task's latest:
\* the check of currentAttemptId in its handler never fails.
DeriveIsOfLatest ==
  \A t \in Tasks : \A n \in 1 .. MaxAttempts[t] : step[Derive(t, n)] # "none" => Derivable(t, n)

THEOREM DerivesLatest == Spec => []DeriveIsOfLatest
<1>1. IInv => DeriveIsOfLatest
  <2> SUFFICES ASSUME IInv, NEW t \in Tasks, NEW n \in 1 .. MaxAttempts[t], step[Derive(t, n)] # "none"
               PROVE  Derivable(t, n)
    BY DEF DeriveIsOfLatest
  <2>1. n \in Nos
    BY NosAre
  <2>2. attempt[t][n] = "SUCCESS"
    BY DEF IInv, TaskInv, JobsFollowWebhooks
  <2>3. QED
    BY <2>1, <2>2 DEF IInv, TaskInv, LatestLives, Derivable
<1>2. QED
  BY Invariant, <1>1, PTL

\* A result that was derived is never replaced by one of another attempt: the
\* attempts of a task before the one that was parsed are over, and none follows.
DerivedStays == [][\A t \in Tasks : result[t] # 0 => result'[t] = result[t]]_vars

THEOREM DerivedIsFinal == Spec => DerivedStays
<1>1. IInv /\ [Next]_vars => [\A t \in Tasks : result[t] # 0 => result'[t] = result[t]]_vars
  <2> SUFFICES ASSUME IInv, Next, NEW t \in Tasks, result[t] # 0
               PROVE  result'[t] = result[t]
    OBVIOUS
  <2>1. result[t] \in Nos /\ attempt[t][result[t]] = "SUCCESS"
    BY DEF IInv, TypeOK, ResultsWereParsed
  <2>2. result[t] = task[t].current
    BY <2>1 DEF IInv, TaskInv, LatestLives
  <2>3. CASE Submission
    <3>1. result' = result
      BY <2>3 DEF Submission, LimitReached, Refused, Submitted, BeginSubmit, SkipSubmit,
                  EndSubmit, SubmitNothing, SlotExpires, data
    <3>2. QED
      BY <3>1
  <2>4. ASSUME NEW x \in Tries, Attempt(x[1], x[2]) PROVE result'[t] = result[t]
    <3> DEFINE u == x[1]
               n == x[2]
    <3>1. \/ result' = result
          \/ Derivable(u, n) /\ result' = [result EXCEPT ![u] = n]
      BY <2>4 DEF Attempt, HookSkips, HookCompleted, HookFailed, ParseStarts, ParseSucceeds,
                  ParseFails, ParseResubmits, ParseGivesUp, ParseEnds, DeriveSucceeds,
                  DeriveThrows, DeriveEnds, data
    <3>2. u \in Tasks /\ result \in [Tasks -> Nos \cup {0}]
      BY NosAre DEF IInv, TypeOK
    <3>3. CASE u = t
      BY <2>2, <3>1, <3>2, <3>3 DEF Derivable
    <3>4. CASE u # t
      BY <3>1, <3>2, <3>4
    <3>5. QED
      BY <3>3, <3>4
  <2>5. CASE PublishRuns \/ PublishUnlocks \/ PublishThrows \/ Sweep \/ StopScan \/ \E p \in Procs : Dies(p)
    <3>1. result' = result
      BY <2>5 DEF PublishRuns, PublishUnlocks, PublishThrows, Sweep, StopScan, Dies, data
    <3>2. QED
      BY <3>1
  <2>6. QED
    BY <2>3, <2>4, <2>5 DEF Next
<1>2. QED
  BY Invariant, <1>1, PTL DEF Spec, DerivedStays
-----------------------------------------------------------------------------
\* An undisturbed scan comes to its end: what is under way for every task, and who
\* will find the last one finished

Untroubled == faults = 0 /\ "revived" \notin seen
Ongoing == Untroubled /\ job.status = "RUNNING"

\* Nothing has happened before the scan-start job.
StartIsFirst ==
  step[Start] = "waiting" =>
    /\ slot = Free /\ flight = {}
    /\ \A t \in Tasks : /\ task[t].status = "PENDING"
                        /\ \A n \in 1 .. MaxAttempts[t] : step[Hook(t, n)] = "none"

\* Who made a submission waits for its answer.
FlightIsHeld(f) ==
  \/ step[f.by] = "trying"
  \/ /\ step[f.by] = "submitted"
     /\ \E n \in 1 .. MaxAttempts[f.task] : f.by = Parse(f.task, n)

\* Something is under way that will move the attempt on.
MovesOn(t, n) ==
  \/ step[Hook(t, n)] = "waiting" /\ attempt[t][n] = "RUNNING"
  \/ step[Parse(t, n)] = "waiting" /\ attempt[t][n] = "READY_TO_PARSE"
  \/ step[Parse(t, n)] \in {"parsing", "failing"}
  \/ step[Derive(t, n)] = "waiting" /\ attempt[t][n] = "SUCCESS"

\* Somebody will submit a task that is pending, and finish one that is running.
Attended(t) ==
  /\ \/ task[t].status # "PENDING"
     \/ step[Start] = "waiting"
     \/ \E n \in 1 .. MaxAttempts[t] : step[Parse(t, n)] = "retrying"
  /\ \/ task[t].status # "RUNNING"
     \/ \E f \in flight : f.task = t
     \/ \E n \in 1 .. MaxAttempts[t] : MovesOn(t, n)

\* An attempt is parsed once: when its webhook is heard there is no job yet.
ParsedOnce(t) ==
  \A n \in 1 .. MaxAttempts[t] :
    step[Hook(t, n)] \in {"none", "waiting"} => step[Parse(t, n)] = "none"

\* When all tasks are finished somebody is on the way to see it.
Finishing == {"trying", "submitting", "finalizing", "failing", "ending"}
EndIsSeen == Terminal => \E p \in Procs : step[p] \in Finishing

Underway == /\ StartIsFirst
            /\ \A f \in flight : FlightIsHeld(f)
            /\ \A t \in Tasks : Attended(t) /\ ParsedOnce(t)
            /\ EndIsSeen

\* A scan that has succeeded is on the way to the catalog, and its lock to release.
PublicationFollows ==
  job.status \in Succeeded =>
    /\ job.types # {}
    /\ \/ ~Untroubled \/ "unnoticed" \in seen
       \/ /\ step[Publish] \in {"waiting", "unlocking", "done"}
          /\ step[Publish] # "waiting" => job.publish = "PUBLISHED"
          /\ step[Publish] = "done" => ~kept

CompletionInv == /\ Ongoing => Underway
                 /\ PublicationFollows

-----------------------------------------------------------------------------
\* A fault is remembered.
LEMMA FaultsCount ==
  ASSUME TypeOK, Fault
  PROVE  faults' # 0
BY PipelineAssumption DEF PipelineAssumption, TypeOK, Fault

\* Who finalizes a scan that goes on has found a task that is not finished.
LEMMA FinalizingLeaves ==
  ASSUME job.status = "RUNNING", Finalize, job'.status = "RUNNING", TypeOK
  PROVE  ~Terminal
<1> SUFFICES ASSUME Terminal PROVE FALSE
  OBVIOUS
<1>1. job'.status = FinalStatus
  BY DEF Finalize, Transitions
<1>2. QED
  BY <1>1 DEF FinalStatus

LEMMA TerminalStays ==
  ASSUME \A t \in Tasks : task'[t].status = task[t].status
  PROVE  Terminal' <=> Terminal
BY DEF Terminal

\* Before the scan-start job nobody else is at work.
LEMMA StartIsAlone ==
  ASSUME IInv, Ongoing, Underway, step[Start] = "waiting"
  PROVE  /\ flight = {} /\ slot = Free
         /\ \A t \in Tasks : task[t].status = "PENDING"
         /\ \A t \in Tasks : \A n \in 1 .. MaxAttempts[t] :
              step[Hook(t, n)] = "none" /\ step[Parse(t, n)] = "none" /\ step[Derive(t, n)] = "none"
<1>1. /\ flight = {} /\ slot = Free
      /\ \A t \in Tasks : task[t].status = "PENDING"
      /\ \A t \in Tasks : \A n \in 1 .. MaxAttempts[t] : step[Hook(t, n)] = "none"
  BY DEF Underway, StartIsFirst
<1>2. ASSUME NEW t \in Tasks, NEW n \in 1 .. MaxAttempts[t]
      PROVE  step[Parse(t, n)] = "none" /\ step[Derive(t, n)] = "none"
  <2>1. step[Parse(t, n)] = "none"
    BY <1>1 DEF IInv, TaskInv, JobsFollowWebhooks
  <2>2. n \in Nos
    BY NosAre
  <2>3. attempt[t][n] # "SUCCESS"
    BY <1>1, <2>2 DEF IInv, TaskInv, LatestLives
  <2>4. QED
    BY <2>1, <2>3 DEF IInv, TaskInv, JobsFollowWebhooks
<1>3. QED
  BY <1>1, <1>2

\* A step of anybody else does not make the scan-start job wait.
LEMMA StartStays ==
  ASSUME IInv, Ongoing, Underway, step'[Start] = "waiting" => step[Start] = "waiting",
         \/ flight # {}
         \/ \E t \in Tasks : task[t].status # "PENDING"
         \/ \E t \in Tasks : \E n \in 1 .. MaxAttempts[t] :
              step[Hook(t, n)] # "none" \/ step[Parse(t, n)] # "none" \/ step[Derive(t, n)] # "none"
  PROVE  StartIsFirst' /\ step[Start] # "waiting"
<1>1. step[Start] # "waiting"
  BY StartIsAlone
<1>2. QED
  BY <1>1 DEF StartIsFirst

\* Submissions that are still under way, and whose callers have not moved
LEMMA FlightsStay ==
  ASSUME \A f \in flight : FlightIsHeld(f), flight' \subseteq flight,
         \A f \in flight' : step'[f.by] = step[f.by]
  PROVE  (\A f \in flight : FlightIsHeld(f))'
BY DEF FlightIsHeld

\* A task that a step passes by: processes of its own only leave steps nobody
\* relies on.
Late == {"submitting", "trying", "finalizing", "submitted", "ending", "failed"}
PassedBy(t) ==
  /\ task'[t].status = task[t].status /\ attempt'[t] = attempt[t]
  /\ \A f \in flight : f.task = t => f \in flight'
  /\ \A n \in 1 .. MaxAttempts[t] : \A p \in {Hook(t, n), Parse(t, n), Derive(t, n)} :
       step'[p] = step[p] \/ step[p] \in Late

LEMMA PassingBy ==
  ASSUME NEW t \in Tasks, Attended(t), PassedBy(t),
         step[Start] = "waiting" => step'[Start] = "waiting" \/ task[t].status # "PENDING"
  PROVE  Attended(t)'
<1>1. ASSUME NEW n \in 1 .. MaxAttempts[t], MovesOn(t, n) PROVE MovesOn(t, n)'
  BY <1>1 DEF MovesOn, PassedBy, Late
<1>2. \A n \in 1 .. MaxAttempts[t] : step[Parse(t, n)] = "retrying" => step'[Parse(t, n)] = "retrying"
  BY DEF PassedBy, Late
<1>3. QED
  BY <1>1, <1>2 DEF Attended, PassedBy

\* Webhooks are not heard again, and parse jobs do not vanish.
HeardOnce(t) ==
  \A n \in 1 .. MaxAttempts[t] :
    /\ step'[Hook(t, n)] \in {"none", "waiting"} => step[Hook(t, n)] \in {"none", "waiting"}
    /\ step[Parse(t, n)] = "none" => step'[Parse(t, n)] = "none"

LEMMA HearingOnce ==
  ASSUME NEW t \in Tasks, ParsedOnce(t), HeardOnce(t)
  PROVE  ParsedOnce(t)'
BY DEF ParsedOnce, HeardOnce

LEMMA EndStaysSeen ==
  ASSUME EndIsSeen, Terminal' => Terminal,
         \A p \in Procs : step[p] \in Finishing => step'[p] \in Finishing
  PROVE  EndIsSeen'
BY DEF EndIsSeen

\* A process of one attempt moves: those of other tasks, and the other attempts of
\* its own, are where they were.
LEMMA OthersStay ==
  ASSUME TypeOK, NEW t \in Tasks, NEW n \in 1 .. MaxAttempts[t],
         \A r \in Procs \ {Hook(t, n), Parse(t, n), Derive(t, n)} : step'[r] = step[r]
  PROVE  /\ step'[Start] = step[Start] /\ step'[Publish] = step[Publish]
         /\ \A u \in Tasks : \A m \in 1 .. MaxAttempts[u] : (u # t \/ m # n) =>
              /\ step'[Hook(u, m)] = step[Hook(u, m)]
              /\ step'[Parse(u, m)] = step[Parse(u, m)]
              /\ step'[Derive(u, m)] = step[Derive(u, m)]
<1>1. Start \notin {Hook(t, n), Parse(t, n), Derive(t, n)} /\ Publish \notin {Hook(t, n), Parse(t, n), Derive(t, n)}
  BY ProcsDiffer
<1>2. ASSUME NEW u \in Tasks, NEW m \in 1 .. MaxAttempts[u], u # t \/ m # n
      PROVE  /\ step'[Hook(u, m)] = step[Hook(u, m)]
             /\ step'[Parse(u, m)] = step[Parse(u, m)]
             /\ step'[Derive(u, m)] = step[Derive(u, m)]
  <2>1. {Hook(u, m), Parse(u, m), Derive(u, m)} \subseteq Procs
    BY JobsAre
  <2>2. \A p \in {Hook(u, m), Parse(u, m), Derive(u, m)} : p \notin {Hook(t, n), Parse(t, n), Derive(t, n)}
    BY <1>2, ProcsDiffer
  <2>3. QED
    BY <2>1, <2>2
<1>3. QED
  BY <1>1, <1>2, ProcsAre

\* The job of an attempt writes its own task and attempt: it is enough to look at
\* these.
LEMMA OwnTaskMoves ==
  ASSUME IInv, Ongoing, Underway, NEW t \in Tasks, NEW n \in 1 .. MaxAttempts[t],
         \A r \in Procs \ {Hook(t, n), Parse(t, n), Derive(t, n)} : step'[r] = step[r],
         \A u \in Tasks : u # t => task'[u].status = task[u].status /\ attempt'[u] = attempt[u],
         step[Hook(t, n)] # "none" \/ step[Parse(t, n)] # "none" \/ step[Derive(t, n)] # "none",
         flight' = flight,
         \A p \in {Hook(t, n), Parse(t, n), Derive(t, n)} :
           step'[p] = step[p] \/ step[p] \notin {"trying", "submitted"},
         Attended(t)',
         step'[Hook(t, n)] \in {"none", "waiting"} => step'[Parse(t, n)] = "none",
         EndIsSeen'
  PROVE  Underway'
<1>1. /\ step'[Start] = step[Start]
      /\ \A u \in Tasks : \A m \in 1 .. MaxAttempts[u] : (u # t \/ m # n) =>
           /\ step'[Hook(u, m)] = step[Hook(u, m)]
           /\ step'[Parse(u, m)] = step[Parse(u, m)]
           /\ step'[Derive(u, m)] = step[Derive(u, m)]
  BY OthersStay DEF IInv
<1>2. StartIsFirst'
  BY <1>1, StartStays
<1>3. (\A f \in flight : FlightIsHeld(f))'
  <2>1. \A f \in flight : f.by \in Procs
    BY DEF IInv, TypeOK, Flights
  <2>2. \A f \in flight : step'[f.by] = step[f.by]
    BY <2>1 DEF Underway, FlightIsHeld
  <2>3. QED
    BY <2>2, FlightsStay DEF Underway
<1>4. ASSUME NEW u \in Tasks, u # t PROVE Attended(u)' /\ ParsedOnce(u)'
  <2>1. PassedBy(u) /\ HeardOnce(u)
    BY <1>1, <1>4 DEF PassedBy, HeardOnce
  <2>2. QED
    BY <1>1, <2>1, PassingBy, HearingOnce DEF Underway
<1>5. ParsedOnce(t)'
  BY <1>1 DEF Underway, ParsedOnce
<1>6. QED
  BY <1>2, <1>3, <1>4, <1>5 DEF Underway

-----------------------------------------------------------------------------
\* Where a job goes, and whom it enqueues

LEMMA JobGoes ==
  ASSUME IInv, NEW p \in Procs, NEW s, Goto(p, s)
  PROVE  \A r \in Procs : step'[r] = IF r = p THEN s ELSE step[r]
BY DEF Goto, IInv, TypeOK

LEMMA JobEnqueues ==
  ASSUME IInv, NEW p \in Procs, NEW q \in Procs, p # q, NEW s, EnqueueAnd(p, s, q)
  PROVE  \A r \in Procs : step'[r] = IF r = p THEN s
                                   ELSE IF r = q /\ step[q] = "none" THEN "waiting" ELSE step[r]
BY DEF EnqueueAnd, IInv, TypeOK

-----------------------------------------------------------------------------
\* The webhook's steps

LEMMA HookSkipsOngoing ==
  ASSUME IInv, Ongoing, Underway, NEW t \in Tasks, NEW n \in 1 .. MaxAttempts[t], HookSkips(t, n)
  PROVE  Underway'
<1>1. step[Hook(t, n)] = "waiting" /\ attempt[t][n] # "RUNNING"
  BY DEF HookSkips, HookIgnores
<1>2. \A r \in Procs : step'[r] = IF r = Hook(t, n) THEN "done" ELSE step[r]
  BY JobsAre, JobGoes DEF HookSkips
<1>3. UNCHANGED <<task, attempt, flight>>
  BY DEF HookSkips, rows, submits
<1>4. Attended(t)'
  <2>1. \A m \in 1 .. MaxAttempts[t] : step'[Parse(t, m)] = step[Parse(t, m)] /\ step'[Derive(t, m)] = step[Derive(t, m)]
    BY <1>2, JobsAre, ProcsDiffer
  <2>2. \A m \in 1 .. MaxAttempts[t] : m # n => step'[Hook(t, m)] = step[Hook(t, m)]
    BY <1>2, JobsAre, ProcsDiffer
  <2>3. \A m \in 1 .. MaxAttempts[t] : MovesOn(t, m) => MovesOn(t, m)'
    BY <1>1, <1>3, <2>1, <2>2 DEF MovesOn
  <2>4. step'[Start] = step[Start]
    BY <1>2, ProcsAre, ProcsDiffer
  <2>5. QED
    BY <1>3, <2>1, <2>3, <2>4 DEF Underway, Attended
<1>5. EndIsSeen'
  BY <1>1, <1>2, <1>3, EndStaysSeen, TerminalStays DEF Underway, Finishing
<1>6. step'[Hook(t, n)] = "done" /\ step'[Parse(t, n)] = step[Parse(t, n)] /\ step'[Derive(t, n)] = step[Derive(t, n)]
  BY <1>2, JobsAre
<1>7. \A r \in Procs \ {Hook(t, n), Parse(t, n), Derive(t, n)} : step'[r] = step[r]
  BY <1>2
<1>8. QED
  BY <1>1, <1>3, <1>4, <1>5, <1>6, <1>7, OwnTaskMoves

LEMMA HookCompletedOngoing ==
  ASSUME IInv, Ongoing, Ongoing', Underway, NEW t \in Tasks, NEW n \in 1 .. MaxAttempts[t],
         HookCompleted(t, n)
  PROVE  Underway'
<1>1. step[Hook(t, n)] = "waiting" /\ step[Parse(t, n)] = "none"
  BY DEF HookCompleted, Underway, ParsedOnce
<1>2. EnqueueAnd(Hook(t, n), "submitting", Parse(t, n))
  BY FaultsCount DEF HookCompleted, Ongoing, Untroubled, IInv
<1>3. \A r \in Procs : step'[r] = IF r = Hook(t, n) THEN "submitting"
                                  ELSE IF r = Parse(t, n) THEN "waiting" ELSE step[r]
  <2>1. Hook(t, n) \in Procs /\ Parse(t, n) \in Procs /\ Hook(t, n) # Parse(t, n)
    BY JobsAre
  <2>2. QED
    BY <1>1, <1>2, <2>1, JobEnqueues
<1>4. /\ task'[t].status = "RUNNING" /\ \A u \in Tasks : u # t => task'[u] = task[u]
      /\ attempt'[t][n] = "READY_TO_PARSE" /\ \A u \in Tasks : u # t => attempt'[u] = attempt[u]
      /\ flight' = flight
  BY ZenonT(60), JobsAre DEF HookCompleted, SetAttempt, IInv, TypeOK, TaskRows, submits
<1>5. step'[Hook(t, n)] = "submitting" /\ step'[Parse(t, n)] = "waiting" /\ step'[Derive(t, n)] = step[Derive(t, n)]
  BY <1>3, JobsAre
<1>6. Attended(t)'
  BY <1>4, <1>5 DEF Attended, MovesOn
<1>7. EndIsSeen'
  BY <1>4 DEF EndIsSeen, Terminal
<1>8. \A r \in Procs \ {Hook(t, n), Parse(t, n), Derive(t, n)} : step'[r] = step[r]
  BY <1>3
<1>9. QED
  BY <1>1, <1>4, <1>5, <1>6, <1>7, <1>8, OwnTaskMoves

LEMMA HookFailedOngoing ==
  ASSUME IInv, Ongoing, Underway, NEW t \in Tasks, NEW n \in 1 .. MaxAttempts[t], HookFailed(t, n)
  PROVE  Underway'
<1>1. step[Hook(t, n)] = "waiting"
  BY DEF HookFailed
<1>2. \A r \in Procs : step'[r] = IF r = Hook(t, n) THEN "submitting" ELSE step[r]
  BY JobsAre, JobGoes DEF HookFailed
<1>3. /\ task'[t].status = "FAILED" /\ \A u \in Tasks : u # t => task'[u] = task[u]
      /\ \A u \in Tasks : u # t => attempt'[u] = attempt[u]
      /\ flight' = flight
  BY DEF HookFailed, SetAttempt, IInv, TypeOK, TaskRows, submits
<1>4. step'[Hook(t, n)] = "submitting" /\ step'[Parse(t, n)] = step[Parse(t, n)] /\ step'[Derive(t, n)] = step[Derive(t, n)]
  BY <1>2, JobsAre
<1>5. Attended(t)'
  BY <1>3 DEF Attended
<1>6. EndIsSeen'
  BY <1>4, JobsAre DEF EndIsSeen, Finishing
<1>7. \A r \in Procs \ {Hook(t, n), Parse(t, n), Derive(t, n)} : step'[r] = step[r]
  BY <1>2
<1>8. QED
  BY <1>1, <1>3, <1>4, <1>5, <1>6, <1>7, OwnTaskMoves

-----------------------------------------------------------------------------
\* The steps of the parse job

LEMMA ParseStartsOngoing ==
  ASSUME IInv, Ongoing, Underway, NEW t \in Tasks, NEW n \in 1 .. MaxAttempts[t], ParseStarts(t, n)
  PROVE  Underway'
<1>1. step[Parse(t, n)] = "waiting" /\ step[Hook(t, n)] \notin {"none", "waiting"}
  BY DEF ParseStarts, Underway, ParsedOnce
<1>2. UNCHANGED <<task, flight>>
  BY DEF ParseStarts, submits
<1>3. \/ /\ attempt[t][n] = "READY_TO_PARSE" /\ SetAttempt(t, n, "PARSING")
         /\ Goto(Parse(t, n), "parsing")
      \/ /\ attempt[t][n] # "READY_TO_PARSE" /\ attempt' = attempt
         /\ \/ Goto(Parse(t, n), "done")
            \/ EnqueueAnd(Parse(t, n), "done", Derive(t, n))
  BY DEF ParseStarts
<1>4. /\ \A r \in Procs \ {Parse(t, n), Derive(t, n)} : step'[r] = step[r]
      /\ step'[Derive(t, n)] = step[Derive(t, n)] \/ step[Derive(t, n)] = "none"
      /\ \/ /\ step'[Parse(t, n)] = "parsing"
            /\ \A u \in Tasks : u # t => attempt'[u] = attempt[u]
         \/ step'[Parse(t, n)] = "done" /\ attempt' = attempt /\ attempt[t][n] # "READY_TO_PARSE"
  <2>1. CASE /\ SetAttempt(t, n, "PARSING")
             /\ Goto(Parse(t, n), "parsing")
    <3>1. \A u \in Tasks : u # t => attempt'[u] = attempt[u]
      BY <2>1 DEF SetAttempt, IInv, TypeOK
    <3>2. \A r \in Procs : step'[r] = IF r = Parse(t, n) THEN "parsing" ELSE step[r]
      BY <2>1, JobsAre, JobGoes
    <3>3. QED
      BY <3>1, <3>2, JobsAre
  <2>2. CASE Goto(Parse(t, n), "done") /\ attempt' = attempt /\ attempt[t][n] # "READY_TO_PARSE"
    BY <2>2, JobsAre, JobGoes
  <2>3. CASE EnqueueAnd(Parse(t, n), "done", Derive(t, n)) /\ attempt' = attempt /\ attempt[t][n] # "READY_TO_PARSE"
    <3>1. Derive(t, n) \in Procs /\ Parse(t, n) \in Procs /\ Derive(t, n) # Parse(t, n)
      BY JobsAre
    <3>2. \A r \in Procs : step'[r] = IF r = Parse(t, n) THEN "done"
                                      ELSE IF r = Derive(t, n) /\ step[Derive(t, n)] = "none"
                                           THEN "waiting" ELSE step[r]
      BY <2>3, <3>1, JobEnqueues
    <3>3. QED
      BY <2>3, <3>1, <3>2
  <2>4. QED
    BY <1>3, <2>1, <2>2, <2>3
<1>5. /\ step'[Start] = step[Start]
      /\ \A m \in 1 .. MaxAttempts[t] : m # n => /\ step'[Hook(t, m)] = step[Hook(t, m)]
                                                /\ step'[Parse(t, m)] = step[Parse(t, m)]
                                                /\ step'[Derive(t, m)] = step[Derive(t, m)]
      /\ step'[Hook(t, n)] = step[Hook(t, n)]
  BY ZenonT(60), <1>4, JobsAre, OthersStay DEF IInv
<1>6. Attended(t)'
  <2>1. \A m \in 1 .. MaxAttempts[t] : step[Parse(t, m)] = "retrying" => step'[Parse(t, m)] = "retrying"
    BY <1>1, <1>5
  <2>2. CASE step'[Parse(t, n)] = "parsing"
    BY <1>2, <1>5, <2>1, <2>2 DEF Underway, Attended, MovesOn
  <2>3. CASE step'[Parse(t, n)] = "done" /\ attempt' = attempt /\ attempt[t][n] # "READY_TO_PARSE"
    <3>1. \A m \in 1 .. MaxAttempts[t] : MovesOn(t, m) => MovesOn(t, m)'
      BY <1>1, <1>4, <1>5, <2>3 DEF MovesOn
    <3>2. QED
      BY <1>2, <1>5, <2>1, <3>1 DEF Underway, Attended
  <2>4. QED
    BY <1>4, <2>2, <2>3
<1>7. EndIsSeen'
  BY <1>1, <1>2, <1>4, EndStaysSeen, TerminalStays DEF Underway, Finishing
<1>8. QED
  BY <1>1, <1>2, <1>4, <1>5, <1>6, <1>7, OwnTaskMoves

LEMMA ParseSucceedsOngoing ==
  ASSUME IInv, Ongoing, Ongoing', Underway, NEW t \in Tasks, NEW n \in 1 .. MaxAttempts[t],
         ParseSucceeds(t, n)
  PROVE  Underway'
<1>1. /\ step[Parse(t, n)] = "parsing" /\ step[Hook(t, n)] \notin {"none", "waiting"}
      /\ step[Derive(t, n)] = "none" /\ task[t].status # "PENDING"
  BY DEF ParseSucceeds, Underway, ParsedOnce, IInv, TaskInv, ParsesLatest, JobsFollowWebhooks
<1>2. EnqueueAnd(Parse(t, n), "done", Derive(t, n))
  BY FaultsCount DEF ParseSucceeds, Ongoing, Untroubled, IInv
<1>3. \A r \in Procs : step'[r] = IF r = Parse(t, n) THEN "done"
                                  ELSE IF r = Derive(t, n) THEN "waiting" ELSE step[r]
  BY ZenonT(60), <1>1, <1>2, JobsAre, JobEnqueues
<1>4. /\ task' = task /\ flight' = flight
      /\ attempt'[t][n] = "SUCCESS" /\ \A u \in Tasks : u # t => attempt'[u] = attempt[u]
  BY JobsAre DEF ParseSucceeds, SetAttempt, IInv, TypeOK, submits
<1>5. step'[Parse(t, n)] = "done" /\ step'[Derive(t, n)] = "waiting" /\ step'[Hook(t, n)] = step[Hook(t, n)]
  BY <1>3, JobsAre
<1>6. Attended(t)'
  BY <1>1, <1>4, <1>5 DEF Attended, MovesOn
<1>7. EndIsSeen'
  <2>1. \A p \in Procs : step[p] \in Finishing => step'[p] \in Finishing
    BY <1>1, <1>3 DEF Finishing
  <2>2. QED
    BY <1>4, <2>1, EndStaysSeen, TerminalStays DEF Underway
<1>8. \A r \in Procs \ {Hook(t, n), Parse(t, n), Derive(t, n)} : step'[r] = step[r]
  BY <1>3
<1>9. QED
  BY <1>1, <1>4, <1>5, <1>6, <1>7, <1>8, OwnTaskMoves

LEMMA ParseFailsOngoing ==
  ASSUME IInv, Ongoing, Underway, NEW t \in Tasks, NEW n \in 1 .. MaxAttempts[t], ParseFails(t, n)
  PROVE  Underway'
<1>1. step[Parse(t, n)] = "parsing" /\ step[Hook(t, n)] \notin {"none", "waiting"} /\ task[t].status # "PENDING"
  BY DEF ParseFails, Underway, ParsedOnce, IInv, TaskInv, ParsesLatest
<1>2. /\ flight' = flight /\ \A u \in Tasks : u # t => attempt'[u] = attempt[u]
      /\ \A u \in Tasks : u # t => task'[u] = task[u]
      /\ \/ task'[t].status = "PENDING" /\ Goto(Parse(t, n), "retrying")
         \/ task' = task /\ Goto(Parse(t, n), "failing")
  BY DEF ParseFails, SetAttempt, IInv, TypeOK, TaskRows, submits
<1>3. /\ \A r \in Procs \ {Parse(t, n)} : step'[r] = step[r]
      /\ \/ task'[t].status = "PENDING" /\ step'[Parse(t, n)] = "retrying"
         \/ task' = task /\ step'[Parse(t, n)] = "failing"
  BY <1>2, JobsAre, JobGoes
<1>4. step'[Hook(t, n)] = step[Hook(t, n)] /\ step'[Derive(t, n)] = step[Derive(t, n)]
  BY <1>3, JobsAre
<1>5. Attended(t)'
  BY <1>1, <1>3 DEF Attended, MovesOn
<1>6. EndIsSeen'
  <2>1. CASE task'[t].status = "PENDING"
    BY <2>1 DEF EndIsSeen, Terminal
  <2>2. CASE step'[Parse(t, n)] = "failing"
    BY <2>2, JobsAre DEF EndIsSeen, Finishing
  <2>3. QED
    BY <1>3, <2>1, <2>2
<1>7. QED
  BY <1>1, <1>2, <1>3, <1>4, <1>5, <1>6, OwnTaskMoves

LEMMA ParseGivesUpOngoing ==
  ASSUME IInv, Ongoing, Underway, NEW t \in Tasks, NEW n \in 1 .. MaxAttempts[t], ParseGivesUp(t, n)
  PROVE  Underway'
<1>1. step[Parse(t, n)] = "failing" /\ step[Hook(t, n)] \notin {"none", "waiting"}
  BY DEF ParseGivesUp, Underway, ParsedOnce
<1>2. \A r \in Procs : step'[r] = IF r = Parse(t, n) THEN "ending" ELSE step[r]
  BY JobsAre, JobGoes DEF ParseGivesUp
<1>3. /\ task'[t].status = "FAILED" /\ \A u \in Tasks : u # t => task'[u] = task[u]
      /\ attempt' = attempt /\ flight' = flight
  BY SettingTask DEF ParseGivesUp, IInv, TypeOK, submits
<1>4. /\ step'[Parse(t, n)] = "ending"
      /\ step'[Hook(t, n)] = step[Hook(t, n)] /\ step'[Derive(t, n)] = step[Derive(t, n)]
  BY <1>2, JobsAre
<1>5. Attended(t)'
  BY <1>3 DEF Attended
<1>6. EndIsSeen'
  BY <1>4, JobsAre DEF EndIsSeen, Finishing
<1>7. \A r \in Procs \ {Hook(t, n), Parse(t, n), Derive(t, n)} : step'[r] = step[r]
  BY <1>2
<1>8. QED
  BY <1>1, <1>3, <1>4, <1>5, <1>6, <1>7, OwnTaskMoves

\* The derive job's only step that leaves something to finish
LEMMA DeriveSucceedsOngoing ==
  ASSUME IInv, Ongoing, Underway, NEW t \in Tasks, NEW n \in 1 .. MaxAttempts[t], DeriveSucceeds(t, n)
  PROVE  Underway'
<1>1. step[Derive(t, n)] = "waiting"
  BY DEF DeriveSucceeds
<1>2. \A r \in Procs : step'[r] = IF r = Derive(t, n) THEN "ending" ELSE step[r]
  BY JobsAre, JobGoes DEF DeriveSucceeds
<1>3. /\ task'[t].status = "SUCCESS" /\ \A u \in Tasks : u # t => task'[u] = task[u]
      /\ attempt' = attempt /\ flight' = flight
  BY DEF DeriveSucceeds, IInv, TypeOK, TaskRows, submits
<1>4. /\ step'[Derive(t, n)] = "ending"
      /\ step'[Hook(t, n)] = step[Hook(t, n)] /\ step'[Parse(t, n)] = step[Parse(t, n)]
  BY <1>2, JobsAre
<1>5. Attended(t)'
  BY <1>3 DEF Attended
<1>6. EndIsSeen'
  BY <1>4, JobsAre DEF EndIsSeen, Finishing
<1>7. \A r \in Procs \ {Hook(t, n), Parse(t, n), Derive(t, n)} : step'[r] = step[r]
  BY <1>2
<1>8. step'[Hook(t, n)] \in {"none", "waiting"} => step'[Parse(t, n)] = "none"
  BY <1>4 DEF Underway, ParsedOnce
<1>9. QED
  BY <1>1, <1>3, <1>4, <1>5, <1>6, <1>7, <1>8, OwnTaskMoves

-----------------------------------------------------------------------------
\* Steps that only move a process on

JobOf(q) == \/ q = Start
            \/ \E t \in Tasks : \E n \in 1 .. MaxAttempts[t] : q \in {Hook(t, n), Parse(t, n), Derive(t, n)}

LEMMA MovingOn ==
  ASSUME IInv, Ongoing, Underway, NEW q \in Procs, JobOf(q), step[q] \in Late,
         \A f \in flight : f.by # q,
         \A r \in Procs \ {q} : step'[r] = step[r],
         step'[q] = "finalizing" \/ (~Terminal /\ step'[q] # "none"),
         step'[q] = "waiting" => \E t \in Tasks : \E n \in 1 .. MaxAttempts[t] : q = Derive(t, n),
         UNCHANGED <<task, attempt, flight>>
  PROVE  Underway'
<1>1. step'[Start] = "waiting" => step[Start] = "waiting"
  BY ProcsAre, ProcsDiffer
<1>2. StartIsFirst' /\ step[Start] # "waiting"
  <2>1. CASE q = Start
    BY <1>1, <2>1 DEF StartIsFirst, Late
  <2>2. CASE q # Start
    <3>1. PICK t \in Tasks : \E n \in 1 .. MaxAttempts[t] : q \in {Hook(t, n), Parse(t, n), Derive(t, n)}
      BY <2>2 DEF JobOf
    <3>2. PICK n \in 1 .. MaxAttempts[t] : q \in {Hook(t, n), Parse(t, n), Derive(t, n)}
      BY <3>1
    <3>3. step[Hook(t, n)] # "none" \/ step[Parse(t, n)] # "none" \/ step[Derive(t, n)] # "none"
      BY <3>2 DEF Late
    <3>4. QED
      BY <1>1, <3>3, StartStays
  <2>3. QED
    BY <2>1, <2>2
<1>3. (\A f \in flight : FlightIsHeld(f))'
  <2>1. \A f \in flight' : step'[f.by] = step[f.by]
    BY DEF IInv, TypeOK, Flights
  <2>2. QED
    BY <2>1, FlightsStay DEF Underway
<1>4. ASSUME NEW t \in Tasks PROVE Attended(t)' /\ ParsedOnce(t)'
  <2>1. ASSUME NEW n \in 1 .. MaxAttempts[t]
        PROVE  /\ {Hook(t, n), Parse(t, n), Derive(t, n)} \subseteq Procs
               /\ \A p \in {Hook(t, n), Parse(t, n), Derive(t, n)} : step'[p] = step[p] \/ step[p] \in Late
               /\ step'[Hook(t, n)] \in {"none", "waiting"} => step[Hook(t, n)] \in {"none", "waiting"}
               /\ step[Parse(t, n)] = "none" => step'[Parse(t, n)] = "none"
    <3>1. {Hook(t, n), Parse(t, n), Derive(t, n)} \subseteq Procs
      BY JobsAre
    <3>2. \A p \in {Hook(t, n), Parse(t, n), Derive(t, n)} : step'[p] = step[p] \/ step[p] \in Late
      BY <3>1
    <3>3. step'[Hook(t, n)] \in {"none", "waiting"} => step[Hook(t, n)] \in {"none", "waiting"}
      BY <3>1, ProcsDiffer
    <3>4. step[Parse(t, n)] = "none" => step'[Parse(t, n)] = "none"
      BY <3>1 DEF Late
    <3>5. QED
      BY <3>1, <3>2, <3>3, <3>4
  <2>2. PassedBy(t) /\ HeardOnce(t)
    BY <2>1 DEF PassedBy, HeardOnce
  <2>3. QED
    BY <1>2, <2>2, PassingBy, HearingOnce DEF Underway
<1>5. EndIsSeen'
  <2>1. CASE ~Terminal
    BY <2>1, TerminalStays DEF EndIsSeen
  <2>2. CASE step'[q] = "finalizing"
    BY <2>2 DEF EndIsSeen, Finishing
  <2>3. QED
    BY <2>1, <2>2
<1>6. QED
  BY <1>2, <1>3, <1>4, <1>5 DEF Underway

\* Who submits is the scan-start job or a webhook's handler.
LEMMA SubmittersAre ==
  ASSUME NEW p \in Submitters
  PROVE  p \in Procs /\ JobOf(p)
<1>1. CASE p = Start
  BY <1>1, ProcsAre DEF JobOf
<1>2. ASSUME NEW x \in Tries, p = Hook(x[1], x[2]) PROVE p \in Procs /\ JobOf(p)
  <2>1. x[1] \in Tasks /\ x[2] \in 1 .. MaxAttempts[x[1]]
    BY NosAre
  <2>2. QED
    BY <1>2, <2>1, JobsAre DEF JobOf
<1>3. QED
  BY <1>1, <1>2 DEF Submitters

\* A scan that goes on has not ended: who finalizes leaves a task unfinished.
LEMMA FinalizeThenGoesOn ==
  ASSUME IInv, Ongoing, Ongoing', NEW p \in Procs, NEW s, NEW unlocks \in BOOLEAN, FinalizeThen(p, s, unlocks)
  PROVE  ~Terminal /\ \A r \in Procs : step'[r] = IF r = p THEN s ELSE step[r]
<1>1. ~Terminal
  BY FinalizingLeaves DEF FinalizeThen, Ongoing, IInv
<1>2. Goto(p, s)
  BY <1>1 DEF FinalizeThen, Publishes, Transitions
<1>3. QED
  BY <1>1, <1>2, JobGoes

LEMMA ParseEndsOngoing ==
  ASSUME IInv, Ongoing, Ongoing', Underway, NEW t \in Tasks, NEW n \in 1 .. MaxAttempts[t], ParseEnds(t, n)
  PROVE  Underway'
<1> DEFINE q == Parse(t, n)
<1>1. q \in Procs /\ JobOf(q) /\ step[q] = "ending"
  BY JobsAre DEF ParseEnds, JobOf
<1>2. ~Terminal /\ \A r \in Procs : step'[r] = IF r = q THEN "done" ELSE step[r]
  BY <1>1, FinalizeThenGoesOn DEF ParseEnds
<1>3. \A f \in flight : f.by # q
  BY <1>1 DEF Underway, FlightIsHeld
<1>4. UNCHANGED <<task, attempt, flight>>
  BY DEF ParseEnds, submits
<1>5. step[q] \in Late /\ step'[q] = "done" /\ \A r \in Procs \ {q} : step'[r] = step[r]
  BY <1>1, <1>2 DEF Late
<1> HIDE DEF q
<1>6. QED
  BY <1>1, <1>2, <1>3, <1>4, <1>5, MovingOn

LEMMA DeriveEndsOngoing ==
  ASSUME IInv, Ongoing, Ongoing', Underway, NEW t \in Tasks, NEW n \in 1 .. MaxAttempts[t], DeriveEnds(t, n)
  PROVE  Underway'
<1> DEFINE q == Derive(t, n)
<1>1. q \in Procs /\ JobOf(q) /\ step[q] \in {"ending", "failed"}
  BY JobsAre DEF DeriveEnds, JobOf
<1>2. PICK s \in {"done", "waiting"} : FinalizeThen(q, s, TRUE)
  BY DEF DeriveEnds
<1>3. ~Terminal /\ \A r \in Procs : step'[r] = IF r = q THEN s ELSE step[r]
  BY <1>1, <1>2, FinalizeThenGoesOn
<1>4. \A f \in flight : f.by # q
  BY <1>1 DEF Underway, FlightIsHeld
<1>5. UNCHANGED <<task, attempt, flight>>
  BY DEF DeriveEnds, submits
<1>6. step[q] \in Late /\ step'[q] # "none" /\ \A r \in Procs \ {q} : step'[r] = step[r]
  BY <1>1, <1>3 DEF Late
<1>7. \E u \in Tasks : \E m \in 1 .. MaxAttempts[u] : q = Derive(u, m)
  OBVIOUS
<1> HIDE DEF q
<1>8. QED
  BY <1>1, <1>3, <1>4, <1>5, <1>6, <1>7, MovingOn

LEMMA EndSubmitOngoing ==
  ASSUME IInv, Ongoing, Ongoing', Underway, NEW p \in Submitters, EndSubmit(p)
  PROVE  Underway'
<1>1. p \in Procs /\ JobOf(p) /\ step[p] = "trying" /\ \A f \in flight : f.by # p
  BY SubmittersAre DEF EndSubmit
<1>2. UNCHANGED <<task, attempt, flight>>
  BY DEF EndSubmit
<1>3. \/ ~Terminal /\ Goto(p, "done")
      \/ Goto(p, "finalizing")
  BY FinalizingLeaves DEF EndSubmit, FinalizeOnly, Ongoing, IInv
<1>4. /\ step'[p] = "finalizing" \/ (~Terminal /\ step'[p] = "done")
      /\ \A r \in Procs \ {p} : step'[r] = step[r]
  BY <1>1, <1>3, JobGoes
<1>5. QED
  BY <1>1, <1>2, <1>4, MovingOn DEF Late

\* With a slot for every task the scan-start job submits them all.
LEMMA StartFindsWork ==
  ASSUME IInv, Ongoing, Underway, step[Start] = "waiting"
  PROVE  Pending = Tasks /\ Pending # {} /\ slot = Free /\ Available = Slots
<1>1. slot = Free /\ \A t \in Tasks : task[t].status = "PENDING"
  BY StartIsAlone
<1>2. Pending = Tasks /\ Pending # {}
  BY <1>1, PipelineAssumption DEF Pending, Reservable, PipelineAssumption
<1>3. RunningBulks = {}
  BY <1>1, NosAre DEF RunningBulks
<1>4. Available = Slots
  BY <1>3, FS_EmptySet, PipelineAssumption DEF Available, PipelineAssumption
<1>5. QED
  BY <1>1, <1>2, <1>4

LEMMA SkipSubmitOngoing ==
  ASSUME IInv, Ongoing, Underway, NEW p \in Submitters, SkipSubmit(p)
  PROVE  Underway'
<1>1. p # Start
  BY StartFindsWork, PipelineAssumption DEF SkipSubmit, AtSubmit, PipelineAssumption
<1>2. p \in Procs /\ JobOf(p) /\ step[p] = "submitting"
  BY <1>1, SubmittersAre DEF SkipSubmit, AtSubmit
<1>3. Goto(p, "finalizing") /\ UNCHANGED <<task, attempt, flight>>
  BY <1>1 DEF SkipSubmit, After, rows, submits
<1>4. step'[p] = "finalizing" /\ \A r \in Procs \ {p} : step'[r] = step[r]
  BY <1>2, <1>3, JobGoes
<1>5. \A f \in flight : f.by # p
  BY <1>2 DEF Underway, FlightIsHeld
<1>6. QED
  BY <1>2, <1>3, <1>4, <1>5, MovingOn DEF Late

LEMMA SubmitNothingOngoing ==
  ASSUME IInv, Ongoing, Ongoing', Underway, NEW p \in Submitters, SubmitNothing(p)
  PROVE  Underway'
<1>1. step[p] \in {"submitting", "finalizing"}
  BY StartFindsWork DEF SubmitNothing, AtSubmit
<1>2. p \in Procs /\ JobOf(p)
  BY SubmittersAre
<1>3. ~Terminal /\ Goto(p, "done") /\ UNCHANGED <<task, attempt, flight>>
  BY FinalizingLeaves DEF SubmitNothing, FinalizeOnly, Ongoing, IInv, submits
<1>4. step'[p] = "done" /\ \A r \in Procs \ {p} : step'[r] = step[r]
  BY <1>2, <1>3, JobGoes
<1>5. \A f \in flight : f.by # p
  BY <1>1 DEF Underway, FlightIsHeld
<1>6. QED
  BY <1>1, <1>2, <1>3, <1>4, <1>5, MovingOn DEF Late

-----------------------------------------------------------------------------
\* Steps that reserve attempts

LEMMA ReservingTakes ==
  ASSUME IInv, NEW p \in Procs, NEW S \in SUBSET Pending, Reserve(p, S)
  PROVE  /\ S \subseteq Tasks
         /\ \A t \in S : task'[t].status = "RUNNING" /\ \E f \in flight' : f.task = t
         /\ \A t \in Tasks \ S : task'[t] = task[t] /\ attempt'[t] = attempt[t]
         /\ flight \subseteq flight'
         /\ \A f \in flight' : f \in flight \/ (f.by = p /\ f.task \in S)
<1>1. S \subseteq Tasks
  BY DEF Pending
<1>2. \A t \in S : task'[t].status = "RUNNING" /\ \E f \in flight' : f.task = t
  <2> SUFFICES ASSUME NEW t \in S
               PROVE  task'[t].status = "RUNNING" /\ \E f \in flight' : f.task = t
    OBVIOUS
  <2>1. task'[t] = [task[t] EXCEPT !.status = "RUNNING", !.current = task[t].current + 1] /\ task[t] \in TaskRows
    BY <1>1 DEF Reserve, IInv, TypeOK
  <2>2. [task |-> t, no |-> task[t].current + 1, by |-> p] \in flight'
    BY DEF Reserve
  <2>3. QED
    BY <2>1, <2>2 DEF TaskRows
<1>3. \A t \in Tasks \ S : task'[t] = task[t] /\ attempt'[t] = attempt[t]
  BY DEF Reserve
<1>4. flight \subseteq flight' /\ \A f \in flight' : f \in flight \/ (f.by = p /\ f.task \in S)
  <2>1. flight' = flight \cup {[task |-> t, no |-> task[t].current + 1, by |-> p] : t \in S}
    BY DEF Reserve
  <2>2. \A f \in flight' : f \in flight \/ \E t \in S : f = [task |-> t, no |-> task[t].current + 1, by |-> p]
    BY <2>1
  <2>3. ASSUME NEW f \in flight', f \notin flight PROVE f.by = p /\ f.task \in S
    <3>1. PICK t \in S : f = [task |-> t, no |-> task[t].current + 1, by |-> p]
      BY <2>2, <2>3
    <3>2. QED
      BY <3>1
  <2>4. QED
    BY <2>1, <2>3
<1>5. QED
  BY <1>1, <1>2, <1>3, <1>4

LEMMA BeginSubmitOngoing ==
  ASSUME IInv, Ongoing, Underway, Cardinality(Tasks) <= Slots, NEW p \in Submitters, BeginSubmit(p)
  PROVE  Underway'
<1>1. p \in Procs /\ JobOf(p) /\ AtSubmit(p)
  BY SubmittersAre DEF BeginSubmit
<1>2. PICK S \in SUBSET Pending : /\ S # {} /\ (S = Pending \/ Cardinality(S) = Available)
                                  /\ Reserve(p, S)
  BY DEF BeginSubmit
<1>3. /\ S \subseteq Tasks
      /\ \A t \in S : task'[t].status = "RUNNING" /\ \E f \in flight' : f.task = t
      /\ \A t \in Tasks \ S : task'[t] = task[t] /\ attempt'[t] = attempt[t]
      /\ flight \subseteq flight'
      /\ \A f \in flight' : f \in flight \/ (f.by = p /\ f.task \in S)
  BY <1>1, <1>2, ReservingTakes
<1>4. step'[p] = "trying" /\ \A r \in Procs \ {p} : step'[r] = step[r]
  BY <1>1, JobGoes DEF BeginSubmit
<1>5. (p # Start /\ step[p] = "submitting") \/ (p = Start /\ S = Tasks)
  <2>1. CASE p = Start
    <3>1. Pending = Tasks /\ Available = Slots
      BY <1>1, <2>1, StartFindsWork DEF AtSubmit
    <3>2. CASE S # Pending
      <4>1. IsFiniteSet(Tasks) /\ Slots \in Nat /\ Cardinality(S) = Slots
        BY <1>2, <3>1, <3>2, PipelineAssumption DEF PipelineAssumption
      <4>2. Cardinality(S) <= Cardinality(Tasks) /\ (Cardinality(S) = Cardinality(Tasks) => S = Tasks)
        BY <1>3, <4>1, FS_Subset
      <4>3. Cardinality(Tasks) \in Nat
        BY <4>1, FS_CardinalityType
      <4>4. QED
        BY <2>1, <4>1, <4>2, <4>3
    <3>3. QED
      BY <2>1, <3>1, <3>2
  <2>2. QED
    BY <1>1, <2>1 DEF AtSubmit
<1>6. StartIsFirst'
  <2>1. CASE p = Start
    BY <1>4, <2>1 DEF StartIsFirst
  <2>2. CASE p # Start
    <3>1. PICK t \in Tasks : \E n \in 1 .. MaxAttempts[t] : p \in {Hook(t, n), Parse(t, n), Derive(t, n)}
      BY <1>1, <2>2 DEF JobOf
    <3>2. \E n \in 1 .. MaxAttempts[t] :
            step[Hook(t, n)] # "none" \/ step[Parse(t, n)] # "none" \/ step[Derive(t, n)] # "none"
      BY <1>5, <2>2, <3>1
    <3>3. step'[Start] = step[Start]
      BY <1>4, <2>2, ProcsAre
    <3>4. QED
      BY <3>2, <3>3, StartStays
  <2>3. QED
    BY <2>1, <2>2
<1>7. (\A f \in flight : FlightIsHeld(f))'
  <2> SUFFICES ASSUME NEW f \in flight' PROVE FlightIsHeld(f)'
    OBVIOUS
  <2>1. CASE f.by = p
    BY <1>4, <2>1 DEF FlightIsHeld
  <2>2. CASE f.by # p
    <3>1. f \in flight /\ f.by \in Procs
      BY <1>3, <2>2 DEF IInv, TypeOK, Flights
    <3>2. step'[f.by] = step[f.by]
      BY <1>4, <2>2, <3>1
    <3>3. QED
      BY <3>1, <3>2 DEF Underway, FlightIsHeld
  <2>3. QED
    BY <2>1, <2>2
<1>8. ASSUME NEW t \in Tasks PROVE Attended(t)' /\ ParsedOnce(t)'
  <2>1. ASSUME NEW n \in 1 .. MaxAttempts[t]
        PROVE  /\ \A q \in {Hook(t, n), Parse(t, n), Derive(t, n)} :
                    step'[q] = step[q] \/ (step[q] = "submitting" /\ step'[q] = "trying")
    <3>1. {Hook(t, n), Parse(t, n), Derive(t, n)} \subseteq Procs
      BY JobsAre
    <3>2. Start \notin {Hook(t, n), Parse(t, n), Derive(t, n)}
      BY ProcsDiffer
    <3>3. QED
      BY <1>4, <1>5, <3>1, <3>2
  <2>2. HeardOnce(t)
    BY <2>1 DEF HeardOnce
  <2>3. Attended(t)'
    <3>1. CASE t \in S
      BY <1>3, <3>1 DEF Attended
    <3>2. CASE t \notin S
      <4>1. PassedBy(t)
        BY <1>3, <2>1, <3>2 DEF PassedBy, Late
      <4>2. p # Start /\ step'[Start] = step[Start]
        <5>1. p # Start
          BY <1>5, <3>2
        <5>2. QED
          BY <1>4, <5>1, ProcsAre
      <4>3. QED
        BY <4>1, <4>2, PassingBy DEF Underway
    <3>3. QED
      BY <3>1, <3>2
  <2>4. QED
    BY <2>2, <2>3, HearingOnce DEF Underway
<1>9. EndIsSeen'
  BY <1>2, <1>3 DEF EndIsSeen, Terminal
<1>10. QED
  BY <1>6, <1>7, <1>8, <1>9 DEF Underway

LEMMA ParseResubmitsOngoing ==
  ASSUME IInv, Ongoing, Underway, NEW t \in Tasks, NEW n \in 1 .. MaxAttempts[t], ParseResubmits(t, n)
  PROVE  Underway'
<1>1. step[Parse(t, n)] = "retrying" /\ step[Hook(t, n)] \notin {"none", "waiting"}
  BY DEF ParseResubmits, Underway, ParsedOnce
<1>2. CASE Reservable(t) /\ Reserve(Parse(t, n), {t}) /\ Goto(Parse(t, n), "submitted")
  <2>1. {t} \in SUBSET Pending /\ Parse(t, n) \in Procs
    BY <1>2, JobsAre DEF Pending
  <2>2. /\ task'[t].status = "RUNNING" /\ \E f \in flight' : f.task = t
        /\ \A u \in Tasks : u # t => task'[u] = task[u] /\ attempt'[u] = attempt[u]
        /\ flight \subseteq flight'
        /\ \A f \in flight' : f \in flight \/ (f.by = Parse(t, n) /\ f.task = t)
    BY <1>2, <2>1, ReservingTakes
  <2>3. \A r \in Procs : step'[r] = IF r = Parse(t, n) THEN "submitted" ELSE step[r]
    BY <1>2, <2>1, JobGoes
  <2>4. \A r \in Procs \ {Hook(t, n), Parse(t, n), Derive(t, n)} : step'[r] = step[r]
    BY <2>3
  <2>5. /\ step'[Start] = step[Start]
        /\ \A u \in Tasks : \A m \in 1 .. MaxAttempts[u] : (u # t \/ m # n) =>
             /\ step'[Hook(u, m)] = step[Hook(u, m)]
             /\ step'[Parse(u, m)] = step[Parse(u, m)]
             /\ step'[Derive(u, m)] = step[Derive(u, m)]
    BY <2>4, OthersStay DEF IInv
  <2>6. step'[Parse(t, n)] = "submitted" /\ step'[Hook(t, n)] = step[Hook(t, n)]
    BY <2>3, JobsAre
  <2>7. StartIsFirst'
    BY <1>1, <2>5, StartStays
  <2>8. (\A f \in flight : FlightIsHeld(f))'
    <3> SUFFICES ASSUME NEW f \in flight' PROVE FlightIsHeld(f)'
      OBVIOUS
    <3>1. CASE f \in flight
      <4>1. f.by \in Procs /\ f.by # Parse(t, n)
        BY <1>1, <3>1 DEF Underway, FlightIsHeld, IInv, TypeOK, Flights
      <4>2. step'[f.by] = step[f.by]
        BY <2>3, <4>1
      <4>3. QED
        BY <3>1, <4>2 DEF Underway, FlightIsHeld
    <3>2. CASE f.by = Parse(t, n) /\ f.task = t
      BY <2>6, <3>2 DEF FlightIsHeld
    <3>3. QED
      BY <2>2, <3>1, <3>2
  <2>9. ASSUME NEW u \in Tasks, u # t PROVE Attended(u)' /\ ParsedOnce(u)'
    <3>1. PassedBy(u) /\ HeardOnce(u)
      BY <2>2, <2>5, <2>9 DEF PassedBy, HeardOnce
    <3>2. QED
      BY <2>5, <3>1, PassingBy, HearingOnce DEF Underway
  <2>10. Attended(t)' /\ ParsedOnce(t)'
    BY <1>1, <2>2, <2>5, <2>6 DEF Attended, ParsedOnce, Underway
  <2>11. EndIsSeen'
    BY <2>2 DEF EndIsSeen, Terminal
  <2>12. QED
    BY <2>7, <2>8, <2>9, <2>10, <2>11 DEF Underway
<1>3. CASE ~Reservable(t) /\ Goto(Parse(t, n), "failing") /\ UNCHANGED <<task, attempt, flight>>
  <2>1. \A r \in Procs : step'[r] = IF r = Parse(t, n) THEN "failing" ELSE step[r]
    BY <1>3, JobsAre, JobGoes
  <2>2. /\ step'[Parse(t, n)] = "failing"
        /\ step'[Hook(t, n)] = step[Hook(t, n)] /\ step'[Derive(t, n)] = step[Derive(t, n)]
    BY <2>1, JobsAre
  <2>3. Attended(t)'
    BY <1>3, <2>2 DEF Attended, MovesOn, Reservable
  <2>4. EndIsSeen'
    BY <2>2, JobsAre DEF EndIsSeen, Finishing
  <2>5. \A r \in Procs \ {Hook(t, n), Parse(t, n), Derive(t, n)} : step'[r] = step[r]
    BY <2>1
  <2>6. QED
    BY <1>1, <1>3, <2>2, <2>3, <2>4, <2>5, OwnTaskMoves
<1>4. QED
  BY <1>2, <1>3 DEF ParseResubmits

-----------------------------------------------------------------------------
\* The answers of submissions

\* Who made a submission has no other of the same task, and no other's step is
\* moved by its answer.
LEMMA AnswerMoves ==
  ASSUME IInv, Ongoing, Underway, NEW f \in flight
  PROVE  /\ f.task \in Tasks /\ f.no \in 1 .. MaxAttempts[f.task] /\ f.by \in Procs
         /\ step[Hook(f.task, f.no)] = "none"
         /\ step[f.by] = "submitted" =>
              /\ \E n \in 1 .. MaxAttempts[f.task] : f.by = Parse(f.task, n)
              /\ \A g \in flight : g.by = f.by => g = f
         /\ \A g \in flight : step[g.by] \in {"trying", "submitted"}
<1>1. f.task \in Tasks /\ f.by \in Procs
  BY DEF IInv, TypeOK, Flights
<1>2. FlightIsLatest(f)
  BY <1>1 DEF IInv, TaskInv, FlightsAreLatest
<1>3. f.no \in 1 .. MaxAttempts[f.task]
  BY <1>1, <1>2, NosAre DEF FlightIsLatest, IInv, TypeOK, TaskRows
<1>4. \A g \in flight : step[g.by] \in {"trying", "submitted"}
  BY DEF Underway, FlightIsHeld
<1>5. ASSUME step[f.by] = "submitted"
      PROVE  /\ \E n \in 1 .. MaxAttempts[f.task] : f.by = Parse(f.task, n)
             /\ \A g \in flight : g.by = f.by => g = f
  <2>1. \E n \in 1 .. MaxAttempts[f.task] : f.by = Parse(f.task, n)
    BY <1>5 DEF Underway, FlightIsHeld
  <2>2. ASSUME NEW g \in flight, g.by = f.by PROVE g = f
    <3>1. \E n \in 1 .. MaxAttempts[g.task] : g.by = Parse(g.task, n)
      BY <1>5, <2>2 DEF Underway, FlightIsHeld
    <3>2. g.task = f.task
      <4>1. PICK n : g.by = Parse(g.task, n)
        BY <3>1
      <4>2. PICK m : f.by = Parse(f.task, m)
        BY <2>1
      <4>3. Parse(g.task, n) = Parse(f.task, m)
        BY <2>2, <4>1, <4>2
      <4>4. QED
        BY <4>3 DEF Parse
    <3>3. QED
      BY <1>1, <3>2 DEF IInv, TaskInv, FlightsAreLatest
  <2>3. QED
    BY <2>1, <2>2
<1>6. QED
  BY <1>1, <1>2, <1>3, <1>4, <1>5 DEF FlightIsLatest

LEMMA RefusedOngoing ==
  ASSUME IInv, Ongoing, Underway, NEW f \in flight, Refused(f)
  PROVE  Underway'
<1> DEFINE t == f.task
<1>1. /\ t \in Tasks /\ f.no \in Nos /\ f.by \in Procs
      /\ step[f.by] = "submitted" =>
           /\ \E n \in 1 .. MaxAttempts[t] : f.by = Parse(t, n)
           /\ \A g \in flight : g.by = f.by => g = f
      /\ \A g \in flight : step[g.by] \in {"trying", "submitted"}
  BY AnswerMoves, NosAre
<1>2. /\ task'[t].status = "FAILED" /\ \A u \in Tasks : u # t => task'[u] = task[u]
      /\ \A u \in Tasks : u # t => attempt'[u] = attempt[u]
      /\ flight' = flight \ {f}
  BY <1>1, SettingTask DEF Refused, SetAttempt, Return, IInv, TypeOK
<1>3. \A r \in Procs : step'[r] = IF r = f.by /\ step[r] = "submitted" THEN "failing" ELSE step[r]
  BY <1>1 DEF Refused, Return, IInv, TypeOK
<1>4. \A r \in Procs : step'[r] # step[r] => \E n \in 1 .. MaxAttempts[t] : r = Parse(t, n) /\ step[r] = "submitted"
  BY <1>1, <1>3
<1>5. StartIsFirst'
  <2>1. step'[Start] = step[Start]
    BY <1>4, ProcsAre, ProcsDiffer
  <2>2. QED
    BY <2>1, StartStays
<1>6. (\A f_1 \in flight : FlightIsHeld(f_1))'
  <2>1. \A g \in flight' : step'[g.by] = step[g.by]
    BY <1>1, <1>2, <1>3 DEF IInv, TypeOK, Flights
  <2>2. QED
    BY <1>2, <2>1, FlightsStay DEF Underway
<1>7. ASSUME NEW u \in Tasks PROVE Attended(u)' /\ ParsedOnce(u)'
  <2>1. ASSUME NEW n \in 1 .. MaxAttempts[u]
        PROVE  /\ step'[Hook(u, n)] = step[Hook(u, n)] /\ step'[Derive(u, n)] = step[Derive(u, n)]
               /\ u # t => step'[Parse(u, n)] = step[Parse(u, n)]
               /\ step'[Parse(u, n)] = step[Parse(u, n)] \/ step[Parse(u, n)] = "submitted"
    <3>1. Hook(u, n) \in Procs /\ Parse(u, n) \in Procs /\ Derive(u, n) \in Procs
      BY JobsAre
    <3>2. \A m : /\ Hook(u, n) # Parse(t, m) /\ Derive(u, n) # Parse(t, m)
                 /\ u # t => Parse(u, n) # Parse(t, m)
      BY ProcsDiffer
    <3>3. QED
      BY <1>4, <3>1, <3>2
  <2>2. HeardOnce(u)
    BY <2>1 DEF HeardOnce
  <2>3. Attended(u)'
    <3>1. CASE u = t
      BY <1>2, <3>1 DEF Attended
    <3>2. CASE u # t
      <4>1. PassedBy(u)
        BY <1>2, <2>1, <3>2 DEF PassedBy
      <4>2. step'[Start] = step[Start]
        BY <1>4, ProcsAre, ProcsDiffer
      <4>3. QED
        BY <4>1, <4>2, PassingBy DEF Underway
    <3>3. QED
      BY <3>1, <3>2
  <2>4. QED
    BY <2>2, <2>3, HearingOnce DEF Underway
<1>8. EndIsSeen'
  <2>1. step'[f.by] \in {"trying", "failing"}
    BY <1>1, <1>3
  <2>2. QED
    BY <1>1, <2>1 DEF EndIsSeen, Finishing
<1>9. QED
  BY <1>5, <1>6, <1>7, <1>8 DEF Underway

LEMMA SubmittedOngoing ==
  ASSUME IInv, Ongoing, Ongoing', Underway, NEW f \in flight, Submitted(f)
  PROVE  Underway'
<1> DEFINE t == f.task
           n == f.no
<1>1. /\ t \in Tasks /\ n \in 1 .. MaxAttempts[t] /\ n \in Nos /\ f.by \in Procs
      /\ step[Hook(t, n)] = "none"
      /\ step[f.by] = "submitted" =>
           /\ \E m \in 1 .. MaxAttempts[t] : f.by = Parse(t, m)
           /\ \A g \in flight : g.by = f.by => g = f
      /\ \A g \in flight : step[g.by] \in {"trying", "submitted"}
  BY AnswerMoves, NosAre
<1>2. /\ task'[t].status = "RUNNING" /\ \A u \in Tasks : u # t => task'[u] = task[u]
      /\ attempt'[t][n] = "RUNNING" /\ \A u \in Tasks : u # t => attempt'[u] = attempt[u]
      /\ flight' = flight \ {f}
  BY <1>1, SettingTask DEF Submitted, SetAttempt, IInv, TypeOK
<1>3. step' = [step EXCEPT ![Hook(t, n)] = "waiting", ![f.by] = IF @ = "submitted" THEN "done" ELSE @]
  BY FaultsCount DEF Submitted, Ongoing, Untroubled, IInv
<1>4. Hook(t, n) \in Procs /\ Hook(t, n) # f.by
  BY <1>1, JobsAre
<1>5. \A r \in Procs : step'[r] = IF r = Hook(t, n) THEN "waiting"
                                  ELSE IF r = f.by /\ step[r] = "submitted" THEN "done" ELSE step[r]
  BY <1>1, <1>3, <1>4 DEF IInv, TypeOK
<1>6. \A r \in Procs : step'[r] # step[r] =>
        \/ r = Hook(t, n)
        \/ \E m \in 1 .. MaxAttempts[t] : r = Parse(t, m) /\ step[r] = "submitted" /\ step'[r] = "done"
  BY <1>1, <1>5
<1>7. step'[Start] = step[Start]
  BY <1>6, ProcsAre, ProcsDiffer
<1>8. StartIsFirst'
  BY <1>7, StartStays
<1>9. (\A f_1 \in flight : FlightIsHeld(f_1))'
  <2>1. \A g \in flight' : g.by \in Procs /\ g.by # Hook(t, n)
    BY <1>1, <1>2 DEF IInv, TypeOK, Flights
  <2>2. \A g \in flight' : step'[g.by] = step[g.by]
    BY <1>1, <1>2, <1>5, <2>1
  <2>3. QED
    BY <1>2, <2>2, FlightsStay DEF Underway
<1>10. ASSUME NEW u \in Tasks, u # t PROVE Attended(u)' /\ ParsedOnce(u)'
  <2>1. ASSUME NEW m \in 1 .. MaxAttempts[u]
        PROVE  /\ step'[Hook(u, m)] = step[Hook(u, m)] /\ step'[Derive(u, m)] = step[Derive(u, m)]
               /\ step'[Parse(u, m)] = step[Parse(u, m)]
    <3>1. Hook(u, m) \in Procs /\ Parse(u, m) \in Procs /\ Derive(u, m) \in Procs
      BY JobsAre
    <3>2. /\ Hook(u, m) # Hook(t, n) /\ Parse(u, m) # Hook(t, n) /\ Derive(u, m) # Hook(t, n)
          /\ \A k : Hook(u, m) # Parse(t, k) /\ Parse(u, m) # Parse(t, k) /\ Derive(u, m) # Parse(t, k)
      BY <1>10, ProcsDiffer
    <3>3. QED
      BY <1>6, <3>1, <3>2
  <2>2. PassedBy(u) /\ HeardOnce(u)
    BY <1>2, <1>10, <2>1 DEF PassedBy, HeardOnce
  <2>3. QED
    BY <1>7, <2>2, PassingBy, HearingOnce DEF Underway
<1>11. Attended(t)'
  <2>1. step'[Hook(t, n)] = "waiting"
    BY <1>4, <1>5
  <2>2. MovesOn(t, n)'
    BY <1>2, <2>1 DEF MovesOn
  <2>3. QED
    BY <1>1, <1>2, <2>2 DEF Attended
<1>12. ParsedOnce(t)'
  <2> SUFFICES ASSUME NEW m \in 1 .. MaxAttempts[t], step'[Hook(t, m)] \in {"none", "waiting"}
               PROVE  step'[Parse(t, m)] = "none"
    BY DEF ParsedOnce
  <2>1. step[Hook(t, m)] \in {"none", "waiting"}
    BY <1>1, <1>6, JobsAre, ProcsDiffer
  <2>2. step[Parse(t, m)] = "none"
    BY <1>1, <2>1 DEF Underway, ParsedOnce
  <2>3. Parse(t, m) \in Procs
    BY <1>1, JobsAre
  <2>4. Parse(t, m) # Hook(t, n)
    BY ProcsDiffer
  <2>5. QED
    BY <1>6, <2>2, <2>3, <2>4
<1>13. EndIsSeen'
  BY <1>1, <1>2 DEF EndIsSeen, Terminal
<1>14. QED
  BY <1>8, <1>9, <1>10, <1>11, <1>12, <1>13 DEF Underway

-----------------------------------------------------------------------------
\* What no step takes back

LEMMA FinalizeGoesBack ==
  ASSUME Finalize
  PROVE  job'.status = "RUNNING" => job.status = "RUNNING"
BY DEF Finalize, Transitions

Remembers == /\ faults' = 0 => faults = 0
             /\ seen \subseteq seen'
             /\ kept' => kept
             /\ job'.status = "RUNNING" => job.status = "RUNNING" \/ "revived" \in seen'

LEMMA FaultRemembers ==
  ASSUME TypeOK, Fault \/ faults' = faults
  PROVE  faults' = 0 => faults = 0
BY FaultsCount

LEMMA AttemptRemembers ==
  ASSUME IInv, NEW t \in Tasks, NEW n \in 1 .. MaxAttempts[t], Attempt(t, n)
  PROVE  Remembers
<1>1. CASE ParseEnds(t, n) \/ DeriveEnds(t, n)
  <2>1. PICK p, s, unlocks : FinalizeThen(p, s, unlocks) /\ seen' = seen
    BY <1>1 DEF ParseEnds, DeriveEnds
  <2>2. Finalize /\ (Fault \/ faults' = faults)
    BY <2>1 DEF FinalizeThen
  <2>3. kept' = kept \/ kept' = (kept /\ ~Releases(unlocks))
    BY <2>1 DEF FinalizeThen
  <2>4. kept' => kept
    BY <2>3
  <2>5. QED
    BY <2>1, <2>2, <2>4, FinalizeGoesBack, FaultRemembers DEF Remembers, IInv
<1>2. CASE ~ParseEnds(t, n) /\ ~DeriveEnds(t, n)
  <2>1. job' = job /\ (kept' <=> kept) /\ seen' = seen /\ (Fault \/ faults' = faults)
    BY <1>2 DEF Attempt, HookSkips, HookCompleted, HookFailed, ParseStarts, ParseSucceeds,
                ParseFails, ParseResubmits, ParseGivesUp, DeriveSucceeds, DeriveThrows, rows
  <2>2. QED
    BY <2>1, FaultRemembers DEF Remembers, IInv
<1>3. QED
  BY <1>1, <1>2

LEMMA SubmissionRemembers ==
  ASSUME IInv, Submission
  PROVE  Remembers
<1>1. ASSUME NEW f \in flight, LimitReached(f) \/ Refused(f) \/ Submitted(f) PROVE Remembers
  <2>1. /\ (kept' <=> kept) /\ (Fault \/ faults' = faults)
        /\ \/ job' = job /\ seen' = seen
           \/ /\ seen' = IF job.status = "RUNNING" THEN seen ELSE seen \cup {"revived"}
    BY <1>1 DEF LimitReached, Refused, Submitted
  <2>2. QED
    BY <2>1, FaultRemembers DEF Remembers, IInv
<1>2. ASSUME NEW p \in Submitters, BeginSubmit(p) \/ SkipSubmit(p) PROVE Remembers
  <2>1. (kept' <=> kept) /\ faults' = faults /\ job' = job /\ seen' = seen
    BY <1>2 DEF BeginSubmit, SkipSubmit, rows
  <2>2. QED
    BY <2>1 DEF Remembers
<1>3. ASSUME NEW p \in Submitters, EndSubmit(p) \/ SubmitNothing(p) PROVE Remembers
  <2>1. /\ (kept' <=> kept) /\ faults' = faults
        /\ (Finalize /\ seen \subseteq seen') \/ (job' = job /\ seen' = seen)
    BY <1>3 DEF EndSubmit, SubmitNothing, FinalizeOnly
  <2>2. QED
    BY <2>1, FinalizeGoesBack DEF Remembers
<1>4. CASE SlotExpires
  <2>1. (kept' <=> kept) /\ Fault /\ job' = job /\ seen' = seen
    BY <1>4 DEF SlotExpires, rows
  <2>2. QED
    BY <2>1, FaultRemembers DEF Remembers, IInv
<1>5. QED
  BY <1>1, <1>2, <1>3, <1>4 DEF Submission

LEMMA OthersRemember ==
  ASSUME IInv, PublishRuns \/ PublishUnlocks \/ PublishThrows \/ Sweep \/ StopScan \/ \E p \in Procs : Dies(p)
  PROVE  Remembers
<1>1. (kept' => kept) /\ (Fault \/ faults' = faults) /\ seen' = seen
  BY DEF PublishRuns, PublishUnlocks, PublishThrows, Sweep, StopScan, Dies
<1>2. job'.status = "RUNNING" => job.status = "RUNNING"
  <2>1. CASE PublishRuns
    <3>1. job' = job \/ \E q \in {"PUBLISHED", "NOT_PUBLISHED"} : job' = [job EXCEPT !.publish = q]
      BY <2>1 DEF PublishRuns
    <3>2. QED
      BY <3>1 DEF IInv, TypeOK, JobRows
  <2>2. CASE PublishUnlocks \/ PublishThrows \/ \E p \in Procs : Dies(p)
    BY <2>2 DEF PublishUnlocks, PublishThrows, Dies, rows
  <2>3. CASE Sweep \/ StopScan
    BY <2>3 DEF Sweep, StopScan, IInv, TypeOK, JobRows
  <2>4. QED
    BY <2>1, <2>2, <2>3
<1>3. QED
  BY <1>1, <1>2, FaultRemembers DEF Remembers, IInv

LEMMA StepRemembers ==
  ASSUME IInv, Next
  PROVE  Remembers
<1>1. ASSUME NEW x \in Tries, Attempt(x[1], x[2]) PROVE Remembers
  <2>1. x[1] \in Tasks /\ x[2] \in 1 .. MaxAttempts[x[1]]
    BY NosAre
  <2>2. QED
    BY <1>1, <2>1, AttemptRemembers
<1>2. QED
  BY <1>1, SubmissionRemembers, OthersRemember DEF Next

-----------------------------------------------------------------------------
\* Who goes on is attended to.

LEMMA UnderwayKeeps ==
  ASSUME IInv, Ongoing => Underway, Next, Ongoing', Cardinality(Tasks) <= Slots
  PROVE  Underway'
<1>1. Ongoing /\ Underway
  BY StepRemembers DEF Remembers, Ongoing, Untroubled
<1>2. ~Fault
  BY FaultsCount DEF Ongoing, Untroubled, IInv
<1>3. CASE Submission
  BY <1>1, <1>2, <1>3, RefusedOngoing, SubmittedOngoing, BeginSubmitOngoing, SkipSubmitOngoing,
     EndSubmitOngoing, SubmitNothingOngoing DEF Submission, LimitReached, SlotExpires
<1>4. ASSUME NEW x \in Tries, Attempt(x[1], x[2]) PROVE Underway'
  <2> DEFINE t == x[1]
             n == x[2]
  <2>1. t \in Tasks /\ n \in 1 .. MaxAttempts[t]
    BY NosAre
  <2>2. CASE HookSkips(t, n) \/ HookCompleted(t, n) \/ HookFailed(t, n)
    BY <1>1, <2>1, <2>2, HookSkipsOngoing, HookCompletedOngoing, HookFailedOngoing
  <2>3. CASE ParseStarts(t, n) \/ ParseSucceeds(t, n) \/ ParseFails(t, n)
    BY <1>1, <2>1, <2>3, ParseStartsOngoing, ParseSucceedsOngoing, ParseFailsOngoing
  <2>4. CASE ParseResubmits(t, n) \/ ParseGivesUp(t, n) \/ ParseEnds(t, n)
    BY <1>1, <2>1, <2>4, ParseResubmitsOngoing, ParseGivesUpOngoing, ParseEndsOngoing
  <2>5. CASE DeriveSucceeds(t, n) \/ DeriveEnds(t, n)
    BY <1>1, <2>1, <2>5, DeriveSucceedsOngoing, DeriveEndsOngoing
  <2>6. ~DeriveThrows(t, n)
    BY <1>2 DEF DeriveThrows
  <2>7. QED
    BY <1>4, <2>2, <2>3, <2>4, <2>5, <2>6 DEF Attempt
<1>5. ~PublishRuns /\ ~PublishUnlocks /\ ~PublishThrows
  BY <1>1 DEF Ongoing, Untroubled, IInv, PublishFollowsEnd, PublishRuns, PublishUnlocks, PublishThrows
<1>6. ~Sweep /\ ~StopScan
  BY DEF Ongoing, Sweep, StopScan, IInv, TypeOK, JobRows
<1>7. \A p \in Procs : ~Dies(p)
  BY <1>2 DEF Dies
<1>8. QED
  BY <1>3, <1>4, <1>5, <1>6, <1>7 DEF Next

-----------------------------------------------------------------------------
\* What has succeeded is published.

LEMMA PublicationStays ==
  ASSUME PublicationFollows, Remembers, job' = job,
         \/ step'[Publish] = step[Publish]
         \/ ~Untroubled'
         \/ step[Publish] \notin {"waiting", "unlocking", "done"}
  PROVE  PublicationFollows'
BY DEF PublicationFollows, Remembers, Untroubled

\* A scan that ends has its publication enqueued, or its end went unnoticed.
LEMMA EndIsPublished ==
  ASSUME IInv, PublicationFollows, Remembers, Finalize,
         Publishes => \/ step'[Publish] = "waiting"
                      \/ "unnoticed" \in seen'
                      \/ ~Untroubled',
         ~Publishes => step'[Publish] = step[Publish]
  PROVE  PublicationFollows'
<1>1. CASE Transitions
  <2>1. job' = [status |-> FinalStatus, types |-> Won,
                publish |-> IF FinalStatus = "FAILED" THEN "NOT_PUBLISHED" ELSE "PENDING"]
    BY <1>1 DEF Finalize
  <2>2. CASE FinalStatus \in Succeeded
    <3>1. Won # {}
      BY <2>2, PipelineAssumption DEF FinalStatus, Succeeded, PipelineAssumption
    <3>2. \/ step'[Publish] = "waiting"
          \/ "unnoticed" \in seen'
          \/ ~Untroubled'
      BY <1>1, <2>2 DEF Publishes
    <3>3. QED
      BY <2>1, <3>1, <3>2 DEF PublicationFollows
  <2>3. CASE FinalStatus \notin Succeeded
    BY <2>1, <2>3 DEF PublicationFollows
  <2>4. QED
    BY <2>2, <2>3
<1>2. CASE ~Transitions
  BY <1>2, PublicationStays DEF Finalize, Publishes
<1>3. QED
  BY <1>1, <1>2

LEMMA FinalizeThenPublishes ==
  ASSUME IInv, PublicationFollows, Remembers, NEW p \in Procs \ {Publish}, NEW s, NEW unlocks,
         FinalizeThen(p, s, unlocks)
  PROVE  PublicationFollows'
<1>1. Publish \in Procs
  BY ProcsAre
<1>2. CASE Publishes /\ EnqueueAnd(p, s, Publish)
  <2>1. step[Publish] = "none" \/ "revived" \in seen
    BY <1>2 DEF IInv, PublishFollowsEnd, Publishes, Transitions
  <2>2. step[Publish] = "none" => step'[Publish] = "waiting"
    BY <1>1, <1>2, JobEnqueues
  <2>3. QED
    BY <1>2, <2>1, <2>2, EndIsPublished DEF FinalizeThen, Remembers, Untroubled
<1>3. CASE ~Publishes /\ Goto(p, s)
  <2>1. step'[Publish] = step[Publish]
    BY <1>1, <1>3, JobGoes
  <2>2. QED
    BY <1>3, <2>1, EndIsPublished DEF FinalizeThen
<1>4. CASE Fault /\ Goto(p, "waiting")
  <2>1. step'[Publish] = step[Publish] /\ ~Untroubled'
    BY <1>1, <1>4, JobGoes, FaultsCount DEF IInv, Untroubled
  <2>2. QED
    BY <2>1, EndIsPublished DEF FinalizeThen
<1>5. QED
  BY <1>2, <1>3, <1>4 DEF FinalizeThen

LEMMA FinalizeOnlyPublishes ==
  ASSUME IInv, PublicationFollows, Remembers, NEW p \in Procs \ {Publish}, NEW s, FinalizeOnly(p, s)
  PROVE  PublicationFollows'
<1>1. step'[Publish] = step[Publish]
  BY ProcsAre, JobGoes DEF FinalizeOnly
<1>2. Publishes => "unnoticed" \in seen'
  BY DEF FinalizeOnly
<1>3. QED
  BY <1>1, <1>2, EndIsPublished DEF FinalizeOnly

LEMMA AttemptPublishes ==
  ASSUME IInv, PublicationFollows, Remembers, NEW t \in Tasks, NEW n \in 1 .. MaxAttempts[t], Attempt(t, n)
  PROVE  PublicationFollows'
<1>1. /\ Hook(t, n) \in Procs \ {Publish} /\ Parse(t, n) \in Procs \ {Publish}
      /\ Derive(t, n) \in Procs \ {Publish} /\ Publish \in Procs
  BY JobsAre, ProcsAre
<1>2. CASE ParseEnds(t, n)
  BY <1>1, <1>2, FinalizeThenPublishes DEF ParseEnds
<1>3. CASE DeriveEnds(t, n)
  BY <1>1, <1>3, FinalizeThenPublishes DEF DeriveEnds
<1>4. CASE ~ParseEnds(t, n) /\ ~DeriveEnds(t, n)
  <2>1. /\ job' = job
        /\ \/ step' = step
           \/ \E p \in {Hook(t, n), Parse(t, n), Derive(t, n)}, s \in Steps : Goto(p, s)
           \/ \E p, q \in {Hook(t, n), Parse(t, n), Derive(t, n)}, s \in Steps : EnqueueAnd(p, s, q)
    BY <1>4 DEF Attempt, HookSkips, HookCompleted, HookFailed, ParseStarts, ParseSucceeds,
                ParseFails, ParseResubmits, ParseGivesUp, DeriveSucceeds, DeriveThrows, rows,
                Steps, Resting
  <2>2. step'[Publish] = step[Publish]
    BY <1>1, <2>1 DEF Goto, EnqueueAnd, IInv, TypeOK
  <2>3. QED
    BY <2>1, <2>2, PublicationStays
<1>5. QED
  BY <1>2, <1>3, <1>4

LEMMA SubmissionPublishes ==
  ASSUME IInv, PublicationFollows, Remembers, Submission
  PROVE  PublicationFollows'
<1>1. Publish \in Procs /\ \A p \in Submitters : p \in Procs \ {Publish}
  BY ProcsAre
<1>2. ASSUME NEW f \in flight, LimitReached(f) \/ Refused(f) PROVE PublicationFollows'
  <2>1. job' = job /\ \E s : Return(f, s)
    BY <1>2 DEF LimitReached, Refused
  <2>2. step'[Publish] = step[Publish] \/ step[Publish] = "submitted"
    BY <1>1, <2>1 DEF Return, IInv, TypeOK
  <2>3. QED
    BY <2>1, <2>2, PublicationStays
<1>3. ASSUME NEW f \in flight, Submitted(f) PROVE PublicationFollows'
  <2>1. job'.status = "RUNNING"
    BY <1>3 DEF Submitted, IInv, TypeOK, JobRows
  <2>2. QED
    BY <2>1 DEF PublicationFollows, Succeeded
<1>4. ASSUME NEW p \in Submitters, BeginSubmit(p) \/ SkipSubmit(p) PROVE PublicationFollows'
  <2>1. job' = job /\ \E s : Goto(p, s)
    BY <1>4 DEF BeginSubmit, SkipSubmit, rows
  <2>2. step'[Publish] = step[Publish]
    BY <1>1, <2>1, JobGoes
  <2>3. QED
    BY <2>1, <2>2, PublicationStays
<1>5. ASSUME NEW p \in Submitters, EndSubmit(p) PROVE PublicationFollows'
  <2>1. CASE p = Start
    BY <1>1, <1>5, <2>1, FinalizeOnlyPublishes DEF EndSubmit
  <2>2. CASE p # Start
    <3>1. job' = job /\ Goto(p, "finalizing")
      BY <1>5, <2>2 DEF EndSubmit
    <3>2. step'[Publish] = step[Publish]
      BY <1>1, <3>1, JobGoes
    <3>3. QED
      BY <3>1, <3>2, PublicationStays
  <2>3. QED
    BY <2>1, <2>2
<1>6. ASSUME NEW p \in Submitters, SubmitNothing(p) PROVE PublicationFollows'
  BY <1>1, <1>6, FinalizeOnlyPublishes DEF SubmitNothing
<1>7. CASE SlotExpires
  <2>1. job' = job /\ step' = step
    BY <1>7 DEF SlotExpires, rows
  <2>2. QED
    BY <2>1, PublicationStays
<1>8. QED
  BY <1>2, <1>3, <1>4, <1>5, <1>6, <1>7 DEF Submission

LEMMA OthersPublish ==
  ASSUME IInv, PublicationFollows, Remembers,
         PublishRuns \/ PublishUnlocks \/ PublishThrows \/ Sweep \/ StopScan \/ \E p \in Procs : Dies(p)
  PROVE  PublicationFollows'
<1>1. Publish \in Procs
  BY ProcsAre
<1>2. CASE PublishRuns
  <2>1. step'[Publish] = "unlocking"
    BY <1>1, <1>2, JobGoes DEF PublishRuns
  <2>2. \/ job' = [job EXCEPT !.publish = "PUBLISHED"]
        \/ job' = [job EXCEPT !.publish = "NOT_PUBLISHED"] /\ (job.types = {} \/ job.status = "FAILED")
        \/ job' = job /\ (job.status \in Succeeded => job.publish = "PUBLISHED")
    BY <1>2 DEF PublishRuns, Publishable
  <2>3. /\ job'.status = job.status /\ job'.types = job.types
        /\ \/ job'.publish = "PUBLISHED" \/ job.types = {} \/ job.status \notin Succeeded
    BY <2>2 DEF IInv, TypeOK, JobRows, Succeeded
  <2>4. QED
    BY <2>1, <2>3 DEF PublicationFollows, Remembers, Untroubled
<1>3. CASE PublishUnlocks
  <2>1. job' = job /\ ~kept' /\ step[Publish] = "unlocking" /\ step'[Publish] = "done"
    BY <1>1, <1>3, JobGoes DEF PublishUnlocks, rows
  <2>2. QED
    BY <2>1 DEF PublicationFollows, Remembers, Untroubled
<1>4. CASE PublishThrows \/ \E p \in Procs : Dies(p)
  <2>1. job' = job /\ Fault
    BY <1>4 DEF PublishThrows, Dies, rows
  <2>2. ~Untroubled'
    BY <2>1, FaultsCount DEF IInv, Untroubled
  <2>3. QED
    BY <2>1, <2>2, PublicationStays
<1>5. CASE Sweep \/ StopScan
  <2>1. job'.status = "FAILED"
    BY <1>5 DEF Sweep, StopScan, IInv, TypeOK, JobRows
  <2>2. QED
    BY <2>1 DEF PublicationFollows, Succeeded
<1>6. QED
  BY <1>2, <1>3, <1>4, <1>5

LEMMA CompletionKeeps ==
  ASSUME Cardinality(Tasks) <= Slots
  PROVE  IInv /\ CompletionInv /\ [Next]_vars => CompletionInv'
<1> SUFFICES ASSUME IInv, CompletionInv, [Next]_vars PROVE CompletionInv'
  OBVIOUS
<1>1. CASE UNCHANGED vars
  <2>1. UNCHANGED <<job, task, attempt, flight, slot, step, kept, seen, faults>>
    BY <1>1 DEF vars, rows, submits
  <2>2. QED
    BY <2>1 DEF CompletionInv, Ongoing, Untroubled, Underway, StartIsFirst, FlightIsHeld, Attended,
                MovesOn, ParsedOnce, EndIsSeen, Terminal, PublicationFollows
<1>2. CASE Next
  <2>1. Remembers
    BY <1>2, StepRemembers
  <2>2. PublicationFollows'
    <3>1. ASSUME NEW x \in Tries, Attempt(x[1], x[2]) PROVE PublicationFollows'
      <4>1. x[1] \in Tasks /\ x[2] \in 1 .. MaxAttempts[x[1]]
        BY NosAre
      <4>2. QED
        BY <2>1, <3>1, <4>1, AttemptPublishes DEF CompletionInv
    <3>2. QED
      BY <1>2, <2>1, <3>1, SubmissionPublishes, OthersPublish DEF Next, CompletionInv
  <2>3. QED
    BY <1>2, <2>2, UnderwayKeeps DEF CompletionInv
<1>3. QED
  BY <1>1, <1>2

LEMMA CompletionInit == Init => CompletionInv
<1> SUFFICES ASSUME Init PROVE CompletionInv
  OBVIOUS
<1>1. step[Start] = "waiting" /\ \A t \in Tasks : \A n \in 1 .. MaxAttempts[t] :
        step[Hook(t, n)] = "none" /\ step[Parse(t, n)] = "none"
  BY JobsAre, ProcsAre, ProcsDiffer DEF Init
<1>2. StartIsFirst
  BY <1>1 DEF Init, StartIsFirst
<1>3. \A t \in Tasks : Attended(t) /\ ParsedOnce(t)
  BY <1>1 DEF Init, Attended, ParsedOnce
<1>4. EndIsSeen
  BY PipelineAssumption DEF Init, EndIsSeen, Terminal, PipelineAssumption
<1>5. PublicationFollows
  BY DEF Init, PublicationFollows, Succeeded
<1>6. QED
  BY <1>2, <1>3, <1>4, <1>5 DEF CompletionInv, Underway, Init

\* Undisturbed, a scan with nothing under way is over, and published if it succeeded:
\* what UndisturbedCompletes checks of an instance.
THEOREM Completes == Spec => []UndisturbedCompletes
<1>1. CASE Cardinality(Tasks) <= Slots
  <2>1. IInv /\ CompletionInv => UndisturbedCompletes
    <3> SUFFICES ASSUME IInv, CompletionInv, Quiet, Untroubled
                 PROVE  /\ job.status # "RUNNING"
                        /\ job.status \in Succeeded =>
                             (job.publish = "PUBLISHED" /\ ~kept) \/ "unnoticed" \in seen
      BY DEF UndisturbedCompletes, Untroubled
    <3>1. \A p \in Procs : step[p] \in Resting
      BY DEF Quiet
    <3>2. ASSUME job.status = "RUNNING" PROVE FALSE
      <4>1. Underway
        BY <3>2 DEF CompletionInv, Ongoing
      <4>2. ~Terminal
        BY <3>1, <4>1 DEF Underway, EndIsSeen, Finishing, Resting
      <4>3. PICK t \in Tasks : task[t].status \in {"PENDING", "RUNNING"}
        BY <4>2 DEF Terminal
      <4>4. \A n \in 1 .. MaxAttempts[t] : {Hook(t, n), Parse(t, n), Derive(t, n)} \subseteq Procs
        BY JobsAre
      <4>5. step[Start] # "waiting" /\ flight = {}
        BY <3>1, ProcsAre DEF Quiet, Resting
      <4>6. \A n \in 1 .. MaxAttempts[t] : step[Parse(t, n)] # "retrying" /\ ~MovesOn(t, n)
        BY <3>1, <4>4 DEF MovesOn, Resting
      <4>7. QED
        BY <4>1, <4>3, <4>5, <4>6 DEF Underway, Attended
    <3>3. step[Publish] \notin {"waiting", "unlocking"}
      BY <3>1, ProcsAre DEF Resting
    <3>4. QED
      BY <3>2, <3>3 DEF CompletionInv, PublicationFollows
  <2>2. Spec => [](IInv /\ CompletionInv)
    BY <1>1, Invariant, CompletionInit, CompletionKeeps, PTL DEF Spec
  <2>3. QED
    BY <2>1, <2>2, PTL
<1>2. CASE ~(Cardinality(Tasks) <= Slots)
  <2>1. UndisturbedCompletes
    BY <1>2 DEF UndisturbedCompletes
  <2>2. QED
    BY <2>1, PTL
<1>3. QED
  BY <1>1, <1>2
=============================================================================
