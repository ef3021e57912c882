---------------------------- MODULE MonthlyGrant ----------------------------
(***************************************************************************)
(* The daily job that gives every shop of the FREE plan its credits of the *)
(* month.  It reads the shops, then the buckets they have, and then grants *)
(* one by one, while shops come and go, change their plan, get the bucket  *)
(* from their installation, and the month ends.  A grant that fails is     *)
(* passed over; the job is repeated when all fail.                         *)
(***************************************************************************)
EXTENDS Naturals

CONSTANTS Shops,
          Months,     \* number of months
          MaxMoves,   \* bound on what shops do
          MaxFaults   \* bound on grants that fail

VARIABLES month,
          account,    \* shop -> its row, for the job: the plan of an installed one
          buckets,    \* FREE_MONTHLY_INCLUDED buckets, by the shop and the month
          job,        \* the job: its step, month, and the shops it still has to do
          moves, faults

vars == <<month, account, buckets, job, moves, faults>>

-----------------------------------------------------------------------------
Accounts == {"NONE", "FREE", "PAID", "LEFT"}
Buckets == Shops \X (1 .. Months)

Idle == [step |-> "idle", month |-> 1, shops |-> {}]

Init == /\ month = 1
        /\ account \in [Shops -> {"NONE", "FREE"}]
        /\ buckets = {}
        /\ job = Idle
        /\ moves = 0 /\ faults = 0

\* bootstrapShopBilling of an installation, or of any authentication: the bucket of
\* the month, which the request may die before.
Arrive(s) ==
  /\ moves < MaxMoves /\ moves' = moves + 1
  /\ account' = [account EXCEPT ![s] = IF @ \in {"NONE", "LEFT"} THEN "FREE" ELSE @]
  /\ buckets' \in {buckets, buckets \cup {<<s, month>>}}
  /\ UNCHANGED <<month, job, faults>>

\* What webhooks, the deletion of a shop (with its buckets) and billing do
Move(s, to) ==
  /\ moves < MaxMoves /\ moves' = moves + 1
  /\ <<account[s], to>> \in {<<"FREE", "PAID">>, <<"PAID", "FREE">>, <<"FREE", "LEFT">>,
                             <<"PAID", "LEFT">>, <<"LEFT", "NONE">>}
  /\ account' = [account EXCEPT ![s] = to]
  /\ buckets' = IF to = "NONE" THEN {b \in buckets : b[1] # s} ELSE buckets
  /\ UNCHANGED <<month, job, faults>>

NextMonth ==
  /\ month < Months
  /\ month' = month + 1
  /\ UNCHANGED <<account, buckets, job, moves, faults>>

-----------------------------------------------------------------------------
\* grantFreeMonthlyToAllShops, daily or as a retry: the installed shops of the FREE
\* plan, ...
ReadShops ==
  /\ job = Idle
  /\ LET free == {s \in Shops : account[s] = "FREE"}
     IN  /\ free # {}
         /\ job' = [step |-> "buckets", month |-> month, shops |-> free]
  /\ UNCHANGED <<month, account, buckets, moves, faults>>

\* Mutant of HasBucket: the month of the bucket is not looked at.
HasAnyBucket(s, m) == \E n \in 1 .. Months : <<s, n>> \in buckets

HasBucket(s, m) == <<s, m>> \in buckets

\* ... those of them without a bucket of the month, ...
ReadBuckets ==
  /\ job.step = "buckets"
  /\ job' = [job EXCEPT !.step = "grant", !.shops = {s \in job.shops : ~HasBucket(s, job.month)}]
  /\ UNCHANGED <<month, account, buckets, moves, faults>>

\* ... and for each a grant, by the key of the bucket; a shop that is gone fails.
Grant(s) ==
  /\ job.step = "grant" /\ s \in job.shops
  /\ job' = [job EXCEPT !.shops = @ \ {s}]
  /\ IF account[s] = "NONE"
     THEN UNCHANGED buckets
     ELSE buckets' = buckets \cup {<<s, job.month>>}
  /\ UNCHANGED <<month, account, moves, faults>>

GrantFails(s) ==
  /\ faults < MaxFaults
  /\ job.step = "grant" /\ s \in job.shops
  /\ faults' = faults + 1
  /\ job' = [job EXCEPT !.shops = @ \ {s}]
  /\ UNCHANGED <<month, account, buckets, moves>>

\* processQuotaGrantJob throws when grants failed and none was made, to be retried: a
\* retry is another run, for the month that it is then, as the next day's is.
End ==
  /\ job.step = "grant" /\ job.shops = {}
  /\ job' = Idle
  /\ UNCHANGED <<month, account, buckets, moves, faults>>

JobStep == ReadShops \/ ReadBuckets \/ (\E s \in Shops : Grant(s)) \/ End

Next == \/ \E s \in Shops : Arrive(s) \/ (\E to \in Accounts : Move(s, to)) \/ GrantFails(s)
        \/ NextMonth
        \/ JobStep

\* The scheduler starts the job every day, and the worker runs it.
Fairness == WF_vars(JobStep)

Spec == Init /\ [][Next]_vars /\ Fairness

-----------------------------------------------------------------------------
\* Properties

TypeOK ==
  /\ month \in 1 .. Months
  /\ account \in [Shops -> Accounts]
  /\ buckets \subseteq Buckets
  /\ job \in [step : {"idle", "buckets", "grant"}, month : 1 .. Months, shops : SUBSET Shops]
  /\ moves \in 0 .. MaxMoves /\ faults \in 0 .. MaxFaults

\* No shop of the FREE plan goes without the credits of the month for ever: it gets
\* them, unless the month ends or it leaves the plan.  A grant that failed beside others
\* and was swallowed, or a bootstrap that died before it, is made up for the next day.
Owed(s) == account[s] = "FREE" /\ <<s, month>> \notin buckets

FreeShopIsGranted == \A s \in Shops : Owed(s) ~> ~Owed(s)
=============================================================================
