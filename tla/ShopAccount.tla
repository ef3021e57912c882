---------------------------- MODULE ShopAccount ----------------------------
(***************************************************************************)
(* What the app keeps of a shop's money: what it subscribed to and paid    *)
(* for (Billing), and its free credits of each month (MonthlyGrant).  The  *)
(* two write rows of their own; where the grants need the plan, a change   *)
(* of it is a step of the environment there.  So one of the two subjects   *)
(* is looked at at a time.                                                 *)
(***************************************************************************)
EXTENDS Billing

CONSTANTS Shops, Months, MaxMoves

VARIABLES subject, month, account, monthly, job, moves

billingVars == <<shopify, subscription, credits, purchase, call, overlapped>>
monthlyVars == <<month, account, monthly, job, moves>>
accountVars == <<subject, billingVars, monthlyVars, faults>>

-----------------------------------------------------------------------------
Monthly == INSTANCE MonthlyGrant WITH buckets <- monthly

AccountInit ==
  /\ subject \in {"billing", "monthly"}
  /\ Init /\ Monthly!Init
  /\ subject = "billing" => account = [s \in Shops |-> "NONE"]

AccountNext ==
  \/ subject = "billing" /\ Next /\ UNCHANGED <<subject, monthlyVars>>
  \/ subject = "monthly" /\ Monthly!Next /\ UNCHANGED <<subject, billingVars>>

\* The fairness of each subject, while it is looked at
AccountFairness ==
  /\ WF_vars(subject = "billing" /\ BeginSync(Worker))
  /\ WF_vars(subject = "billing" /\ CallStep(Worker))
  /\ WF_monthlyVars(subject = "monthly" /\ Monthly!JobStep)

AccountSpec == AccountInit /\ [][AccountNext]_accountVars /\ AccountFairness

-----------------------------------------------------------------------------
\* A shop of the FREE plan gets the credits of the month, unless the month ends or it
\* leaves the plan.
FreeShopIsGranted == subject = "monthly" => Monthly!FreeShopIsGranted
=============================================================================
