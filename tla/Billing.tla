------------------------------ MODULE Billing ------------------------------
(***************************************************************************)
(* The plan of one shop and what it paid for: the subscriptions Shopify    *)
(* has, their local rows, the plan of the shop row, and the overage packs. *)
(*                                                                         *)
(* Shopify is asked and then the local rows are written, in transactions   *)
(* of their own: by the callback and the webhook of a subscription, by the *)
(* scheduled synchronisation of all shops (which alone also grants the     *)
(* credits of a change), by the downgrade to Free and by the bootstrap of  *)
(* every authentication.  A pack is bought in two requests, with the       *)
(* merchant's approval between them.  Each action is one transaction or    *)
(* one call to Shopify; every other request may run in between, and a      *)
(* request may end after any of them.                                      *)
(***************************************************************************)
EXTENDS Integers, FiniteSets

CONSTANTS Subs,        \* Shopify's app subscriptions, of one paid plan each
          Packs,       \* purchases of overage packs
          Requests,    \* web requests that can be served at a time, ...
          Reloads,     \* ... and those of them that only load a callback again
          Worker,      \* the scheduled synchronisation
          None,        \* no subscription: the plan is FREE
          MaxFaults    \* bound on exceptions and crashes

ASSUME BillingAssumption ==
  /\ None \notin Subs /\ Worker \notin Requests /\ Reloads \subseteq Requests /\ IsFiniteSet(Subs)
  /\ MaxFaults \in Nat

VARIABLES shopify,       \* subscription -> its status in Shopify
          row,           \* subscription -> status of its billing_subscription row
          freeRows,      \* number of ACTIVE rows of the FREE plan
          plan,          \* subscription whose plan shop.current_plan names, or None
          incremental,   \* incremental_scan_enabled of the shop
          bonus,         \* first_paid_bonus_granted_at of the shop is set
          buckets,       \* credit buckets of the paid plans and packs
          purchase,      \* pack -> its overage_pack_purchase row
          call,          \* request or worker -> the step it is at
          overlapped,    \* two writers of the rows and the plan have met
          faults         \* exceptions and crashes so far

subscription == <<row, freeRows, plan, incremental>>
credits == <<bonus, buckets>>
vars == <<shopify, subscription, credits, purchase, call, overlapped, faults>>

-----------------------------------------------------------------------------
Calls == Requests \cup {Worker}

\* The unique (shop, type, cycle key) of a bucket
Buckets == {<<"WELCOME", "FIRST_PAID">>}
 \cup {<<"OVERAGE_PACK", p>> : p \in Packs}

Purchases == [status : {"NONE", "PENDING", "PURCHASED", "FAILED"}, external : BOOLEAN]

\* A request is its kind, its next step and the subscription or pack it is about.
Idle == [kind |-> "none", step |-> "idle", of |-> None]

Syncs == {"callback", "scheduled"}
SyncSteps == {"lookup", "update", "shop", "create"}
ApplySteps == {"welcome", "flag", "enable"}
CallRows == {Idle}
  \cup [kind : Syncs, step : {"query"}, of : {None}]
  \cup [kind : Syncs, step : SyncSteps, of : Subs]
  \cup [kind : {"scheduled"}, step : ApplySteps, of : Subs]
  \cup [kind : {"downgrade"}, step : {"query", "local"}, of : {None}]
  \cup [kind : {"downgrade"}, step : {"cancel", "local"}, of : Subs]
  \cup [kind : {"bootstrap"}, step : {"find", "insert"}, of : {None}]
  \cup [kind : {"buy"}, step : {"offer", "record"}, of : Packs]
  \cup [kind : {"fulfil"}, step : {"check", "mark", "credit"}, of : Packs]

At(k, kinds, step) == call[k].kind \in kinds /\ call[k].step = step
Step(k, step) == call' = [call EXCEPT ![k].step = step]
StepFor(k, step, s) == call' = [call EXCEPT ![k].of = s, ![k].step = step]
Ends(k) == call' = [call EXCEPT ![k] = Idle]

\* The requests that write the rows and the plan
Writers == Syncs \cup {"downgrade"}
Writing(k) == call[k].kind \in Writers

Init == /\ shopify = [s \in Subs |-> "NONE"]
        /\ row = [s \in Subs |-> "NONE"]
        /\ freeRows = 1
        /\ plan = None
        /\ incremental = FALSE
        /\ bonus = FALSE
        /\ buckets = {}
        /\ purchase = [p \in Packs |-> [status |-> "NONE", external |-> FALSE]]
        /\ call = [k \in Calls |-> Idle]
        /\ overlapped = FALSE
        /\ faults = 0

Begin(k, kind, step, of) ==
  /\ call[k] = Idle
  /\ call' = [call EXCEPT ![k] = [kind |-> kind, step |-> step, of |-> of]]
  /\ overlapped' = (overlapped \/ (kind \in Writers /\ \E j \in Calls : Writing(j)))

-----------------------------------------------------------------------------
\* Shopify: the merchant approves a subscription he was offered (changePlanToPaid
\* writes nothing here), and one is active at a time.
Approve(s) ==
  /\ shopify[s] = "NONE"
  /\ shopify' = [r \in Subs |-> CASE r = s -> "ACTIVE"
                                  [] r # s /\ shopify[r] = "ACTIVE" -> "CANCELLED"
                                  [] OTHER -> shopify[r]]
  /\ UNCHANGED <<subscription, credits, purchase, call, overlapped, faults>>

\* What a query for the app's subscriptions answers
Subscribed == {s \in Subs : shopify[s] = "ACTIVE"}

-----------------------------------------------------------------------------
\* syncSubscriptionFromShopify: by the callback of an approval, by the webhook,
\* by a job for one shop, or by the scheduled job for all of them.
BeginSync(k) ==
  /\ Begin(k, IF k = Worker THEN "scheduled" ELSE "callback", "query", None)
  /\ UNCHANGED <<shopify, subscription, credits, purchase, faults>>

\* With no subscription in Shopify the local rows are left as they are.
Query(k) ==
  /\ At(k, Syncs, "query")
  /\ IF Subscribed = {} THEN Ends(k)
     ELSE \E s \in Subscribed : StepFor(k, "lookup", s)
  /\ UNCHANGED <<shopify, subscription, credits, purchase, overlapped, faults>>

\* Mutant of Unchanged: a row that exists needs nothing.
UnchangedIfThere(s) == row[s] # "NONE"

Unchanged(s) == row[s] = "ACTIVE"

Lookup(k) ==
  /\ At(k, Syncs, "lookup")
  /\ CASE Unchanged(call[k].of) -> Ends(k)
       [] row[call[k].of] = "CANCELED" -> Step(k, "update")
       [] OTHER -> Step(k, "create")
  /\ UNCHANGED <<shopify, subscription, credits, purchase, overlapped, faults>>

\* A row that is back in Shopify becomes active again, beside the FREE one ...
Update(k) ==
  /\ At(k, Syncs, "update")
  /\ row' = [row EXCEPT ![call[k].of] = "ACTIVE"]
  /\ Step(k, "shop")
  /\ UNCHANGED <<shopify, freeRows, plan, incremental, credits, purchase, overlapped, faults>>

\* The change is over for a callback; the scheduled job applies it.
Changed(k) == IF call[k].kind = "scheduled" THEN Step(k, "welcome") ELSE Ends(k)

\* ... and its plan the shop's, in another statement.
SetShop(k) ==
  /\ At(k, Syncs, "shop")
  /\ plan' = call[k].of /\ incremental' = TRUE
  /\ Changed(k)
  /\ UNCHANGED <<shopify, row, freeRows, credits, purchase, overlapped, faults>>

\* Mutant of Superseded: the old rows stay.
SupersedesNone == {}

Superseded == {s \in Subs : row[s] = "ACTIVE"}

\* A new subscription takes the place of every active row, in one transaction;
\* of two that create it the second violates the unique external id.
Create(k) ==
  /\ At(k, Syncs, "create")
  /\ IF row[call[k].of] # "NONE"
     THEN Ends(k) /\ UNCHANGED subscription
     ELSE /\ row' = [s \in Subs |-> CASE s = call[k].of -> "ACTIVE"
                                      [] s \in Superseded \ {call[k].of} -> "CANCELED"
                                      [] OTHER -> row[s]]
          /\ freeRows' = 0
          /\ plan' = call[k].of /\ incremental' = TRUE
          /\ Changed(k)
  /\ UNCHANGED <<shopify, credits, purchase, overlapped, faults>>

-----------------------------------------------------------------------------
\* applySubscriptionChange for a paid plan: the included credits, once for each
\* cycle (Grant of CreditLedger), the bonus of the first payment, once for the
\* shop, by its flag and by the key of the bucket, ...
GrantWelcome(k) ==
  /\ At(k, {"scheduled"}, "welcome")
  /\ LET first == <<"WELCOME", "FIRST_PAID">>
     IN  /\ buckets' = IF bonus THEN buckets ELSE buckets \cup {first}
         /\ Step(k, IF bonus \/ first \in buckets THEN "enable" ELSE "flag")
  /\ UNCHANGED <<shopify, subscription, bonus, purchase, overlapped, faults>>

FlagWelcome(k) ==
  /\ At(k, {"scheduled"}, "flag")
  /\ bonus' = TRUE
  /\ Step(k, "enable")
  /\ UNCHANGED <<shopify, subscription, buckets, purchase, overlapped, faults>>

\* ... and the incremental scan.
Enable(k) ==
  /\ At(k, {"scheduled"}, "enable")
  /\ incremental' = TRUE
  /\ Ends(k)
  /\ UNCHANGED <<shopify, row, freeRows, plan, credits, purchase, overlapped, faults>>

-----------------------------------------------------------------------------
\* changePlanToFree: Shopify's subscriptions are cancelled one by one, ...
BeginDowngrade(k) ==
  /\ Begin(k, "downgrade", "query", None)
  /\ UNCHANGED <<shopify, subscription, credits, purchase, faults>>

QueryDowngrade(k) ==
  /\ At(k, {"downgrade"}, "query")
  /\ IF Subscribed = {} THEN Step(k, "local")
     ELSE \E s \in Subscribed : StepFor(k, "cancel", s)
  /\ UNCHANGED <<shopify, subscription, credits, purchase, overlapped, faults>>

\* ... a refusal is only logged, ...
Cancel(k) ==
  /\ At(k, {"downgrade"}, "cancel")
  /\ \/ shopify' = [shopify EXCEPT ![call[k].of] = "CANCELLED"]
     \/ UNCHANGED shopify
  /\ Step(k, "local")
  /\ UNCHANGED <<subscription, credits, purchase, overlapped, faults>>

\* ... and the local rows follow in one transaction.
Downgrade(k) ==
  /\ At(k, {"downgrade"}, "local")
  /\ row' = [s \in Subs |-> IF row[s] = "ACTIVE" THEN "CANCELED" ELSE row[s]]
  /\ freeRows' = 1
  /\ plan' = None /\ incremental' = FALSE
  /\ Ends(k)
  /\ UNCHANGED <<shopify, credits, purchase, overlapped, faults>>

\* bootstrapShopBilling of every authentication, the first one included (Init is
\* the state it leaves): a shop without an ACTIVE row of the FREE plan gets one,
\* whatever its plan.  (Its grants are Grant of CreditLedger.)
BeginBootstrap(k) ==
  /\ Begin(k, "bootstrap", "find", None)
  /\ UNCHANGED <<shopify, subscription, credits, purchase, faults>>

HasFree == freeRows > 0

FindFree(k) ==
  /\ At(k, {"bootstrap"}, "find")
  /\ IF HasFree THEN Ends(k) ELSE Step(k, "insert")
  /\ UNCHANGED <<shopify, subscription, credits, purchase, overlapped, faults>>

InsertFree(k) ==
  /\ At(k, {"bootstrap"}, "insert")
  /\ freeRows' = freeRows + 1
  /\ Ends(k)
  /\ UNCHANGED <<shopify, row, plan, incremental, credits, purchase, overlapped, faults>>

-----------------------------------------------------------------------------
\* initiateOveragePackPurchase: the row, Shopify's answer, the external id; the
\* merchant gets the confirmation URL last.
BeginBuy(k, p) ==
  /\ purchase[p].status = "NONE"
  /\ Begin(k, "buy", "offer", p)
  /\ purchase' = [purchase EXCEPT ![p].status = "PENDING"]
  /\ UNCHANGED <<shopify, subscription, credits, faults>>

Offer(k) ==
  /\ At(k, {"buy"}, "offer")
  /\ \/ Step(k, "record") /\ UNCHANGED purchase
     \/ Ends(k) /\ purchase' = [purchase EXCEPT ![call[k].of].status = "FAILED"]
  /\ UNCHANGED <<shopify, subscription, credits, overlapped, faults>>

Record(k) ==
  /\ At(k, {"buy"}, "record")
  /\ purchase' = [purchase EXCEPT ![call[k].of].external = TRUE]
  /\ Ends(k)
  /\ UNCHANGED <<shopify, subscription, credits, overlapped, faults>>

\* fulfillOveragePackPurchase, of the callback that an approval leads to and that
\* may be loaded again, also while it is being served
BeginFulfil(k, p) ==
  /\ purchase[p].external
  /\ Begin(k, "fulfil", "check", p)
  /\ UNCHANGED <<shopify, subscription, credits, purchase, faults>>

Check(k) ==
  /\ At(k, {"fulfil"}, "check")
  /\ IF purchase[call[k].of].status = "PENDING" THEN Step(k, "mark") ELSE Ends(k)
  /\ UNCHANGED <<shopify, subscription, credits, purchase, overlapped, faults>>

\* Mutant of Fulfilled: the row keeps its status.
FulfilledLate(p) == purchase[p]

Fulfilled(p) == [purchase[p] EXCEPT !.status = "PURCHASED"]

Mark(k) ==
  /\ At(k, {"fulfil"}, "mark")
  /\ purchase' = [purchase EXCEPT ![call[k].of] = Fulfilled(call[k].of)]
  /\ Step(k, "credit")
  /\ UNCHANGED <<shopify, subscription, credits, overlapped, faults>>

Credit(k) ==
  /\ At(k, {"fulfil"}, "credit")
  /\ buckets' = buckets \cup {<<"OVERAGE_PACK", call[k].of>>}
  /\ Ends(k)
  /\ UNCHANGED <<shopify, subscription, bonus, purchase, overlapped, faults>>

-----------------------------------------------------------------------------
\* A step throws or the process dies: the request is over, what it wrote stays.
Fails(k) ==
  /\ faults < MaxFaults
  /\ call[k] # Idle
  /\ faults' = faults + 1
  /\ Ends(k)
  /\ UNCHANGED <<shopify, subscription, credits, purchase, overlapped>>

CallStep(k) ==
  \/ Query(k) \/ Lookup(k) \/ Update(k) \/ SetShop(k) \/ Create(k)
  \/ GrantWelcome(k) \/ FlagWelcome(k) \/ Enable(k)
  \/ QueryDowngrade(k) \/ Cancel(k) \/ Downgrade(k)
  \/ FindFree(k) \/ InsertFree(k)
  \/ Offer(k) \/ Record(k) \/ Check(k) \/ Mark(k) \/ Credit(k)

Next == \/ \E s \in Subs : Approve(s)
        \/ \E k \in Calls : CallStep(k) \/ Fails(k)
        \/ \E k \in Calls \ Reloads : BeginSync(k)
        \/ \E k \in Requests \ Reloads : BeginDowngrade(k) \/ BeginBootstrap(k)
        \/ \E k \in Requests, p \in Packs : (k \notin Reloads /\ BeginBuy(k, p)) \/ BeginFulfil(k, p)

Spec == Init /\ [][Next]_vars

\* The scheduled job comes back every six hours, and is run to its end.  Nothing
\* is assumed of the requests: a merchant may never come back.
FairSpec == Spec /\ WF_vars(BeginSync(Worker)) /\ WF_vars(CallStep(Worker))

-----------------------------------------------------------------------------
\* Properties

TypeOK ==
  /\ shopify \in [Subs -> {"NONE", "ACTIVE", "CANCELLED"}]
  /\ row \in [Subs -> {"NONE", "ACTIVE", "CANCELED"}]
  /\ freeRows \in Nat
  /\ plan \in Subs \cup {None}
  /\ incremental \in BOOLEAN /\ bonus \in BOOLEAN
  /\ buckets \subseteq Buckets
  /\ purchase \in [Packs -> Purchases]
  /\ call \in [Calls -> CallRows]
  /\ overlapped \in BOOLEAN
  /\ faults \in 0 .. MaxFaults

\* The shop's plan, its incremental scan and its active rows agree whenever
\* nobody is between writing the one and the other, unless one of the writers
\* failed half way or two of them met; and there is always an active row.
PlanIsSubscribed ==
  LET active == {s \in Subs : row[s] = "ACTIVE"}
  IN  /\ freeRows > 0 \/ active # {}
      /\ faults = 0 /\ ~overlapped /\ (\A k \in Calls : ~Writing(k)) =>
           /\ active = {plan} \ {None}
           /\ incremental <=> plan # None

\* What the rows say was granted was granted: a pack is credited only when its
\* purchase is PURCHASED, and always then, unless the callback died in between,
\* whatever callbacks for it ran at the same time; and the bonus of the first
\* payment is not marked as granted before it was, even when the job dies.
CreditedIffRecorded ==
  /\ \A p \in Packs :
       LET credited == <<"OVERAGE_PACK", p>> \in buckets
       IN  /\ credited => purchase[p].status = "PURCHASED"
           /\ purchase[p].status = "PURCHASED" /\ faults = 0 =>
                credited \/ \E k \in Calls : At(k, {"fulfil"}, "credit") /\ call[k].of = p
  /\ bonus => <<"WELCOME", "FIRST_PAID">> \in buckets

\* The scheduled synchronisation brings the shop to the plan Shopify charges it
\* for, a subscription whose cancellation was refused included, unless a
\* synchronisation failed half way or two writers met.
PlanFollowsShopify ==
  \A s \in Subs :
    shopify[s] = "ACTIVE" ~> plan = s \/ shopify[s] # "ACTIVE" \/ overlapped \/ faults > 0
=============================================================================
