---------------------------- MODULE Installation ----------------------------
(***************************************************************************)
(* The record of one Shopify shop, from the authentication that makes it   *)
(* to the deletion of all its data.                                        *)
(*                                                                         *)
(* Shopify's webhooks arrive at routes of their own or at /webhooks; each  *)
(* is written down, once, before what it asks for is done, and Shopify     *)
(* sends it again until it is answered.  A shop that is uninstalled or to  *)
(* be redacted is deleted by a job of the worker, table after table; a     *)
(* table that fails is passed over.  Meanwhile the merchant may            *)
(* authenticate again, and a generation that still runs may write.  Each   *)
(* action is one statement of the database, or one call to the queue.      *)
(***************************************************************************)
EXTENDS Naturals, Sequences

CONSTANTS MaxHooks,        \* bound on webhooks that Shopify sends
          Routed,          \* topics sent to routes of their own; the app's toml has none
          ColonsAccepted,  \* the queue takes a job id with a colon; BullMQ is said not to
          MaxAuths,        \* bound on authentications
          MaxFaults        \* bound on exceptions and crashes

VARIABLES installed,  \* Shopify has the app in the shop
          shop,       \* the shops row: its id, 0 without one, and uninstalled_at
          ids,        \* last id of a shops row
          auth,       \* afterAuth of an authentication: its step and shop id
          auths,      \* authentications so far
          session,    \* the Session row of the domain is there
          rows,       \* shop ids with rows in tables that cascade from shops
          calls,      \* shop ids with rows in ai_model_call, which does not
          busy,       \* shop id of a generation that runs, or 0
          hook,       \* webhook -> topic, step of its delivery, shop id that it read
          event,      \* webhook -> status of its webhook_events row
          processing, \* webhooks with a job in the webhook queue
          queued,     \* shop ids with a waiting gdpr-delete job
          kept,       \* shop ids whose job is over, and keeps its id in the queue
          deletion,   \* job of the worker: shop id, and position in Tables
          missed,     \* shop ids whose data something was left of; 0: of the domain's
          faults      \* exceptions and crashes so far

shopVars == <<shop, ids, session, rows, calls>>
hookVars == <<hook, event, processing>>
jobVars == <<queued, kept, deletion>>
vars == <<installed, shopVars, auth, auths, busy, hookVars, jobVars, missed, faults>>

-----------------------------------------------------------------------------
Topics == {"APP_UNINSTALLED", "SHOP_REDACT", "CUSTOMERS_REDACT"}

Ids == 0 .. MaxAuths

\* The webhooks in the order in which Shopify sends them for the first time
Hooks == 1 .. MaxHooks

\* Mutant of Tables: the shop is deleted before its session.
TablesShopFirst == <<"cascading", "webhook_events", "ai_model_call", "shops", "Session">>

\* The tables in the order of the deletion; those that cascade are one
Tables == <<"cascading", "webhook_events", "ai_model_call", "Session", "shops">>

NoDeletion == [id |-> 0, at |-> 0]

Deleting == deletion # NoDeletion

Init == /\ installed = FALSE
        /\ shop = [id |-> 0, left |-> FALSE]
        /\ ids = 0
        /\ auth = [step |-> "none", id |-> 0]
        /\ auths = 0
        /\ session = FALSE
        /\ rows = {} /\ calls = {}
        /\ busy = 0
        /\ hook = [h \in Hooks |-> [topic |-> "none", step |-> "unsent", id |-> 0]]
        /\ event = [h \in Hooks |-> "none"]
        /\ processing = {}
        /\ queued = {} /\ kept = {}
        /\ deletion = NoDeletion
        /\ missed = {}
        /\ faults = 0

-----------------------------------------------------------------------------
\* The merchant installs the app or his session is renewed: the Session row, ...
Authenticate ==
  /\ auth.step = "none" /\ auths < MaxAuths
  /\ auths' = auths + 1
  /\ installed' = TRUE
  /\ session' = TRUE
  /\ auth' = [step |-> "persist", id |-> 0]
  /\ missed' = IF Deleting THEN missed \cup {0} ELSE missed
  /\ UNCHANGED <<shop, ids, rows, calls, busy, hookVars, jobVars, faults>>

\* ... persistOfflineShopSession: the shops row of the domain, new or kept, ...
Persist ==
  /\ auth.step = "persist"
  /\ LET id == IF shop.id = 0 THEN ids + 1 ELSE shop.id
     IN  /\ shop' = [id |-> id, left |-> FALSE]
         /\ ids' = IF shop.id = 0 THEN id ELSE ids
         /\ auth' = [step |-> "bootstrap", id |-> id]
  /\ missed' = IF installed THEN missed ELSE missed \cup {0}
  /\ UNCHANGED <<installed, auths, session, rows, calls, busy, hookVars, jobVars, faults>>

\* ... bootstrapShopBilling, which throws when the row is gone.
Bootstrap ==
  /\ auth.step = "bootstrap"
  /\ rows' = IF shop.id = auth.id THEN rows \cup {auth.id} ELSE rows
  /\ auth' = [step |-> "none", id |-> 0]
  /\ UNCHANGED <<installed, shop, ids, auths, session, calls, busy, hookVars, jobVars, missed, faults>>

AuthFails ==
  /\ faults < MaxFaults /\ auth.step # "none"
  /\ faults' = faults + 1
  /\ auth' = [step |-> "none", id |-> 0]
  /\ missed' = missed \cup {0}
  /\ UNCHANGED <<installed, shopVars, auths, busy, hookVars, jobVars>>

-----------------------------------------------------------------------------
\* A generation begins for a shop that is there, and records its call of the model
\* whatever has become of the shop.
Generate ==
  /\ busy = 0 /\ shop.id # 0 /\ ~shop.left
  /\ busy' = shop.id
  /\ UNCHANGED <<installed, shopVars, auth, auths, hookVars, jobVars, missed, faults>>

RecordCall ==
  /\ busy # 0
  /\ calls' = calls \cup {busy}
  /\ rows' = IF shop.id = busy THEN rows \cup {busy} ELSE rows
  /\ missed' = IF shop.id # busy \/ deletion.id = busy THEN missed \cup {busy} ELSE missed
  /\ busy' = 0
  /\ UNCHANGED <<installed, shop, ids, auth, auths, session, hookVars, jobVars, faults>>

-----------------------------------------------------------------------------
\* Shopify sends a webhook: of an uninstallation, the redaction that follows it,
\* or a customer's.
Send(h, topic) ==
  /\ hook[h].step = "unsent" /\ \A g \in 1 .. h - 1 : hook[g].step # "unsent"
  /\ hook' = [hook EXCEPT ![h] = [topic |-> topic, step |-> "due", id |-> 0]]

Uninstall(h) ==
  /\ installed
  /\ installed' = FALSE
  /\ Send(h, "APP_UNINSTALLED")
  /\ UNCHANGED <<shopVars, auth, auths, busy, event, processing, jobVars, missed, faults>>

Redact(h) ==
  /\ ~installed /\ \E g \in Hooks : hook[g].topic = "APP_UNINSTALLED"
  /\ \A g \in Hooks : hook[g].topic # "SHOP_REDACT"
  /\ Send(h, "SHOP_REDACT")
  /\ UNCHANGED <<installed, shopVars, auth, auths, busy, event, processing, jobVars, missed, faults>>

RedactCustomer(h) ==
  /\ auths > 0 /\ \A g \in Hooks : hook[g].topic # "CUSTOMERS_REDACT"
  /\ Send(h, "CUSTOMERS_REDACT")
  /\ UNCHANGED <<installed, shopVars, auth, auths, busy, event, processing, jobVars, missed, faults>>

-----------------------------------------------------------------------------
Goes(h, step) == hook' = [hook EXCEPT ![h].step = step]

\* What comes after the event's row: a route of its own finds the shop, if its topic
\* has anything to do with it; /webhooks puts the event in the queue.
NextStep(topic) ==
  CASE topic \notin Routed -> "hand over"
    [] topic = "CUSTOMERS_REDACT" -> "answered"
    [] OTHER -> "find"

\* createWebhookEventIfAbsent: a row that is there ends the request.  Without a shop
\* the foreign key refuses the row, and the webhook stays due.
Receive(h) ==
  /\ hook[h].step = "due"
  /\ IF event[h] # "none"
     THEN Goes(h, "answered") /\ UNCHANGED event
     ELSE /\ shop.id # 0
          /\ event' = [event EXCEPT ![h] = "PENDING"]
          /\ Goes(h, NextStep(hook[h].topic))
  /\ UNCHANGED <<installed, shopVars, auth, auths, busy, processing, jobVars, missed, faults>>

\* The routes of APP_UNINSTALLED and SHOP_REDACT: find the shop, ...
Find(h) ==
  /\ hook[h].step = "find"
  /\ hook' = [hook EXCEPT ![h].id = shop.id,
                          ![h].step = CASE shop.id = 0 -> "answered"
                                        [] hook[h].topic = "SHOP_REDACT" -> "enqueue"
                                        [] OTHER -> "mark"]
  /\ UNCHANGED <<installed, shopVars, auth, auths, busy, event, processing, jobVars, missed, faults>>

\* ... mark an uninstalled one and drop its token, ...
MarkLeft(h) ==
  /\ hook[h].step = "mark"
  /\ IF shop.id = hook[h].id
     THEN shop' = [shop EXCEPT !.left = TRUE] /\ Goes(h, "enqueue")
     ELSE Goes(h, "due") /\ UNCHANGED shop
  /\ UNCHANGED <<installed, ids, auth, auths, session, rows, calls, busy, event, processing, jobVars,
                 missed, faults>>

\* ... and add the job, whose id is the shop's: one that is there stays as it is.
Enqueue(h) ==
  /\ hook[h].step = "enqueue"
  /\ LET id == hook[h].id
     IN  IF ~ColonsAccepted
         THEN Goes(h, "due") /\ UNCHANGED queued
         ELSE /\ Goes(h, "answered")
              /\ queued' = IF id \in kept \/ deletion.id = id THEN queued ELSE queued \cup {id}
  /\ UNCHANGED <<installed, shopVars, auth, auths, busy, event, processing, kept, deletion, missed,
                 faults>>

\* receiveWebhook: the job of the event, ...
HandOver(h) ==
  /\ hook[h].step = "hand over"
  /\ processing' = processing \cup {h}
  /\ Goes(h, "answered")
  /\ UNCHANGED <<installed, shopVars, auth, auths, busy, event, jobVars, missed, faults>>

\* ... and processWebhookEvent, which has nothing to do for these topics.  The job of
\* an event without a row is over.
Process(h) ==
  /\ h \in processing
  /\ event' = [event EXCEPT ![h] = CASE event[h] = "PENDING" -> "PROCESSING"
                                     [] event[h] = "PROCESSING" -> "PROCESSED"
                                     [] OTHER -> @]
  /\ processing' = IF event[h] = "PENDING" THEN processing ELSE processing \ {h}
  /\ UNCHANGED <<installed, shopVars, auth, auths, busy, hook, jobVars, missed, faults>>

\* A request that throws after the event's row: when it comes again it is a duplicate.
RequestFails(h) ==
  /\ faults < MaxFaults
  /\ hook[h].step \in {"find", "mark", "enqueue", "hand over"}
  /\ faults' = faults + 1
  /\ Goes(h, "due")
  /\ missed' = missed \cup {shop.id}
  /\ UNCHANGED <<installed, shopVars, auth, auths, busy, event, processing, jobVars>>

-----------------------------------------------------------------------------
Over(id) == kept' = kept \cup {id} /\ deletion' = NoDeletion

AlreadyDeleted(id) == shop.id # id

\* runGdprDeleteJob: a shop without a row is skipped, ...
BeginDeletion(id) ==
  /\ ~Deleting /\ id \in queued
  /\ queued' = queued \ {id}
  /\ IF AlreadyDeleted(id) THEN Over(id)
     ELSE deletion' = [id |-> id, at |-> 1] /\ UNCHANGED kept
  /\ UNCHANGED <<installed, shopVars, auth, auths, busy, hookVars, missed, faults>>

\* ... and the tables are emptied in their order.  Session and webhook_events are
\* found by the domain, and the row of the shop takes what cascades from it along.
Delete(table) ==
  LET id == deletion.id
      gone == table = "shops" /\ shop.id = id
  IN  /\ rows' = IF table = "cascading" \/ gone THEN rows \ {id} ELSE rows
      /\ calls' = IF table = "ai_model_call" THEN calls \ {id} ELSE calls
      /\ session' = (session /\ table # "Session")
      /\ event' = IF table = "webhook_events" \/ gone THEN [h \in Hooks |-> "none"] ELSE event
      /\ shop' = IF gone THEN [id |-> 0, left |-> FALSE] ELSE shop

Advance ==
  IF deletion.at = Len(Tables) THEN Over(deletion.id)
  ELSE deletion' = [deletion EXCEPT !.at = @ + 1] /\ UNCHANGED kept

DeleteTable ==
  /\ Deleting
  /\ Delete(Tables[deletion.at])
  /\ Advance
  /\ UNCHANGED <<installed, ids, auth, auths, busy, hook, processing, queued, missed, faults>>

\* A table that fails is logged, and the job goes on; what does not cascade stays.
TableFails ==
  /\ faults < MaxFaults /\ Deleting
  /\ faults' = faults + 1
  /\ LET table == Tables[deletion.at]
     IN  missed' = missed \cup (IF table = "Session" THEN {0}
                                ELSE IF table \in {"ai_model_call", "shops"} THEN {deletion.id}
                                ELSE {})
  /\ Advance
  /\ UNCHANGED <<installed, shopVars, auth, auths, busy, hookVars, queued>>

\* The worker dies, and the job is given to it again from its beginning.
WorkerDies ==
  /\ faults < MaxFaults /\ Deleting
  /\ faults' = faults + 1
  /\ queued' = queued \cup {deletion.id}
  /\ deletion' = NoDeletion
  /\ UNCHANGED <<installed, shopVars, auth, auths, busy, hookVars, kept, missed>>

-----------------------------------------------------------------------------
Deliver(h) == Receive(h) \/ Find(h) \/ MarkLeft(h) \/ Enqueue(h) \/ HandOver(h)

DeletionStep == DeleteTable \/ \E id \in Ids : BeginDeletion(id)

Next == \/ Authenticate \/ Persist \/ Bootstrap \/ AuthFails
        \/ Generate \/ RecordCall
        \/ \E h \in Hooks : Uninstall(h) \/ Redact(h) \/ RedactCustomer(h)
        \/ \E h \in Hooks : Deliver(h) \/ Process(h) \/ RequestFails(h)
        \/ DeletionStep \/ TableFails \/ WorkerDies

\* Shopify sends a webhook again until it is answered, and the worker runs its jobs.
Fairness == /\ \A h \in Hooks : WF_vars(Deliver(h)) /\ WF_vars(Process(h))
            /\ WF_vars(DeletionStep)

Spec == Init /\ [][Next]_vars /\ Fairness

-----------------------------------------------------------------------------
\* Properties

TypeOK ==
  /\ installed \in BOOLEAN /\ session \in BOOLEAN
  /\ ids \in Ids /\ auths \in Ids /\ busy \in Ids /\ faults \in 0 .. MaxFaults
  /\ shop \in [id : Ids, left : BOOLEAN]
  /\ auth \in [step : {"none", "persist", "bootstrap"}, id : Ids]
  /\ rows \subseteq Ids /\ calls \subseteq Ids
  /\ queued \subseteq Ids /\ kept \subseteq Ids /\ missed \subseteq Ids
  /\ hook \in [Hooks -> [topic : Topics \cup {"none"}, id : Ids,
                         step : {"unsent", "due", "find", "mark", "enqueue", "hand over", "answered"}]]
  /\ event \in [Hooks -> {"none", "PENDING", "PROCESSING", "PROCESSED"}]
  /\ processing \subseteq Hooks
  /\ deletion \in [id : Ids, at : 0 .. Len(Tables)]

\* Once the row of a shop is gone nothing of it is left in any table, also in those
\* that do not cascade from it (ai_model_call, Session), after a crash in the middle,
\* and when a table that cascades failed; unless one of those two failed, a generation
\* wrote beside the deletion, or an authentication met it or failed.
DeletedIsWhole ==
  /\ \A id \in 1 .. ids : id # shop.id /\ id \notin missed => id \notin rows \cup calls
  /\ shop.id = 0 /\ auth.step = "none" /\ 0 \notin missed => ~session

\* A redaction that Shopify was told is accepted leads to the deletion of the shop.
RedactedIsDeleted ==
  \A h \in Hooks :
    hook[h].topic = "SHOP_REDACT" /\ hook[h].step = "answered" ~> shop.id = 0 \/ installed
=============================================================================
