--------------------------- MODULE ContinuousScan ---------------------------
(***************************************************************************)
(* The continuous scan of one product (or collection): Shopify sends a     *)
(* webhook for every change, webhooks of one window are merged through a   *)
(* Redis key and a delayed job, the product job that job enqueues passes   *)
(* four gates, reads the images from Shopify and converges the catalog.    *)
(* A full scan of the shop may run at any time; it publishes what it read, *)
(* and may outlive the lock that keeps the jobs and other scans away.      *)
(*                                                                         *)
(* The images of the product have versions, 0 first; webhook v tells of    *)
(* version v.  Time is left out but for one thing: the key is set before   *)
(* the job is added and lives as long as the job is delayed.               *)
(***************************************************************************)
EXTENDS Naturals

CONSTANTS MaxVersion,      \* bound: changes of the product
          Content,         \* version -> images; what the fingerprint tells apart
          Forms,           \* the forms in which a webhook comes, see Receive
          MaxLockRetries,  \* DEFAULT_LOCK_GATE_MAX_RETRIES
          MaxScans,        \* bound: full scans
          MaxFaults        \* bound: exceptions and crashes

ASSUME ContinuousAssumption ==
  /\ {MaxVersion, MaxLockRetries, MaxScans} \subseteq Nat
  /\ DOMAIN Content = 0 .. MaxVersion
  /\ \A v \in DOMAIN Content : Content[v] # "unknown"
  /\ Forms \subseteq {"debounced", "generic", "unusable"}
  /\ MaxFaults \in 0 .. 1   \* a job that has stalled twice fails

Versions == 0 .. MaxVersion
Events == 1 .. MaxVersion
Scans == 1 .. MaxScans
Nobody == 0

VARIABLES live,         \* version at Shopify
          event,        \* webhook_event rows: their status
          route,        \* event -> how far its receipt is
          key,          \* the debounce key: the event in it, and if it was set again
          debounce,     \* the debounce job
          product,      \* the product job
          published,    \* version the catalog shows
          fingerprint,  \* the content in resource_image_fingerprint
          scan,         \* full scans: how far each is, and if it holds the SCAN lock
          scans, faults,
          seen          \* what happened that a property excepts (history)

receipt == <<event, route, key>>
catalog == <<published, fingerprint>>
bounds == <<scans, faults>>
vars == <<live, receipt, debounce, product, catalog, scan, bounds, seen>>

Unknown == "unknown"  \* no fingerprint yet
Contents == {Content[v] : v \in Versions} \cup {Unknown}
Skips == {"SKIPPED_PLAN_OR_SCOPE", "SKIPPED_NO_IMAGE_CHANGE"}
Statuses == {"NONE", "PENDING", "COALESCED", "PROCESSING", "PROCESSED", "FAILED"} \cup Skips

NoKey == [event |-> Nobody, again |-> FALSE]
NoJob == [step |-> "none", event |-> Nobody, tries |-> 0, read |-> 0]
NoScan == [step |-> "none", read |-> 0, held |-> FALSE]

SetEvent(e, s) == event' = [event EXCEPT ![e] = s]
RouteTo(e, s, previous) == route' = [route EXCEPT ![e] = [step |-> s, previous |-> previous]]
ProductTo(s) == product' = [product EXCEPT !.step = s]
Fault == faults < MaxFaults /\ faults' = faults + 1

Init == /\ live = 0
        /\ event = [e \in Events |-> "NONE"]
        /\ route = [e \in Events |-> [step |-> "none", previous |-> Nobody]]
        /\ key = NoKey
        /\ debounce = [step |-> "none", event |-> Nobody]
        /\ product = NoJob
        /\ published = 0 /\ fingerprint = Unknown
        /\ scan = [k \in Scans |-> NoScan]
        /\ scans = 0 /\ faults = 0 /\ seen = {}

-----------------------------------------------------------------------------
\* The merchant, and the receipt of the webhook (receiveWebhook)

Change == /\ live < MaxVersion
          /\ live' = live + 1
          /\ UNCHANGED <<receipt, debounce, product, catalog, scan, bounds, seen>>

\* Where a webhook goes: the topic products/update to be merged with others, any
\* other topic - PRODUCTS_UPDATE is one - to the queue of the other webhooks, and one
\* that names no resource or no known shop nowhere.
Destination == [debounced |-> "received", generic |-> "queued", unusable |-> "done"]

\* Webhooks come late, out of order or never; one that comes again is known.
Receive(e) ==
  /\ e <= live /\ event[e] = "NONE"
  /\ SetEvent(e, "PENDING")
  /\ \E f \in Forms : RouteTo(e, Destination[f], Nobody)
  /\ UNCHANGED <<live, key, debounce, product, catalog, scan, bounds, seen>>

\* The worker of the other webhooks has nothing to do for the topic, and is done.
Process(e) ==
  /\ route[e].step = "queued"
  /\ SetEvent(e, "PROCESSED")
  /\ RouteTo(e, "nowhere", Nobody)
  /\ UNCHANGED <<live, key, debounce, product, catalog, scan, bounds, seen>>

\* tryAcquire
TryAcquire(e) ==
  /\ route[e].step = "received"
  /\ IF key = NoKey
     THEN /\ key' = [event |-> e, again |-> FALSE]
          /\ RouteTo(e, "acquired", Nobody)
     ELSE /\ RouteTo(e, "conflict", key.event)
          /\ UNCHANGED key
  /\ UNCHANGED <<live, event, debounce, product, catalog, scan, bounds, seen>>

\* enqueueDebounceDelayedJob removes the job that has the id, which throws when
\* that one is at work: the event is never looked at again.
EnqueueDebounce(e) ==
  /\ route[e].step = "acquired"
  /\ debounce' = IF debounce.step = "running" THEN debounce
                 ELSE [step |-> "delayed", event |-> e]
  /\ RouteTo(e, "done", Nobody)
  /\ UNCHANGED <<live, event, key, product, catalog, scan, bounds, seen>>

\* debounce.update sets the key whether it is there still or not ...
Update(e) ==
  /\ route[e].step = "conflict"
  /\ key' = [event |-> e, again |-> TRUE]
  /\ RouteTo(e, "updated", route[e].previous)
  /\ UNCHANGED <<live, event, debounce, product, catalog, scan, bounds, seen>>

\* ... and the event that was in it is COALESCED, whatever became of it.
Coalesce(e) ==
  /\ route[e].step = "updated"
  /\ SetEvent(route[e].previous, "COALESCED")
  /\ RouteTo(e, "done", Nobody)
  /\ UNCHANGED <<live, key, debounce, product, catalog, scan, bounds, seen>>

\* The request fails; Shopify sends the webhook again, and it is known.
ReceiptFails(e) ==
  /\ route[e].step \notin {"none", "done", "nowhere"}
  /\ Fault
  /\ RouteTo(e, "done", Nobody)
  /\ UNCHANGED <<live, event, key, debounce, product, catalog, scan, scans, seen>>

KeyExpires ==
  /\ key # NoKey
  /\ key' = NoKey
  /\ UNCHANGED <<live, event, route, debounce, product, catalog, scan, bounds, seen>>

-----------------------------------------------------------------------------
\* The debounce job

\* A key that was set once is gone when the job that was added after it runs.
Due == debounce.step = "delayed" /\ (key.event = debounce.event => key.again)

Consume ==
  /\ Due
  /\ debounce' = IF key = NoKey THEN [debounce EXCEPT !.step = "done"]
                 ELSE [step |-> "running", event |-> key.event]
  /\ key' = NoKey
  /\ UNCHANGED <<live, event, route, product, catalog, scan, bounds, seen>>

\* A product job that is known to the queue, be it finished, is not added again.
EnqueueProduct ==
  /\ debounce.step = "running"
  /\ product' = IF product.step = "none"
                THEN [NoJob EXCEPT !.step = "waiting", !.event = debounce.event]
                ELSE product
  /\ debounce' = [debounce EXCEPT !.step = "done"]
  /\ UNCHANGED <<live, receipt, catalog, scan, bounds, seen>>

DebounceFails ==
  /\ debounce.step = "running"
  /\ Fault
  /\ debounce' = [debounce EXCEPT !.step = "delayed"]
  /\ UNCHANGED <<live, receipt, product, catalog, scan, scans, seen>>

\* Three workers serve the queue; each completes the jobs of the other two without
\* doing anything.
TakenByOther ==
  /\ \/ Due /\ debounce' = [debounce EXCEPT !.step = "done"] /\ UNCHANGED product
     \/ product.step = "waiting" /\ ProductTo("done") /\ UNCHANGED debounce
  /\ UNCHANGED <<live, receipt, catalog, scan, bounds, seen>>

\* A finished job is kept until a thousand others have finished.
Forget ==
  /\ product.step = "done"
  /\ product' = NoJob
  /\ UNCHANGED <<live, receipt, debounce, catalog, scan, bounds, seen>>

-----------------------------------------------------------------------------
\* The product job

\* Mutant of Locked: the lock gate lets everything pass.
NeverLocked == FALSE

\* isOperationRunning: a lock that has run out is none.
Locked == \E k \in Scans : scan[k].held

\* A scan is still to publish, and nothing shows it any more.
Outlived == \E k \in Scans : scan[k].step \in {"started", "read"} /\ ~scan[k].held

\* Mutant of NextTry: the count of the retries is not stored.
SameTry == product.tries

NextTry == product.tries + 1

Exceeded == product.tries >= MaxLockRetries

\* delayJobForLock
LockGate ==
  /\ product.step = "waiting"
  /\ \/ /\ ~Locked
        /\ ProductTo("gated")
        /\ seen' = IF Outlived THEN seen \cup {"outlived"} ELSE seen
        /\ UNCHANGED event
     \/ /\ Locked /\ Exceeded
        /\ SetEvent(product.event, "FAILED")
        /\ ProductTo("done")
        /\ UNCHANGED seen
     \/ /\ Locked /\ ~Exceeded
        /\ product' = [product EXCEPT !.tries = NextTry]
        /\ UNCHANGED <<event, seen>>
  /\ UNCHANGED <<live, route, key, debounce, catalog, scan, bounds>>

\* markProcessing, then the plan and the scope gate
Gates ==
  /\ product.step = "gated"
  /\ \/ SetEvent(product.event, "PROCESSING") /\ ProductTo("reading")
     \/ SetEvent(product.event, "SKIPPED_PLAN_OR_SCOPE") /\ ProductTo("done")
  /\ UNCHANGED <<live, route, key, debounce, catalog, scan, bounds, seen>>

\* Mutant of Unchanged: a product that was never processed has not changed.
UnchangedIfUnknown(c) == fingerprint \in {c, Unknown}

Unchanged(c) == fingerprint = c

\* The images are read from Shopify, their fingerprint is compared.
Read ==
  /\ product.step = "reading"
  /\ IF Unchanged(Content[live])
     THEN SetEvent(product.event, "SKIPPED_NO_IMAGE_CHANGE") /\ ProductTo("done")
     ELSE product' = [product EXCEPT !.step = "read", !.read = live] /\ UNCHANGED event
  /\ UNCHANGED <<live, route, key, debounce, catalog, scan, bounds, seen>>

\* The transaction: convergeProduct and the fingerprint
Converge ==
  /\ product.step = "read"
  /\ published' = product.read
  /\ fingerprint' = Content[product.read]
  /\ ProductTo("converged")
  /\ UNCHANGED <<live, receipt, debounce, scan, bounds, seen>>

MarkProcessed ==
  /\ product.step = "converged"
  /\ SetEvent(product.event, "PROCESSED")
  /\ ProductTo("done")
  /\ UNCHANGED <<live, route, key, debounce, catalog, scan, bounds, seen>>

\* An exception marks the event FAILED, a crash does not; the job runs again.
ProductFails ==
  /\ product.step \in {"gated", "reading", "read", "converged"}
  /\ Fault
  /\ \/ SetEvent(product.event, "FAILED")
     \/ UNCHANGED event
  /\ ProductTo("waiting")
  /\ UNCHANGED <<live, route, key, debounce, catalog, scan, scans, seen>>

-----------------------------------------------------------------------------
\* A full scan: it takes the SCAN lock, reads the product, publishes, unlocks.

AtWork == product.step \in {"gated", "reading", "read", "converged"}

ScanTo(k, s) == scan' = [scan EXCEPT ![k].step = s]

ScanStarts(k) ==
  /\ k = scans + 1
  /\ ~Locked
  /\ scan' = [scan EXCEPT ![k] = [step |-> "started", read |-> 0, held |-> TRUE]]
  /\ scans' = k
  /\ seen' = seen \cup (IF AtWork THEN {"raced"} ELSE {})
                  \cup (IF Outlived THEN {"outlived"} ELSE {})
  /\ UNCHANGED <<live, receipt, debounce, product, catalog, faults>>

\* Half an hour is over, and nobody prolongs the lock; or the publication of an
\* earlier scan, which is run again, has released what is of its type.
LockLost(k) ==
  /\ scan[k].held
  /\ scan' = [scan EXCEPT ![k].held = FALSE]
  /\ UNCHANGED <<live, receipt, debounce, product, catalog, bounds, seen>>

ScanReads(k) ==
  /\ scan[k].step = "started"
  /\ scan' = [scan EXCEPT ![k].step = "read", ![k].read = live]
  /\ UNCHANGED <<live, receipt, debounce, product, catalog, bounds, seen>>

\* publishScanResult leaves the fingerprint as it is.
ScanPublishes(k) ==
  /\ scan[k].step = "read"
  /\ published' = scan[k].read
  /\ ScanTo(k, "published")
  /\ seen' = IF fingerprint \in {Unknown, Content[scan[k].read]}
             THEN seen ELSE seen \cup {"overtaken"}
  /\ UNCHANGED <<live, receipt, debounce, product, fingerprint, bounds>>

\* A scan ends, published or not, and releases what is of its type: the lock of another
\* that took it over, too.
ScanUnlocks(k) ==
  /\ scan[k].step # "none"
  /\ scan' = [j \in Scans |-> IF j = k THEN NoScan ELSE [scan[j] EXCEPT !.held = FALSE]]
  /\ UNCHANGED <<live, receipt, debounce, product, catalog, bounds, seen>>

-----------------------------------------------------------------------------
ProductJob == LockGate \/ Gates \/ Read \/ Converge \/ MarkProcessed

Next == \/ Change \/ KeyExpires
        \/ \E e \in Events : \/ Receive(e) \/ Process(e) \/ TryAcquire(e) \/ EnqueueDebounce(e)
                             \/ Update(e) \/ Coalesce(e) \/ ReceiptFails(e)
        \/ Consume \/ EnqueueProduct \/ DebounceFails \/ TakenByOther \/ Forget
        \/ ProductJob \/ ProductFails
        \/ \E k \in Scans : \/ ScanStarts(k) \/ LockLost(k) \/ ScanReads(k)
                             \/ ScanPublishes(k) \/ ScanUnlocks(k)

Spec == Init /\ [][Next]_vars

\* The worker goes on with the product job; nobody promises that a scan ends.
FairSpec == Spec /\ WF_vars(ProductJob)

-----------------------------------------------------------------------------
\* Properties

TypeOK == /\ live \in Versions /\ published \in Versions
          /\ event \in [Events -> Statuses]
          /\ route \in [Events -> [step : {"none", "received", "queued", "acquired",
                                           "conflict", "updated", "done", "nowhere"},
                                   previous : Versions]]
          /\ key \in [event : Versions, again : BOOLEAN]
          /\ debounce \in [step : {"none", "delayed", "running", "done"}, event : Versions]
          /\ product \in [step : {"none", "waiting", "gated", "reading", "read",
                                  "converged", "done"},
                          event : Versions, tries : 0 .. MaxLockRetries, read : Versions]
          /\ fingerprint \in Contents
          /\ scan \in [Scans -> [step : {"none", "started", "read", "published"},
                                 read : Versions, held : BOOLEAN]]
          /\ scans \in 0 .. MaxScans /\ faults \in 0 .. MaxFaults
          /\ seen \subseteq {"raced", "outlived", "overtaken"}

\* The catalog never goes back to older images: neither a product job nor a scan
\* undoes what the other has published, whatever is retried - unless a scan started
\* while a job was past its lock gate, or a job or a scan passed the lock while a scan
\* that had lost it was still to publish.  A lock that is lost and passed by nobody
\* does no harm.
NeverBackwards == [][published' >= published \/ seen \cap {"raced", "outlived"} # {}]_vars

\* An event that was routed to the continuous scan and is settled is in the catalog: it
\* shows the product as it was then, or later.  A job that died after its transaction
\* and finds its own fingerprint does not lose the event; a fingerprint a full scan has
\* overtaken may.  (Of an event that the other webhooks' queue took, PROCESSED says
\* nothing: nobody looked at it.)
SettledIsPublished ==
  seen = {} =>
    \A e \in Events :
      event[e] \in {"PROCESSED", "SKIPPED_NO_IMAGE_CHANGE"} /\ route[e].step # "nowhere" =>
        \E v \in e .. live : Content[v] = Content[published]

\* A product job ends, even if the scan it waits for does not.
JobsEnd == product.step = "waiting" ~> product.step = "done"

\* A refresh stays to be done for the webhooks of a window: when nothing is under
\* way no event is left PENDING.  (One is: see the run.)
Quiet == /\ key = NoKey
         /\ \A k \in Scans : scan[k] = NoScan
         /\ \A e \in Events : route[e].step \in {"none", "done", "nowhere"}
         /\ {debounce.step, product.step} \subseteq {"none", "done"}

ReceivedIsSettled == Quiet /\ faults = 0 => \A e \in Events : event[e] # "PENDING"
=============================================================================
