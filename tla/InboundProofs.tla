---------------------------- MODULE InboundProofs ---------------------------
(***************************************************************************)
(* Proofs about what comes in from Shopify, in the order of Inbound: the   *)
(* continuous scan of a product, the record of a shop, the results of a    *)
(* full scan, and the catalog that it is published into.                   *)
(***************************************************************************)
EXTENDS Inbound, FiniteSetTheorems, NaturalsInduction, WellFoundedInduction, TLAPS

(***************************************************************************)
(* ContinuousScan, for any number of changes, any contents and any number  *)
(* of scans and retries: the catalog never goes back to older images, and  *)
(* an event that is settled is in the catalog.                             *)
(*                                                                         *)
(* The argument is about who may publish.  Unless a scan started while a   *)
(* product job was past its lock gate, or somebody passed the lock after a *)
(* scan that was still to publish had lost it, a job at work and the scans *)
(* exclude each other (Exclusive), so what either has read is not older    *)
(* than what the catalog shows, and nothing is settled or published behind *)
(* its back.  The lock may be lost as long as nobody passes it.  The       *)
(* fingerprint then is that of the catalog (Settled), unless a scan has    *)
(* overtaken it, so a job that finds it unchanged may leave.               *)
(***************************************************************************)

Settles == {"PROCESSED", "SKIPPED_NO_IMAGE_CHANGE"}

\* An event that the continuous scan has settled
SettledHere(e) == event[e] \in Settles /\ route[e].step # "nowhere"

\* A scan that is still to publish
Pending(k) == scan[k].step \in {"started", "read"}

\* Everybody kept away from everybody else.
Orderly == seen \cap {"raced", "outlived"} = {}

\* Nobody knows of a version that is not there yet.
Known ==
  /\ published <= live /\ key.event <= live /\ debounce.event <= live
  /\ product.event <= live /\ product.read <= live
  /\ \A k \in Scans : scan[k].read <= live
  /\ \A e \in Events : /\ route[e].previous <= live
                       /\ route[e].step # "none" => e <= live

\* A job past the gate and the scans exclude each other, and what one of them has read
\* is at least as new as what the catalog shows.
Exclusive ==
  /\ \A k \in Scans : Pending(k) => ~AtWork
  /\ \A j, k \in Scans : Pending(j) /\ Pending(k) => j = k
  /\ product.step \in {"read", "converged"} =>
       product.event <= product.read /\ published <= product.read
  /\ product.step = "converged" => published = product.read
  /\ \A k \in Scans : scan[k].step = "read" => published <= scan[k].read

\* What is settled is in the catalog, and whoever is about to publish has read it.
Settled ==
  /\ fingerprint \in {Unknown, Content[published]}
  /\ \A e \in Events : SettledHere(e) =>
       /\ \E v \in e .. live : Content[v] = Content[published]
       /\ product.step = "read" => e <= product.read
       /\ \A k \in Scans : scan[k].step = "read" => e <= scan[k].read

IInv == /\ TypeOK
        /\ Known
        /\ Orderly => Exclusive
        /\ seen = {} => Settled

-----------------------------------------------------------------------------
\* The assumptions on the constants, in the form that the steps use
LEMMA Bounds ==
  /\ MaxVersion \in Nat /\ MaxLockRetries \in Nat /\ MaxScans \in Nat /\ MaxFaults \in Nat
  /\ \A v \in Versions : Content[v] # Unknown
BY ContinuousAssumption DEF Versions, Unknown

\* The rows that TypeOK admits, and what the helpers of the actions do to them
RouteRows ==
  [step : {"none", "received", "queued", "acquired", "conflict", "updated", "done", "nowhere"},
   previous : Versions]
KeyRows == [event : Versions, again : BOOLEAN]
DebounceRows == [step : {"none", "delayed", "running", "done"}, event : Versions]
ProductRows ==
  [step : {"none", "waiting", "gated", "reading", "read", "converged", "done"},
   event : Versions, tries : 0 .. MaxLockRetries, read : Versions]
ScanRows ==
  [step : {"none", "started", "read", "published"}, read : Versions, held : BOOLEAN]

LEMMA Rows ==
  ASSUME TypeOK
  PROVE  /\ route \in [Events -> RouteRows] /\ key \in KeyRows
         /\ debounce \in DebounceRows /\ product \in ProductRows
         /\ scan \in [Scans -> ScanRows]
BY DEF TypeOK, RouteRows, KeyRows, DebounceRows, ProductRows, ScanRows

LEMMA EventSet ==
  ASSUME event \in [Events -> Statuses], NEW e, NEW s \in Statuses, SetEvent(e, s)
  PROVE  /\ event' \in [Events -> Statuses]
         /\ \A f \in Events : event'[f] = IF f = e THEN s ELSE event[f]
BY DEF SetEvent

LEMMA RouteIs ==
  ASSUME route \in [Events -> RouteRows], NEW e \in Events, NEW p \in Versions,
         NEW s \in {"received", "queued", "acquired", "conflict", "updated", "done", "nowhere"},
         RouteTo(e, s, p)
  PROVE  /\ route' \in [Events -> RouteRows]
         /\ route'[e].step = s /\ route'[e].previous = p
         /\ \A f \in Events \ {e} : route'[f] = route[f]
BY DEF RouteTo, RouteRows

LEMMA ProductSet ==
  ASSUME product \in ProductRows, ProductTo("waiting") \/ ProductTo("gated") \/ ProductTo("reading")
                                 \/ ProductTo("converged") \/ ProductTo("done")
  PROVE  /\ product' \in ProductRows
         /\ product'.event = product.event /\ product'.read = product.read
BY DEF ProductTo, ProductRows

LEMMA DebounceSet ==
  ASSUME debounce \in DebounceRows, NEW s \in {"delayed", "running", "done"},
         debounce' = [debounce EXCEPT !.step = s]
  PROVE  debounce' \in DebounceRows /\ debounce'.event = debounce.event
BY DEF DebounceRows

\* Where a webhook goes first
LEMMA Received ==
  ASSUME TypeOK, NEW e \in Events, Receive(e)
  PROVE  /\ route' \in [Events -> RouteRows]
         /\ route'[e].previous = Nobody /\ route'[e].step \in {"received", "queued", "done"}
         /\ \A f \in Events \ {e} : route'[f] = route[f]
<1>1. PICK f \in Forms : RouteTo(e, Destination[f], Nobody)
  BY DEF Receive
<1>2. Destination[f] \in {"received", "queued", "done"}
  BY ContinuousAssumption DEF Destination
<1>3. Nobody \in Versions
  BY Bounds DEF Nobody, Versions
<1>4. PICK s : s = Destination[f]
  OBVIOUS
<1>5. QED
  BY <1>1, <1>2, <1>3, <1>4, Rows, RouteIs

\* What the steps of a scan do to the scans
LEMMA ScanStarted ==
  ASSUME TypeOK, NEW k \in Scans, ScanStarts(k)
  PROVE  /\ scan' \in [Scans -> ScanRows]
         /\ scan'[k].step = "started" /\ scan'[k].read = 0
         /\ \A j \in Scans \ {k} : scan'[j] = scan[j]
<1>1. 0 \in Versions
  BY Bounds DEF Versions
<1>2. [step |-> "started", read |-> 0, held |-> TRUE] \in ScanRows
  BY <1>1 DEF ScanRows
<1>3. QED
  BY <1>2, Rows DEF ScanStarts

LEMMA ScanLost ==
  ASSUME TypeOK, NEW k \in Scans, LockLost(k)
  PROVE  /\ scan' \in [Scans -> ScanRows]
         /\ \A j \in Scans : scan'[j].step = scan[j].step /\ scan'[j].read = scan[j].read
BY Rows DEF LockLost, ScanRows

LEMMA ScanRead ==
  ASSUME TypeOK, NEW k \in Scans, ScanReads(k)
  PROVE  /\ scan' \in [Scans -> ScanRows]
         /\ scan'[k].step = "read" /\ scan'[k].read = live
         /\ \A j \in Scans \ {k} : scan'[j] = scan[j]
<1>1. live \in Versions
  BY DEF TypeOK
<1>2. QED
  BY <1>1, Rows DEF ScanReads, ScanRows

LEMMA ScanPublished ==
  ASSUME TypeOK, NEW k \in Scans, ScanPublishes(k)
  PROVE  /\ scan' \in [Scans -> ScanRows]
         /\ scan'[k].step = "published" /\ scan'[k].read = scan[k].read
         /\ \A j \in Scans \ {k} : scan'[j] = scan[j]
BY Rows DEF ScanPublishes, ScanTo, ScanRows

LEMMA ScanUnlocked ==
  ASSUME TypeOK, NEW k \in Scans, ScanUnlocks(k)
  PROVE  /\ scan' \in [Scans -> ScanRows]
         /\ scan'[k].step = "none" /\ scan'[k].read = 0
         /\ \A j \in Scans \ {k} : scan'[j].step = scan[j].step /\ scan'[j].read = scan[j].read
<1>1. 0 \in Versions
  BY Bounds DEF Versions
<1>2. NoScan \in ScanRows /\ NoScan.step = "none" /\ NoScan.read = 0
  BY <1>1 DEF ScanRows, NoScan
<1>3. ASSUME NEW j \in Scans
      PROVE  /\ [scan[j] EXCEPT !.held = FALSE] \in ScanRows
             /\ [scan[j] EXCEPT !.held = FALSE].step = scan[j].step
             /\ [scan[j] EXCEPT !.held = FALSE].read = scan[j].read
  BY Rows DEF ScanRows
<1>4. QED
  BY <1>2, <1>3, Rows DEF ScanUnlocks

\* Every step keeps the types.
LEMMA TypeKeeps ==
  ASSUME TypeOK, [Next]_vars
  PROVE  TypeOK'
<1> USE DEF TypeOK, Nobody, Versions, Events, Statuses, Skips, Contents, receipt, catalog, bounds
<1>1. ASSUME NEW e \in Events, \/ Receive(e) \/ Process(e) \/ TryAcquire(e) \/ EnqueueDebounce(e)
                               \/ Update(e) \/ Coalesce(e) \/ ReceiptFails(e)
     PROVE  TypeOK'
  <2>1. CASE Receive(e)
    BY <2>1, Received, EventSet DEF Receive, RouteRows
  <2>2. CASE TryAcquire(e)
    <3>1. CASE key = NoKey
      <4>1. Nobody \in Versions
        BY Bounds
      <4>2. RouteTo(e, "acquired", Nobody) /\ key' = [event |-> e, again |-> FALSE]
        BY <2>2, <3>1 DEF TryAcquire
      <4>3. route' \in [Events -> RouteRows]
        BY <4>1, <4>2, Rows, RouteIs
      <4>4. key' \in KeyRows
        BY <4>2, Bounds DEF KeyRows
      <4>5. QED
        BY <2>2, <4>3, <4>4 DEF TryAcquire, RouteRows, KeyRows
    <3>2. CASE key # NoKey
      <4>1. key.event \in Versions
        BY Rows DEF KeyRows
      <4>2. RouteTo(e, "conflict", key.event)
        BY <2>2, <3>2 DEF TryAcquire
      <4>3. route' \in [Events -> RouteRows]
        BY <4>1, <4>2, Rows, RouteIs
      <4>4. QED
        BY <2>2, <3>2, <4>3 DEF TryAcquire, RouteRows
    <3>3. QED
      BY <3>1, <3>2
  <2>3. CASE EnqueueDebounce(e)
    BY <2>3, Bounds DEF EnqueueDebounce, RouteTo
  <2>4. CASE Update(e)
    BY <2>4, Bounds DEF Update, RouteTo
  <2>5. CASE Coalesce(e)
    <3>1. event' \in [Events -> Statuses]
      BY <2>5, EventSet DEF Coalesce
    <3>2. route' \in [Events -> RouteRows]
      <4>1. Nobody \in Versions
        BY Bounds
      <4>2. RouteTo(e, "done", Nobody)
        BY <2>5 DEF Coalesce
      <4>3. QED
        BY <4>1, <4>2, Rows, RouteIs
    <3>3. QED
      BY <2>5, <3>1, <3>2 DEF Coalesce, RouteRows
  <2>6. CASE ReceiptFails(e)
    BY <2>6, Bounds DEF ReceiptFails, RouteTo, Fault
  <2>7. CASE Process(e)
    <3>1. event' \in [Events -> Statuses]
      BY <2>7, EventSet DEF Process
    <3>2. route' \in [Events -> RouteRows]
      <4>1. Nobody \in Versions /\ RouteTo(e, "nowhere", Nobody)
        BY <2>7, Bounds DEF Process
      <4>2. QED
        BY <4>1, Rows, RouteIs
    <3>3. QED
      BY <2>7, <3>1, <3>2 DEF Process, RouteRows
  <2>8. QED BY <1>1, <2>1, <2>2, <2>3, <2>4, <2>5, <2>6, <2>7
<1>2. CASE Change
  BY <1>2, Bounds DEF Change
<1>3. CASE KeyExpires
  BY <1>3, Bounds DEF KeyExpires, NoKey
<1>4. CASE Consume
  <2>1. debounce' \in DebounceRows
    <3>1. CASE key = NoKey
      BY <1>4, <3>1, Rows, DebounceSet DEF Consume
    <3>2. CASE key # NoKey
      BY <1>4, <3>2, Rows DEF Consume, KeyRows, DebounceRows
    <3>3. QED
      BY <3>1, <3>2
  <2>2. key' \in KeyRows
    BY <1>4, Bounds DEF Consume, NoKey, KeyRows
  <2>3. QED
    BY <1>4, <2>1, <2>2 DEF Consume, KeyRows, DebounceRows
<1>5. CASE EnqueueProduct
  <2>1. debounce' \in DebounceRows
    BY <1>5, Rows, DebounceSet DEF EnqueueProduct
  <2>2. product' \in ProductRows
    <3>1. debounce.event \in Versions /\ 0 \in Versions /\ 0 \in 0 .. MaxLockRetries
      BY Rows, Bounds DEF DebounceRows
    <3>2. QED
      BY <1>5, <3>1, Rows DEF EnqueueProduct, NoJob, ProductRows
  <2>3. QED
    BY <1>5, <2>1, <2>2 DEF EnqueueProduct, DebounceRows, ProductRows
<1>6. CASE DebounceFails
  <2>1. debounce' \in DebounceRows
    BY <1>6, Rows, DebounceSet DEF DebounceFails
  <2>2. QED
    BY SMTT(40), <1>6, <2>1, Bounds DEF DebounceFails, Fault, DebounceRows
<1>7. CASE TakenByOther
  BY ZenonT(60), <1>7, Bounds DEF TakenByOther, ProductTo
<1>8. CASE Forget
  BY <1>8, Bounds DEF Forget, NoJob
<1>9. CASE LockGate
  <2>1. event' \in [Events -> Statuses]
    BY <1>9, EventSet DEF LockGate
  <2>5. seen' \subseteq {"raced", "outlived", "overtaken"}
    BY <1>9 DEF LockGate
  <2>2. CASE Locked /\ ~Exceeded /\ product' = [product EXCEPT !.tries = NextTry]
    <3>1. product.tries \in 0 .. MaxLockRetries /\ product.tries < MaxLockRetries
      BY <2>2, Rows, Bounds DEF ProductRows, Exceeded
    <3>2. NextTry \in 0 .. MaxLockRetries
      BY <3>1, Bounds DEF NextTry
    <3>3. product' \in ProductRows
      BY <2>2, <3>2, Rows DEF ProductRows
    <3>4. QED
      BY <1>9, <2>1, <2>5, <3>3 DEF LockGate, ProductRows
  <2>3. CASE ProductTo("gated") \/ ProductTo("done")
    <3>1. product' \in ProductRows
      BY <2>3, Rows, ProductSet
    <3>2. QED
      BY <1>9, <2>1, <2>5, <3>1 DEF LockGate, ProductRows
  <2>4. QED
    BY <1>9, <2>2, <2>3 DEF LockGate
<1>10. CASE Gates
  <2>1. event' \in [Events -> Statuses]
    BY <1>10, EventSet DEF Gates
  <2>2. product' \in ProductRows
    BY <1>10, Rows, ProductSet DEF Gates
  <2>3. QED
    BY <1>10, <2>1, <2>2, Bounds DEF Gates, Fault, ProductRows
<1>11. CASE Read
  <2>1. CASE Unchanged(Content[live])
    <3>1. event' \in [Events -> Statuses]
      BY <1>11, <2>1, EventSet DEF Read
    <3>2. product' \in ProductRows
      BY <1>11, <2>1, Rows, ProductSet DEF Read
    <3>3. QED
      BY <1>11, <3>1, <3>2 DEF Read, ProductRows
  <2>2. CASE ~Unchanged(Content[live])
    <3>1. product' \in ProductRows
      BY ZenonT(60), <1>11, <2>2, Rows DEF Read, ProductRows
    <3>2. QED
      BY <1>11, <2>2, <3>1 DEF Read, ProductRows
  <2>3. QED
    BY <2>1, <2>2
<1>12. CASE Converge
  BY <1>12, Bounds DEF Converge, ProductTo
<1>13. CASE MarkProcessed
  BY <1>13, Bounds DEF MarkProcessed, SetEvent, ProductTo
<1>14. CASE ProductFails
  <2>1. event' \in [Events -> Statuses]
    BY <1>14, EventSet DEF ProductFails
  <2>2. product' \in ProductRows
    BY <1>14, Rows, ProductSet DEF ProductFails
  <2>3. QED
    BY SMTT(40), <1>14, <2>1, <2>2, Bounds DEF ProductFails, Fault, ProductRows
<1>15. ASSUME NEW k \in Scans, ScanStarts(k)
       PROVE  TypeOK'
  <2>1. scans' \in 0 .. MaxScans
    BY <1>15, Bounds DEF ScanStarts, Scans
  <2>2. seen' \subseteq {"raced", "outlived", "overtaken"}
    BY <1>15 DEF ScanStarts
  <2>3. QED
    BY <1>15, <2>1, <2>2, ScanStarted DEF ScanStarts, ScanRows
<1>16. ASSUME NEW k \in Scans, LockLost(k) \/ ScanReads(k) \/ ScanUnlocks(k)
       PROVE  TypeOK'
  <2>1. scan' \in [Scans -> ScanRows]
    BY <1>16, ScanLost, ScanRead, ScanUnlocked
  <2>2. QED
    BY <1>16, <2>1 DEF LockLost, ScanReads, ScanUnlocks, ScanRows
<1>17. ASSUME NEW k \in Scans, ScanPublishes(k)
       PROVE  TypeOK'
  <2>1. published' \in Versions
    BY <1>17, Rows DEF ScanPublishes, ScanRows
  <2>2. QED
    BY <1>17, <2>1, ScanPublished DEF ScanPublishes, ScanRows
<1>19. CASE UNCHANGED vars
  BY <1>19, Bounds DEF vars
<1>20. QED
  BY <1>1, <1>2, <1>3, <1>4, <1>5, <1>6, <1>7, <1>8, <1>9, <1>10, <1>11, <1>12, <1>13,
     <1>14, <1>15, <1>16, <1>17, <1>19 DEF Next, ProductJob

\* Webhooks, jobs and scans know only of versions that are there.
LEMMA KnownKeeps ==
  ASSUME TypeOK, Known, [Next]_vars
  PROVE  Known'
<1> USE DEF TypeOK, Nobody, Versions, Events, Statuses, Skips, Contents, receipt, catalog,
            bounds, Known
<1>1. ASSUME NEW e \in Events, \/ Receive(e) \/ Process(e) \/ TryAcquire(e) \/ EnqueueDebounce(e)
                               \/ Update(e) \/ Coalesce(e) \/ ReceiptFails(e)
     PROVE  Known'
  <2>1. CASE Receive(e)
    <3>1. Nobody <= live /\ e <= live
      BY <2>1, Bounds DEF Receive
    <3>2. \A f \in Events : route'[f].previous <= live /\ (route'[f].step # "none" => f <= live)
      BY <2>1, <3>1, Received
    <3>3. QED
      BY <2>1, <3>2 DEF Receive
  <2>2. CASE TryAcquire(e)
    <3>1. CASE key = NoKey
      <4>1. Nobody \in Versions /\ e <= live
        BY <2>2, Bounds DEF TryAcquire
      <4>2. /\ route'[e].step = "acquired" /\ route'[e].previous = Nobody
            /\ \A f \in Events \ {e} : route'[f] = route[f]
        <5>1. RouteTo(e, "acquired", Nobody)
          BY <2>2, <3>1 DEF TryAcquire
        <5>2. QED
          BY <4>1, <5>1, Rows, RouteIs
      <4>3. key'.event = e
        BY <2>2, <3>1 DEF TryAcquire
      <4>4. Nobody <= live
        BY Bounds
      <4>5. \A f \in Events : route'[f].previous <= live /\ (route'[f].step # "none" => f <= live)
        BY <4>1, <4>2, <4>4
      <4>6. QED
        BY <2>2, <4>1, <4>3, <4>5 DEF TryAcquire
    <3>2. CASE key # NoKey
      <4>1. key.event \in Versions /\ e <= live
        BY <2>2, Rows DEF TryAcquire, KeyRows
      <4>2. /\ route'[e].step = "conflict" /\ route'[e].previous = key.event
            /\ \A f \in Events \ {e} : route'[f] = route[f]
        <5>1. RouteTo(e, "conflict", key.event)
          BY <2>2, <3>2 DEF TryAcquire
        <5>2. QED
          BY <4>1, <5>1, Rows, RouteIs
      <4>3. QED
        BY <2>2, <3>2, <4>1, <4>2, Bounds DEF TryAcquire
    <3>3. QED
      BY <3>1, <3>2
  <2>3. CASE EnqueueDebounce(e)
    BY <2>3, Bounds DEF EnqueueDebounce, RouteTo
  <2>4. CASE Update(e)
    BY <2>4, Bounds DEF Update, RouteTo
  <2>5. CASE Coalesce(e)
    <3>1. Nobody \in Versions /\ Nobody <= live
      BY Bounds
    <3>2. /\ route'[e].step = "done" /\ route'[e].previous = Nobody
          /\ \A f \in Events \ {e} : route'[f] = route[f]
      <4>1. RouteTo(e, "done", Nobody)
        BY <2>5 DEF Coalesce
      <4>2. QED
        BY <3>1, <4>1, Rows, RouteIs
    <3>3. route[e].step # "none"
      BY <2>5 DEF Coalesce
    <3>4. \A f \in Events : route'[f].previous <= live /\ (route'[f].step # "none" => f <= live)
      BY <3>1, <3>2, <3>3
    <3>5. QED
      BY <2>5, <3>4 DEF Coalesce
  <2>6. CASE ReceiptFails(e)
    BY SMTT(40), <2>6, Bounds DEF ReceiptFails, RouteTo, Fault
  <2>7. CASE Process(e)
    <3>1. Nobody \in Versions /\ Nobody <= live /\ RouteTo(e, "nowhere", Nobody)
      BY <2>7, Bounds DEF Process
    <3>2. /\ route'[e].step = "nowhere" /\ route'[e].previous = Nobody
          /\ \A f \in Events \ {e} : route'[f] = route[f]
      BY <3>1, Rows, RouteIs
    <3>3. route[e].step # "none"
      BY <2>7 DEF Process
    <3>4. \A f \in Events : route'[f].previous <= live /\ (route'[f].step # "none" => f <= live)
      BY <3>1, <3>2, <3>3
    <3>5. QED
      BY <2>7, <3>4 DEF Process
  <2>8. QED BY <1>1, <2>1, <2>2, <2>3, <2>4, <2>5, <2>6, <2>7
<1>2. CASE Change
  BY SMTT(40), <1>2, Bounds DEF Change
<1>3. CASE KeyExpires
  BY <1>3, Bounds DEF KeyExpires, NoKey
<1>4. CASE Consume
  BY <1>4, Bounds DEF Consume, NoKey
<1>5. CASE EnqueueProduct
  BY <1>5, Bounds DEF EnqueueProduct, NoJob
<1>6. CASE DebounceFails
  BY <1>6, Bounds DEF DebounceFails, Fault
<1>7. CASE TakenByOther
  <2>1. product'.event = product.event /\ product'.read = product.read
    BY <1>7, Rows, ProductSet DEF TakenByOther
  <2>2. debounce'.event = debounce.event
    BY <1>7, Rows, DebounceSet DEF TakenByOther
  <2>3. QED
    BY <1>7, <2>1, <2>2 DEF TakenByOther
<1>8. CASE Forget
  BY <1>8, Bounds DEF Forget, NoJob
<1>9. CASE LockGate
  BY ZenonT(60), <1>9, Bounds DEF LockGate, SetEvent, ProductTo, Locked, Exceeded, NextTry
<1>10. CASE Gates
  BY ZenonT(60), <1>10, Bounds DEF Gates, SetEvent, ProductTo
<1>11. CASE Read
  <2>1. product'.event = product.event /\ product'.read <= live
    <3>1. CASE Unchanged(Content[live])
      BY <1>11, <3>1, Rows, ProductSet DEF Read
    <3>2. CASE ~Unchanged(Content[live])
      <4>1. product' = [product EXCEPT !.step = "read", !.read = live]
        BY <1>11, <3>2 DEF Read
      <4>2. product'.event = product.event /\ product'.read = live
        BY <4>1, Rows DEF ProductRows
      <4>3. QED
        BY <4>2
    <3>3. QED
      BY <3>1, <3>2
  <2>2. QED
    BY <1>11, <2>1 DEF Read
<1>12. CASE Converge
  BY <1>12, Bounds DEF Converge, ProductTo
<1>13. CASE MarkProcessed
  BY <1>13, Bounds DEF MarkProcessed, SetEvent, ProductTo
<1>14. CASE ProductFails
  BY <1>14, Bounds DEF ProductFails, SetEvent, ProductTo, Fault
<1>15. ASSUME NEW k \in Scans, ScanStarts(k) \/ LockLost(k) \/ ScanReads(k) \/ ScanUnlocks(k)
       PROVE  Known'
  <2>1. \A j \in Scans : scan'[j].read \in {0, live, scan[j].read}
    BY <1>15, ScanStarted, ScanLost, ScanRead, ScanUnlocked
  <2>2. ASSUME NEW j \in Scans
        PROVE  scan'[j].read <= live
    <3>1. live \in Nat /\ scan[j].read <= live
      BY Bounds
    <3>2. scan'[j].read \in {0, live, scan[j].read}
      BY <2>1
    <3>3. QED
      BY ONLY <3>1, <3>2
  <2>3. UNCHANGED <<live, published, key, debounce, product, route>>
    BY <1>15 DEF ScanStarts, LockLost, ScanReads, ScanUnlocks
  <2>4. QED
    BY <2>2, <2>3
<1>16. ASSUME NEW k \in Scans, ScanPublishes(k)
       PROVE  Known'
  <2>1. \A j \in Scans : scan'[j].read = scan[j].read
    BY <1>16, ScanPublished
  <2>2. QED
    BY <1>16, <2>1 DEF ScanPublishes
<1>19. CASE UNCHANGED vars
  BY <1>19, Bounds DEF vars
<1>20. QED
  BY <1>1, <1>2, <1>3, <1>4, <1>5, <1>6, <1>7, <1>8, <1>9, <1>10, <1>11, <1>12, <1>13,
     <1>14, <1>15, <1>16, <1>19 DEF Next, ProductJob

\* What the comparisons need of the types
LEMMA Numbers ==
  ASSUME TypeOK
  PROVE  /\ {published, live, product.event, product.read} \subseteq Versions
         /\ \A k \in Scans : scan[k].read \in Versions
         /\ Versions \subseteq Nat
BY Rows, Bounds DEF TypeOK, Versions, ScanRows

\* A job past its gate and the scans exclude each other in an orderly run, and none
\* publishes anything older than what is there.
LEMMA ExclusiveKeeps ==
  ASSUME TypeOK, Known, Exclusive, [Next]_vars, Orderly'
  PROVE  Exclusive' /\ published' >= published
<1> USE DEF Nobody, AtWork, Exclusive, Pending, receipt, catalog, bounds
<1>1. ASSUME NEW e \in Events, \/ Receive(e) \/ Process(e) \/ TryAcquire(e) \/ EnqueueDebounce(e)
                               \/ Update(e) \/ Coalesce(e) \/ ReceiptFails(e)
     PROVE  Exclusive' /\ published' >= published
  <2>1. CASE Receive(e)
    BY <2>1, Numbers DEF Receive
  <2>2. CASE TryAcquire(e)
    BY <2>2, Numbers DEF TryAcquire, RouteTo, NoKey
  <2>3. CASE EnqueueDebounce(e)
    BY <2>3, Numbers DEF EnqueueDebounce, RouteTo
  <2>4. CASE Update(e)
    BY <2>4, Numbers DEF Update, RouteTo
  <2>5. CASE Coalesce(e)
    BY <2>5, Numbers DEF Coalesce, SetEvent, RouteTo
  <2>6. CASE ReceiptFails(e)
    BY <2>6, Numbers DEF ReceiptFails, RouteTo, Fault
  <2>7. CASE Process(e)
    BY <2>7, Numbers DEF Process
  <2>8. QED BY <1>1, <2>1, <2>2, <2>3, <2>4, <2>5, <2>6, <2>7
<1>2. CASE Change
  BY <1>2, Numbers DEF Change
<1>3. CASE KeyExpires
  BY <1>3, Numbers DEF KeyExpires, NoKey
<1>4. CASE Consume
  BY <1>4, Numbers DEF Consume, NoKey
<1>5. CASE EnqueueProduct
  BY <1>5, Numbers DEF EnqueueProduct, NoJob
<1>6. CASE DebounceFails
  BY <1>6, Numbers DEF DebounceFails, Fault
<1>7. CASE TakenByOther
  <2>1. product'.step = "done" \/ UNCHANGED product
    BY <1>7, Rows DEF TakenByOther, ProductTo, ProductRows
  <2>2. QED
    BY <1>7, <2>1, Numbers DEF TakenByOther
<1>8. CASE Forget
  BY <1>8, Numbers DEF Forget, NoJob
<1>9. CASE LockGate
  <2>1. CASE ProductTo("gated") /\ ~Locked
    <3>1. product'.step = "gated"
      BY <2>1, Rows DEF ProductTo, ProductRows
    <3>2. \A k \in Scans : ~Pending(k)
      BY <1>9, <2>1, <3>1, Rows DEF LockGate, Locked, Exceeded, Outlived, Orderly, NextTry,
         ProductTo, ProductRows, ScanRows
    <3>3. QED
      BY <1>9, <2>1, <3>1, <3>2, Numbers DEF LockGate
  <2>2. CASE ProductTo("done")
    <3>1. product'.step = "done"
      BY <2>2, Rows DEF ProductTo, ProductRows
    <3>2. QED
      BY <1>9, <3>1, Numbers DEF LockGate
  <2>3. CASE product' = [product EXCEPT !.tries = NextTry]
    <3>1. product'.step = product.step
      BY <2>3, Rows DEF ProductRows
    <3>2. QED
      BY <1>9, <3>1, Numbers DEF LockGate
  <2>4. QED
    BY <1>9, <2>1, <2>2, <2>3 DEF LockGate
<1>10. CASE Gates
  <2>1. product' \in ProductRows /\ product'.event = product.event /\ product'.read = product.read
    BY <1>10, Rows, ProductSet DEF Gates
  <2>2. QED
    BY <1>10, <2>1, Rows, Numbers DEF Gates, ProductTo, ProductRows
<1>11. CASE Read
  <2>1. CASE Unchanged(Content[live])
    <3>1. product'.step = "done"
      BY <1>11, <2>1, Rows DEF Read, ProductTo, ProductRows
    <3>2. QED
      BY <1>11, <3>1, Numbers DEF Read
  <2>2. CASE ~Unchanged(Content[live])
    <3>1. product' = [product EXCEPT !.step = "read", !.read = live]
      BY <1>11, <2>2 DEF Read
    <3>2. product'.step = "read" /\ product'.event = product.event /\ product'.read = live
      BY <3>1, Rows DEF ProductRows
    <3>3. QED
      BY <1>11, <3>2, Numbers DEF Read, Known
  <2>3. QED
    BY <2>1, <2>2
<1>12. CASE Converge
  <2>1. product' \in ProductRows /\ product'.event = product.event /\ product'.read = product.read
    BY <1>12, Rows, ProductSet DEF Converge
  <2>2. QED
    BY <1>12, <2>1, Rows, Numbers DEF Converge, ProductTo, ProductRows
<1>13. CASE MarkProcessed
  <2>1. product' \in ProductRows /\ product'.event = product.event /\ product'.read = product.read
    BY <1>13, Rows, ProductSet DEF MarkProcessed
  <2>2. QED
    BY <1>13, <2>1, Rows, Numbers DEF MarkProcessed, ProductTo, ProductRows
<1>14. CASE ProductFails
  <2>1. product' \in ProductRows /\ product'.event = product.event /\ product'.read = product.read
    BY <1>14, Rows, ProductSet DEF ProductFails
  <2>2. QED
    BY <1>14, <2>1, Rows, Numbers DEF ProductFails, ProductTo, ProductRows
<1>15. ASSUME NEW k \in Scans, ScanStarts(k)
       PROVE  Exclusive' /\ published' >= published
  <2>1. ~AtWork /\ \A j \in Scans : ~Pending(j)
    BY <1>15, Rows DEF ScanStarts, Locked, Outlived, Orderly, ScanRows
  <2>2. QED
    BY <1>15, <2>1, ScanStarted, Numbers DEF ScanStarts
<1>16. ASSUME NEW k \in Scans, ScanReads(k)
       PROVE  Exclusive' /\ published' >= published
  <2>1. ~AtWork /\ (\A j \in Scans \ {k} : ~Pending(j)) /\ UNCHANGED <<product, published>>
    BY <1>16 DEF ScanReads
  <2>2. scan'[k].read = live /\ published <= live /\ \A j \in Scans \ {k} : scan'[j] = scan[j]
    BY <1>16, ScanRead DEF Known
  <2>3. QED
    BY <2>1, <2>2, Numbers
<1>17. ASSUME NEW k \in Scans, ScanPublishes(k)
       PROVE  Exclusive' /\ published' >= published
  <2>1. \A j \in Scans \ {k} : ~Pending(j)
    BY <1>17 DEF ScanPublishes
  <2>2. \A j \in Scans : ~Pending(j)'
    BY <1>17, <2>1, ScanPublished
  <2>3. ~AtWork /\ published' = scan[k].read
    BY <1>17 DEF ScanPublishes
  <2>4. QED
    BY <1>17, <2>2, <2>3, Numbers DEF ScanPublishes
<1>18. ASSUME NEW k \in Scans, LockLost(k) \/ ScanUnlocks(k)
       PROVE  Exclusive' /\ published' >= published
  <2>1. \A j \in Scans :
          \/ scan'[j].step = "none"
          \/ scan'[j].step = scan[j].step /\ scan'[j].read = scan[j].read
    BY <1>18, ScanLost, ScanUnlocked
  <2>2. QED
    BY <1>18, <2>1, Numbers DEF LockLost, ScanUnlocks
<1>19. CASE UNCHANGED vars
  BY <1>19, Numbers DEF vars
<1>20. QED
  BY <1>1, <1>2, <1>3, <1>4, <1>5, <1>6, <1>7, <1>8, <1>9, <1>10, <1>11, <1>12, <1>13,
     <1>14, <1>15, <1>16, <1>17, <1>18, <1>19 DEF Next, ProductJob

\* Nothing is settled that was not, nothing published, and nobody is about to
LEMMA Frame ==
  ASSUME TypeOK, Settled, UNCHANGED <<live, catalog>>,
         \A f \in Events : SettledHere(f)' => SettledHere(f),
         product'.step = "read" => product.step = "read" /\ product'.read = product.read,
         \A k \in Scans : scan'[k].step = "read" =>
           scan[k].step = "read" /\ scan'[k].read = scan[k].read
  PROVE  Settled'
BY DEF Settled, catalog

\* A change of a route that does not lead away from nowhere
LEMMA DoneKept ==
  ASSUME TypeOK, NEW e \in Events, NEW s, NEW p, RouteTo(e, s, p), route[e].step # "nowhere",
         UNCHANGED event
  PROVE  \A f \in Events : SettledHere(f)' => SettledHere(f)
BY Rows DEF RouteTo, SettledHere

\* What is settled stays in the catalog as long as nobody raced, outlived the lock or
\* overtook a fingerprint.
LEMMA SettledKeeps ==
  ASSUME TypeOK, Known, Exclusive, Settled, [Next]_vars, seen' = {}
  PROVE  Settled'
<1> USE DEF receipt, catalog, bounds
<1>1. ASSUME NEW e \in Events, \/ Receive(e) \/ Process(e) \/ TryAcquire(e) \/ EnqueueDebounce(e)
                               \/ Update(e) \/ Coalesce(e) \/ ReceiptFails(e)
     PROVE  Settled'
  <2>1. CASE Receive(e)
    <3>1. \A f \in Events : event'[f] \in Settles => event[f] \in Settles /\ f # e
      BY <2>1, EventSet DEF Receive, TypeOK, Settles, Statuses, Skips
    <3>2. \A f \in Events : SettledHere(f)' => SettledHere(f)
      BY <2>1, <3>1, Received DEF SettledHere
    <3>3. QED
      BY <2>1, Frame, <3>2 DEF Receive
  <2>2. CASE TryAcquire(e)
    <3>1. PICK s, p : RouteTo(e, s, p)
      BY <2>2 DEF TryAcquire
    <3>2. QED
      BY <2>2, <3>1, DoneKept, Frame DEF TryAcquire
  <2>3. CASE EnqueueDebounce(e)
    BY <2>3, DoneKept, Frame DEF EnqueueDebounce
  <2>4. CASE Update(e)
    BY <2>4, DoneKept, Frame DEF Update
  <2>5. CASE Coalesce(e)
    <3>1. \A f \in Events : event'[f] \in Settles => event[f] \in Settles
      BY <2>5, EventSet DEF Coalesce, TypeOK, Settles, Statuses, Skips
    <3>2. \A f \in Events : route[f].step = "nowhere" => route'[f].step = "nowhere"
      BY <2>5, Rows DEF Coalesce, RouteTo
    <3>3. \A f \in Events : SettledHere(f)' => SettledHere(f)
      BY <3>1, <3>2 DEF SettledHere
    <3>4. QED
      BY <2>5, Frame, <3>3 DEF Coalesce
  <2>6. CASE ReceiptFails(e)
    BY <2>6, DoneKept, Frame DEF ReceiptFails
  <2>7. CASE Process(e)
    <3>1. \A f \in Events \ {e} : event'[f] = event[f] /\ route'[f] = route[f]
      BY <2>7, EventSet, Rows DEF Process, RouteTo, TypeOK, Statuses
    <3>2. route'[e].step = "nowhere"
      BY <2>7, Rows DEF Process, RouteTo
    <3>3. \A f \in Events : SettledHere(f)' => SettledHere(f)
      BY <3>1, <3>2 DEF SettledHere
    <3>4. QED
      BY <2>7, Frame, <3>3 DEF Process
  <2>8. QED BY <1>1, <2>1, <2>2, <2>3, <2>4, <2>5, <2>6, <2>7
<1>2. CASE Change
  <2>1. live \in Nat /\ live' = live + 1
    BY <1>2, Numbers DEF Change
  <2>2. ASSUME NEW e \in Events, SettledHere(e)
        PROVE  \E v \in e .. live' : Content[v] = Content[published]
    <3>1. PICK v \in e .. live : Content[v] = Content[published]
      BY <2>2 DEF Settled
    <3>2. v \in e .. live'
      BY <2>1, <3>1, Numbers DEF Events, Versions
    <3>3. QED
      BY <3>1, <3>2
  <2>3. QED
    BY <1>2, <2>2 DEF Change, Settled, SettledHere
<1>3. CASE KeyExpires
  BY <1>3, Frame DEF KeyExpires, SettledHere
<1>4. CASE Consume
  BY <1>4, Frame DEF Consume, SettledHere
<1>5. CASE EnqueueProduct
  <2>1. product'.step = "read" => product.step = "read" /\ product'.read = product.read
    BY <1>5 DEF EnqueueProduct, NoJob
  <2>2. QED
    BY <1>5, Frame, <2>1 DEF EnqueueProduct, SettledHere
<1>6. CASE DebounceFails
  BY <1>6, Frame DEF DebounceFails, SettledHere
<1>7. CASE TakenByOther
  <2>1. product'.step = "read" => product.step = "read" /\ product'.read = product.read
    BY <1>7, Rows DEF TakenByOther, ProductTo, ProductRows
  <2>2. QED
    BY <1>7, Frame, <2>1 DEF TakenByOther, SettledHere
<1>8. CASE Forget
  <2>1. product'.step = "read" => product.step = "read" /\ product'.read = product.read
    BY <1>8 DEF Forget, NoJob
  <2>2. QED
    BY <1>8, Frame, <2>1 DEF Forget, SettledHere
<1>9. CASE LockGate
  <2>1. \A f \in Events : SettledHere(f)' => SettledHere(f)
    BY <1>9, EventSet DEF LockGate, TypeOK, Settles, Statuses, Skips, SettledHere
  <2>2. product'.step = "read" => product.step = "read" /\ product'.read = product.read
    BY <1>9, Rows DEF LockGate, ProductTo, ProductRows
  <2>3. QED
    BY <1>9, Frame, <2>1, <2>2 DEF LockGate
<1>10. CASE Gates
  <2>1. \A f \in Events : SettledHere(f)' => SettledHere(f)
    BY <1>10, EventSet DEF Gates, TypeOK, Settles, Statuses, Skips, SettledHere
  <2>2. product'.step = "read" => product.step = "read" /\ product'.read = product.read
    BY <1>10, Rows DEF Gates, ProductTo, ProductRows
  <2>3. QED
    BY <1>10, Frame, <2>1, <2>2 DEF Gates
<1>11. CASE Read
  <2>1. CASE Unchanged(Content[live])
    <3>1. \A f \in Events : SettledHere(f)' => SettledHere(f) \/ f = product.event
      BY <1>11, <2>1, EventSet DEF Read, TypeOK, Statuses, Skips, Settles, SettledHere
    <3>2. product'.step = "done"
      BY <1>11, <2>1, Rows DEF Read, ProductTo, ProductRows
    <3>3. Content[live] = Content[published] /\ live \in product.event .. live
      BY <2>1, Numbers, Bounds DEF Unchanged, Settled, Known
    <3>4. UNCHANGED <<live, published, fingerprint, scan>>
      BY <1>11 DEF Read
    <3>5. \A k \in Scans : scan[k].step # "read"
      BY <1>11 DEF Read, Exclusive, AtWork, Pending
    <3>6. ASSUME NEW f \in Events, SettledHere(f)'
          PROVE  \E v \in f .. live : Content[v] = Content[published]
      <4>1. CASE f = product.event
        BY <3>3, <4>1
      <4>2. CASE SettledHere(f)
        BY <4>2 DEF Settled
      <4>3. QED
        BY <3>1, <3>6, <4>1, <4>2
    <3>7. QED
      BY <3>2, <3>4, <3>5, <3>6 DEF Settled
  <2>2. CASE ~Unchanged(Content[live])
    <3>1. product' = [product EXCEPT !.step = "read", !.read = live]
      BY <1>11, <2>2 DEF Read
    <3>2. product'.read = live
      BY <3>1, Rows DEF ProductRows
    <3>3. \A f \in Events : SettledHere(f) => f <= live
      BY Numbers DEF Settled, Events, Versions
    <3>4. QED
      BY <1>11, <2>2, <3>2, <3>3 DEF Read, Settled, SettledHere
  <2>3. QED
    BY <2>1, <2>2
<1>12. CASE Converge
  <2>1. /\ product.step = "read" /\ product'.step = "converged"
        /\ \A k \in Scans : scan[k].step # "read"
    BY <1>12, Rows DEF Converge, ProductTo, ProductRows, Exclusive, AtWork, Pending
  <2>2. ASSUME NEW e \in Events, SettledHere(e)
        PROVE  \E v \in e .. live : Content[v] = Content[product.read]
    <3>1. product.read \in e .. live
      BY <2>1, <2>2, Numbers DEF Settled, Known, Events, Versions
    <3>2. QED
      BY <3>1
  <2>3. QED
    BY <1>12, <2>1, <2>2 DEF Converge, Settled, SettledHere
<1>13. CASE MarkProcessed
  <2>1. \A f \in Events : SettledHere(f)' => SettledHere(f) \/ f = product.event
    BY <1>13, EventSet DEF MarkProcessed, TypeOK, Statuses, Skips, Settles, SettledHere
  <2>2. product'.step = "done"
    BY <1>13, Rows DEF MarkProcessed, ProductTo, ProductRows
  <2>3. (\A k \in Scans : scan[k].step # "read") /\ published \in product.event .. live
    BY <1>13, Numbers DEF MarkProcessed, Exclusive, AtWork, Known, Pending
  <2>4. ASSUME NEW f \in Events, SettledHere(f)'
        PROVE  \E v \in f .. live : Content[v] = Content[published]
    <3>1. CASE f = product.event
      BY <2>3, <3>1
    <3>2. CASE SettledHere(f)
      BY <3>2 DEF Settled
    <3>3. QED
      BY <2>1, <2>4, <3>1, <3>2
  <2>5. QED
    BY <1>13, <2>2, <2>3, <2>4 DEF MarkProcessed, Settled
<1>14. CASE ProductFails
  <2>1. \A f \in Events : SettledHere(f)' => SettledHere(f)
    BY <1>14, EventSet DEF ProductFails, TypeOK, Settles, Statuses, Skips, SettledHere
  <2>2. product'.step = "read" => product.step = "read" /\ product'.read = product.read
    BY <1>14, Rows DEF ProductFails, ProductTo, ProductRows
  <2>3. QED
    BY <1>14, Frame, <2>1, <2>2 DEF ProductFails
<1>15. ASSUME NEW k \in Scans, ScanStarts(k)
       PROVE  Settled'
  <2>1. \A j \in Scans : scan'[j].step = "read" =>
          scan[j].step = "read" /\ scan'[j].read = scan[j].read
    BY <1>15, ScanStarted
  <2>2. QED
    BY <1>15, Frame, <2>1 DEF ScanStarts, SettledHere
<1>16. ASSUME NEW k \in Scans, ScanReads(k)
       PROVE  Settled'
  <2>1. /\ product.step # "read"
        /\ UNCHANGED <<live, event, route, product, published, fingerprint>>
        /\ \A j \in Scans : scan'[j].step = "read" => scan'[j].read \in {live, scan[j].read}
    BY <1>16, ScanRead DEF ScanReads, Exclusive, AtWork, Pending
  <2>2. \A f \in Events : SettledHere(f) => f <= live
    BY Numbers DEF Settled, Events, Versions
  <2>3. \A j \in Scans : scan'[j].step = "read" => 
           \/ scan'[j].read = live
           \/ scan[j].step = "read" /\ scan'[j].read = scan[j].read
    BY <1>16, ScanRead
  <2>4. QED
    BY <2>1, <2>2, <2>3 DEF Settled, SettledHere
<1>17. ASSUME NEW k \in Scans, ScanPublishes(k)
       PROVE  Settled'
  <2>1. /\ scan[k].step = "read" /\ product.step # "read"
        /\ UNCHANGED <<live, event, route, product, fingerprint>> /\ published' = scan[k].read
    BY <1>17 DEF ScanPublishes, Exclusive, AtWork, Pending
  <2>2. \A j \in Scans : scan'[j].step # "read"
    BY <1>17, ScanPublished DEF ScanPublishes, Exclusive, Pending
  <2>3. ASSUME NEW e \in Events, SettledHere(e)
        PROVE  \E v \in e .. live : Content[v] = Content[scan[k].read]
    <3>1. scan[k].read \in e .. live
      BY <2>1, <2>3, Numbers DEF Settled, Known, Events, Versions
    <3>2. QED
      BY <3>1
  <2>4. fingerprint \in {Unknown, Content[scan[k].read]}
    BY <1>17 DEF ScanPublishes
  <2>5. QED
    BY <2>1, <2>2, <2>3, <2>4 DEF Settled, SettledHere
<1>18. ASSUME NEW k \in Scans, LockLost(k) \/ ScanUnlocks(k)
       PROVE  Settled'
  <2>1. \A j \in Scans : scan'[j].step = "read" =>
          scan[j].step = "read" /\ scan'[j].read = scan[j].read
    BY <1>18, ScanLost, ScanUnlocked
  <2>2. QED
    BY <1>18, Frame, <2>1 DEF LockLost, ScanUnlocks, SettledHere
<1>19. CASE UNCHANGED vars
  BY <1>19, Frame DEF vars, SettledHere
<1>20. QED
  BY <1>1, <1>2, <1>3, <1>4, <1>5, <1>6, <1>7, <1>8, <1>9, <1>10, <1>11, <1>12, <1>13,
     <1>14, <1>15, <1>16, <1>17, <1>18, <1>19 DEF Next, ProductJob

-----------------------------------------------------------------------------
\* The invariant holds in every state of every behaviour.
THEOREM Invariant == Spec => []IInv
<1>1. Init => IInv
  <2>1. ASSUME Init
        PROVE  /\ live = 0 /\ published = 0 /\ fingerprint = Unknown /\ scans = 0 /\ faults = 0
               /\ event = [e \in Events |-> "NONE"]
               /\ route = [e \in Events |-> [step |-> "none", previous |-> 0]]
               /\ key = [event |-> 0, again |-> FALSE]
               /\ debounce = [step |-> "none", event |-> 0]
               /\ product = [step |-> "none", event |-> 0, tries |-> 0, read |-> 0]
               /\ scan = [k \in Scans |-> [step |-> "none", read |-> 0, held |-> FALSE]]
               /\ seen = {}
    BY <2>1 DEF Init, NoKey, NoJob, NoScan, Nobody
  <2>2. Init => TypeOK
    <3>1. 0 \in Versions /\ 0 \in 0 .. MaxLockRetries /\ 0 \in 0 .. MaxScans /\ 0 \in 0 .. MaxFaults
      BY Bounds DEF Versions
    <3>2. SUFFICES ASSUME Init
                   PROVE  TypeOK
      OBVIOUS
    <3>3. event \in [Events -> Statuses] /\ route \in [Events -> RouteRows]
      BY <2>1, <3>1, <3>2 DEF Statuses, RouteRows
    <3>4. key \in KeyRows /\ debounce \in DebounceRows /\ product \in ProductRows
      <4>1. key \in KeyRows
        <5>1. \A b \in BOOLEAN : [event |-> 0, again |-> b] \in KeyRows
          BY <3>1 DEF KeyRows
        <5>2. QED
          BY <2>1, <3>2, <5>1
      <4>2. debounce \in DebounceRows
        BY <2>1, <3>1, <3>2 DEF DebounceRows
      <4>3. [step |-> "none", event |-> 0, tries |-> 0, read |-> 0] \in ProductRows
        BY <3>1 DEF ProductRows
      <4>4. QED
        BY <2>1, <3>2, <4>1, <4>2, <4>3
    <3>5. fingerprint \in Contents
      BY <2>1, <3>2 DEF Contents
    <3>7. scan \in [Scans -> ScanRows]
      <4>1. [step |-> "none", read |-> 0, held |-> FALSE] \in ScanRows
        BY <3>1 DEF ScanRows
      <4>2. QED
        BY <2>1, <3>2, <4>1
    <3>6. QED
      BY <2>1, <3>1, <3>2, <3>3, <3>4, <3>5, <3>7
         DEF TypeOK, RouteRows, KeyRows, DebounceRows, ProductRows, ScanRows
  <2>3. Init => Known /\ Exclusive
    BY <2>1 DEF Known, Exclusive, AtWork, Pending
  <2>4. Init => Settled
    BY <2>1 DEF Settled, Settles, SettledHere
  <2>5. QED
    BY <2>2, <2>3, <2>4 DEF IInv
<1>2. IInv /\ [Next]_vars => IInv'
  <2>1. SUFFICES ASSUME IInv, [Next]_vars
                 PROVE  IInv'
    OBVIOUS
  <2>2. TypeOK' /\ Known'
    BY <2>1, TypeKeeps, KnownKeeps DEF IInv
  <2>3. seen \subseteq seen'
    BY <2>1 DEF Next, ProductJob, vars, Change, Receive, TryAcquire, EnqueueDebounce, Update,
      Coalesce, ReceiptFails, Process, LockLost, KeyExpires, Consume, EnqueueProduct,
      DebounceFails, TakenByOther, Forget, LockGate, Gates, Read, Converge, MarkProcessed, ProductFails, ScanStarts,
      ScanReads, ScanPublishes, ScanUnlocks
  <2>4. Orderly' => Exclusive'
    BY <2>1, <2>3, ExclusiveKeeps DEF IInv, Orderly
  <2>5. seen' = {} => Settled'
    BY <2>1, <2>3, SettledKeeps DEF IInv, Orderly
  <2>6. QED
    BY <2>2, <2>4, <2>5 DEF IInv
<1>3. QED
  BY <1>1, <1>2, PTL DEF Spec

\* The types of the variables
THEOREM TypeCorrect == Spec => []TypeOK
<1>1. IInv => TypeOK
  BY DEF IInv
<1>2. QED
  BY Invariant, <1>1, PTL

\* The catalog never goes back to older images, unless a scan started while a job was
\* past its lock gate, or a job or a scan passed a lock that a scan had lost before it
\* published.
THEOREM CatalogGoesForward == Spec => NeverBackwards
<1>1. IInv /\ [Next]_vars => [published' >= published \/ seen \cap {"raced", "outlived"} # {}]_vars
  <2>1. SUFFICES ASSUME IInv, [Next]_vars, Orderly
                 PROVE  published' >= published
    BY DEF Orderly
  <2>2. CASE Orderly'
    BY <2>1, <2>2, ExclusiveKeeps DEF IInv
  <2>3. CASE ~Orderly'
    <3>1. CASE \E k \in Scans : ScanPublishes(k)
      <4>1. PICK k \in Scans : ScanPublishes(k)
        BY <3>1
      <4>2. Orderly'
        BY <2>1, <4>1 DEF ScanPublishes, Orderly
      <4>3. QED
        BY <2>3, <4>2
    <3>2. CASE Converge
      <4>1. Orderly'
        BY <2>1, <3>2 DEF Converge, Orderly
      <4>2. QED
        BY <2>3, <4>1
    <3>3. ASSUME ~Converge, ~ \E k \in Scans : ScanPublishes(k)
          PROVE  published' = published
      <4>1. ASSUME NEW e \in Events, \/ Receive(e) \/ Process(e) \/ TryAcquire(e)
                                     \/ EnqueueDebounce(e) \/ Update(e) \/ Coalesce(e)
                                     \/ ReceiptFails(e)
            PROVE  published' = published
        BY <4>1 DEF catalog, Receive, Process, TryAcquire, EnqueueDebounce, Update, Coalesce,
           ReceiptFails
      <4>2. ASSUME NEW k \in Scans, \/ ScanStarts(k) \/ LockLost(k) \/ ScanReads(k)
                                    \/ ScanUnlocks(k)
            PROVE  published' = published
        BY <4>2 DEF catalog, ScanStarts, LockLost, ScanReads, ScanUnlocks
      <4>3. CASE \/ Change \/ KeyExpires \/ Consume \/ EnqueueProduct \/ DebounceFails
                 \/ TakenByOther \/ Forget
        BY <4>3 DEF catalog, Change, KeyExpires, Consume, EnqueueProduct, DebounceFails,
           TakenByOther, Forget
      <4>4. CASE LockGate \/ Gates \/ Read \/ MarkProcessed \/ ProductFails
        BY <4>4 DEF catalog, LockGate, Gates, Read, MarkProcessed, ProductFails
      <4>5. CASE UNCHANGED vars
        BY <4>5 DEF vars, catalog
      <4>6. QED
        BY <2>1, <3>3, <4>1, <4>2, <4>3, <4>4, <4>5 DEF Next, ProductJob
    <3>4. QED
      BY <2>1, <3>1, <3>2, <3>3, Numbers DEF IInv
  <2>4. QED
    BY <2>2, <2>3
<1>2. QED
  BY Invariant, <1>1, PTL DEF Spec, NeverBackwards

\* An event that is settled is in the catalog, unless a scan raced a job, somebody passed
\* a lock that a scan had lost, or a scan overtook a fingerprint; and unless it went to
\* the other webhooks' queue.
THEOREM SettledEventShows == Spec => []SettledIsPublished
<1>1. IInv => SettledIsPublished
  BY DEF IInv, Settled, Settles, SettledHere, SettledIsPublished
<1>2. QED
  BY Invariant, <1>1, PTL

-----------------------------------------------------------------------------
(***************************************************************************)
(* Installation, for any number of webhooks, authentications and faults:   *)
(* once the row of a shop is gone nothing of it is left.                   *)
(*                                                                         *)
(* The tables are emptied in one order, the row of the shop last.  So what *)
(* the deletion has behind it stays empty, unless somebody writes beside   *)
(* it or the table failed (CallsAreGone, SessionIsGone); and without the   *)
(* row of the shop nobody writes there.                                    *)
(***************************************************************************)
\* The deletion job has a position in the tables.
DeletionRow ==
  /\ deletion = [id |-> deletion.id, at |-> deletion.at]
  /\ deletion.at \in 0 .. 5
  /\ Shop!Deleting => deletion.at \in 1 .. 5

\* The ids of shops are given once.
IdsGrow == ids \in Nat /\ shop.id \in Nat /\ shop = [id |-> shop.id, left |-> shop.left]

\* A shop without a row has no data.
NothingIsLeft == \A id \in 1 .. ids : id # shop.id /\ id \notin missed => id \notin rows \cup calls

\* The deletion has emptied ai_model_call, ...
CallsAreGone == deletion.at > 3 /\ deletion.id \notin missed => deletion.id \notin calls

\* ... and the sessions of the domain; the next one comes with an authentication.
SessionIsGone ==
  /\ deletion.at > 4 /\ 0 \notin missed => ~session
  /\ shop.id = 0 /\ auth.step # "persist" /\ 0 \notin missed => ~session

ShopInv == DeletionRow /\ IdsGrow /\ NothingIsLeft /\ CallsAreGone /\ SessionIsGone

-----------------------------------------------------------------------------
\* A step that writes neither the data nor the deletion
LEMMA ShopFrame ==
  ASSUME ShopInv, UNCHANGED <<shop, ids, session, rows, calls, deletion>>, missed \subseteq missed',
         auth'.step # "persist" => auth.step # "persist" \/ shop.id # 0 \/ 0 \in missed'
  PROVE  ShopInv'
<1>1. DeletionRow' /\ IdsGrow'
  BY DEF ShopInv, DeletionRow, IdsGrow, Shop!Deleting
<1>2. NothingIsLeft' /\ CallsAreGone' /\ SessionIsGone'
  BY DEF ShopInv, NothingIsLeft, CallsAreGone, SessionIsGone
<1>3. QED
  BY <1>1, <1>2 DEF ShopInv

\* The next table, or the end of the job
LEMMA Advances ==
  ASSUME DeletionRow, Shop!Deleting, Shop!Advance
  PROVE  /\ DeletionRow'
         /\ \/ deletion'.at = 0
            \/ deletion'.at = deletion.at + 1 /\ deletion'.id = deletion.id /\ deletion.at < 5
<1>1. Len(Shop!Tables) = 5
  BY DEF Shop!Tables
<1>2. CASE deletion.at = 5
  BY <1>1, <1>2 DEF Shop!Advance, Shop!Over, Shop!NoDeletion, DeletionRow, Shop!Deleting
<1>3. CASE deletion.at # 5
  <2>1. PICK n \in 1 .. 4 : n = deletion.at
    BY <1>3 DEF DeletionRow
  <2>2. PICK d : d = deletion.id
    OBVIOUS
  <2>3. deletion = [id |-> d, at |-> n] /\ deletion' = [deletion EXCEPT !.at = @ + 1]
    BY <1>1, <2>1, <2>2 DEF Shop!Advance, DeletionRow
  <2>4. deletion' = [id |-> d, at |-> n + 1]
    BY <2>3
  <2>5. QED
    BY <2>1, <2>2, <2>4 DEF DeletionRow, Shop!Deleting, Shop!NoDeletion
<1>4. QED
  BY <1>2, <1>3

LEMMA AuthenticateKeeps ==
  ASSUME ShopInv, Shop!Authenticate
  PROVE  ShopInv'
<1>1. /\ UNCHANGED <<shop, ids, rows, calls, deletion>> /\ auth'.step = "persist"
      /\ missed \subseteq missed' /\ (Shop!Deleting => 0 \in missed')
  BY DEF Shop!Authenticate, Shop!jobVars
<1>2. DeletionRow' /\ IdsGrow' /\ NothingIsLeft' /\ CallsAreGone'
  BY <1>1 DEF ShopInv, DeletionRow, IdsGrow, Shop!Deleting, NothingIsLeft, CallsAreGone
<1>3. deletion.at > 4 => Shop!Deleting
  BY DEF Shop!Deleting, Shop!NoDeletion
<1>4. SessionIsGone'
  BY <1>1, <1>3 DEF SessionIsGone
<1>5. QED
  BY <1>2, <1>4 DEF ShopInv

LEMMA PersistKeeps ==
  ASSUME ShopInv, Shop!Persist
  PROVE  ShopInv'
<1>1. UNCHANGED <<session, rows, calls, deletion>> /\ missed \subseteq missed'
  BY DEF Shop!Persist, Shop!jobVars
<1>2. PICK i : i = IF shop.id = 0 THEN ids + 1 ELSE shop.id
  OBVIOUS
<1>3. shop' = [id |-> i, left |-> FALSE] /\ ids' = IF shop.id = 0 THEN i ELSE ids
  BY <1>2 DEF Shop!Persist
<1>4. i \in Nat /\ i # 0 /\ ids \in Nat
  BY <1>2 DEF ShopInv, IdsGrow
<1>5. DeletionRow' /\ IdsGrow'
  BY <1>1, <1>3, <1>4 DEF ShopInv, DeletionRow, IdsGrow, Shop!Deleting
<1>6. NothingIsLeft'
  <2>1. \A id \in 1 .. ids' : id # i => id \in 1 .. ids /\ id # shop.id
    BY <1>2, <1>3, <1>4 DEF ShopInv, IdsGrow
  <2>2. QED
    BY <1>1, <1>3, <2>1 DEF ShopInv, NothingIsLeft
<1>7. CallsAreGone' /\ SessionIsGone'
  BY <1>1, <1>3, <1>4 DEF ShopInv, CallsAreGone, SessionIsGone
<1>8. QED
  BY <1>5, <1>6, <1>7 DEF ShopInv

LEMMA BootstrapKeeps ==
  ASSUME ShopInv, Shop!Bootstrap
  PROVE  ShopInv'
<1>1. UNCHANGED <<shop, ids, session, calls, deletion, missed>> /\ auth.step # "persist"
  BY DEF Shop!Bootstrap, Shop!jobVars
<1>2. rows' \subseteq rows \cup {shop.id}
  BY DEF Shop!Bootstrap
<1>3. QED
  BY <1>1, <1>2 DEF ShopInv, DeletionRow, IdsGrow, Shop!Deleting, NothingIsLeft, CallsAreGone,
     SessionIsGone

LEMMA RecordCallKeeps ==
  ASSUME ShopInv, Shop!RecordCall
  PROVE  ShopInv'
<1>1. UNCHANGED <<shop, ids, auth, session, deletion>> /\ missed \subseteq missed'
  BY DEF Shop!RecordCall, Shop!jobVars
<1>2. rows' \subseteq rows \cup {shop.id} /\ calls' = calls \cup {busy}
  BY DEF Shop!RecordCall
<1>3. shop.id # busy \/ deletion.id = busy => busy \in missed'
  BY DEF Shop!RecordCall
<1>4. DeletionRow' /\ IdsGrow'
  BY <1>1 DEF ShopInv, DeletionRow, IdsGrow, Shop!Deleting
<1>5. NothingIsLeft' /\ CallsAreGone'
  BY <1>1, <1>2, <1>3 DEF ShopInv, NothingIsLeft, CallsAreGone
<1>6. SessionIsGone'
  BY <1>1 DEF ShopInv, SessionIsGone
<1>7. QED
  BY <1>4, <1>5, <1>6 DEF ShopInv

LEMMA MarkLeftKeeps ==
  ASSUME ShopInv, NEW h, Shop!MarkLeft(h)
  PROVE  ShopInv'
<1>1. /\ UNCHANGED <<ids, auth, session, rows, calls, deletion, missed>>
      /\ UNCHANGED shop \/ shop' = [shop EXCEPT !.left = TRUE]
  BY DEF Shop!MarkLeft, Shop!jobVars
<1>2. shop'.id = shop.id /\ IdsGrow'
  <2>1. ASSUME NEW b, NEW s, s = [shop EXCEPT !.left = b]
        PROVE  s.id = shop.id /\ s = [id |-> s.id, left |-> s.left]
    BY <2>1 DEF ShopInv, IdsGrow
  <2>2. CASE UNCHANGED shop
    BY <1>1, <2>2 DEF ShopInv, IdsGrow
  <2>3. CASE shop' = [shop EXCEPT !.left = TRUE]
    <3>1. shop'.id = shop.id /\ shop' = [id |-> shop'.id, left |-> shop'.left]
      BY <2>1, <2>3
    <3>2. QED
      BY <1>1, <3>1 DEF ShopInv, IdsGrow
  <2>4. QED
    BY <1>1, <2>2, <2>3
<1>3. QED
  BY <1>1, <1>2 DEF ShopInv, DeletionRow, Shop!Deleting, NothingIsLeft, CallsAreGone, SessionIsGone

LEMMA BeginDeletionKeeps ==
  ASSUME ShopInv, NEW id, Shop!BeginDeletion(id)
  PROVE  ShopInv'
<1>1. UNCHANGED <<shop, ids, auth, session, rows, calls, missed>>
  BY DEF Shop!BeginDeletion, Shop!shopVars
<1>2. deletion' = [id |-> id, at |-> 1] \/ deletion' = Shop!NoDeletion
  BY DEF Shop!BeginDeletion, Shop!Over
<1>3. DeletionRow' /\ deletion'.at < 2
  BY <1>2 DEF DeletionRow, Shop!Deleting, Shop!NoDeletion
<1>4. QED
  BY <1>1, <1>3 DEF ShopInv, DeletionRow, IdsGrow, NothingIsLeft, CallsAreGone, SessionIsGone

LEMMA DeleteTableKeeps ==
  ASSUME ShopInv, Shop!DeleteTable
  PROVE  ShopInv'
<1>1. UNCHANGED <<ids, auth, missed>>
  BY DEF Shop!DeleteTable
<1>2. PICK d, n : d = deletion.id /\ n = deletion.at /\ n \in 1 .. 5
  BY DEF Shop!DeleteTable, ShopInv, DeletionRow
<1>3. PICK table : table = Shop!Tables[n]
  OBVIOUS
<1>4. /\ n = 1 => table = "cascading"
      /\ n = 2 => table = "webhook_events"
      /\ n = 3 => table = "ai_model_call"
      /\ n = 4 => table = "Session"
      /\ n = 5 => table = "shops"
  BY <1>3 DEF Shop!Tables
<1>5. /\ rows' \subseteq rows /\ calls' \subseteq calls
      /\ table = "shops" /\ shop.id = d => d \notin rows' /\ shop' = [id |-> 0, left |-> FALSE]
      /\ ~(table = "shops" /\ shop.id = d) => UNCHANGED shop
      /\ table = "ai_model_call" => d \notin calls'
      /\ table = "Session" => ~session'
      /\ ~session => ~session'
  BY <1>2, <1>3 DEF Shop!DeleteTable, Shop!Delete
<1>6. /\ DeletionRow'
      /\ deletion'.at = 0 \/ (deletion'.at = n + 1 /\ deletion'.id = d /\ n < 5)
  BY <1>2, Advances DEF Shop!DeleteTable, ShopInv
<1>7. IdsGrow'
  BY <1>1, <1>5 DEF ShopInv, IdsGrow
<1>8. NothingIsLeft'
  <2>1. CASE table = "shops" /\ shop.id = d
    <3>1. n = 5
      BY <1>2, <1>4, <2>1
    <3>2. d \notin missed => d \notin calls
      BY <1>2, <3>1 DEF ShopInv, CallsAreGone
    <3>3. QED
      BY <1>1, <1>5, <2>1, <3>2 DEF ShopInv, NothingIsLeft
  <2>2. CASE ~(table = "shops" /\ shop.id = d)
    BY <1>1, <1>5, <2>2 DEF ShopInv, NothingIsLeft
  <2>3. QED
    BY <2>1, <2>2
<1>9. CallsAreGone'
  <2>1. CASE n = 3
    BY <1>1, <1>4, <1>5, <1>6, <2>1 DEF CallsAreGone
  <2>2. CASE n > 3
    BY <1>1, <1>2, <1>5, <1>6, <2>2 DEF ShopInv, CallsAreGone
  <2>3. CASE n < 3
    BY <1>2, <1>6, <2>3 DEF CallsAreGone
  <2>4. QED
    BY <1>2, <2>1, <2>2, <2>3
<1>10. SessionIsGone'
  <2>1. deletion'.at > 4 => ~session'
    BY <1>2, <1>4, <1>5, <1>6
  <2>2. ASSUME shop'.id = 0, auth'.step # "persist", 0 \notin missed'
        PROVE  ~session'
    <3>1. CASE table = "shops" /\ shop.id = d
      <4>1. n = 5
        BY <1>2, <1>4, <3>1
      <4>2. QED
        BY <1>1, <1>2, <1>5, <2>2, <4>1 DEF ShopInv, SessionIsGone
    <3>2. CASE ~(table = "shops" /\ shop.id = d)
      BY <1>1, <1>5, <2>2, <3>2 DEF ShopInv, SessionIsGone
    <3>3. QED
      BY <3>1, <3>2
  <2>3. QED
    BY <2>1, <2>2 DEF SessionIsGone
<1>11. QED
  BY <1>6, <1>7, <1>8, <1>9, <1>10 DEF ShopInv

LEMMA TableFailsKeeps ==
  ASSUME ShopInv, Shop!TableFails
  PROVE  ShopInv'
<1>1. UNCHANGED <<shop, ids, auth, session, rows, calls>>
  BY DEF Shop!TableFails, Shop!shopVars
<1>2. PICK d, n : d = deletion.id /\ n = deletion.at /\ n \in 1 .. 5
  BY DEF Shop!TableFails, ShopInv, DeletionRow
<1>3. /\ n = 3 => Shop!Tables[n] = "ai_model_call"
      /\ n = 4 => Shop!Tables[n] = "Session"
  BY DEF Shop!Tables
<1>4. /\ missed \subseteq missed'
      /\ n = 3 => d \in missed'
      /\ n = 4 => 0 \in missed'
  BY <1>2, <1>3 DEF Shop!TableFails
<1>5. /\ DeletionRow'
      /\ deletion'.at = 0 \/ (deletion'.at = n + 1 /\ deletion'.id = d /\ n < 5)
  BY <1>2, Advances DEF Shop!TableFails, ShopInv
<1>6. IdsGrow' /\ NothingIsLeft'
  BY <1>1, <1>4 DEF ShopInv, IdsGrow, NothingIsLeft
<1>7. CallsAreGone'
  BY <1>1, <1>2, <1>4, <1>5 DEF ShopInv, CallsAreGone
<1>8. SessionIsGone'
  BY <1>1, <1>2, <1>4, <1>5 DEF ShopInv, SessionIsGone
<1>9. QED
  BY <1>5, <1>6, <1>7, <1>8 DEF ShopInv

LEMMA WorkerDiesKeeps ==
  ASSUME ShopInv, Shop!WorkerDies
  PROVE  ShopInv'
<1>1. UNCHANGED <<shop, ids, auth, session, rows, calls, missed>> /\ deletion' = Shop!NoDeletion
  BY DEF Shop!WorkerDies, Shop!shopVars
<1>2. DeletionRow' /\ deletion'.at = 0
  BY <1>1 DEF DeletionRow, Shop!Deleting, Shop!NoDeletion
<1>3. QED
  BY <1>1, <1>2 DEF ShopInv, IdsGrow, NothingIsLeft, CallsAreGone, SessionIsGone

-----------------------------------------------------------------------------
LEMMA ShopNext ==
  ASSUME ShopInv, [Shop!Next]_Shop!vars
  PROVE  ShopInv'
<1>1. CASE Shop!Authenticate \/ Shop!Persist \/ Shop!Bootstrap \/ Shop!RecordCall
  BY <1>1, AuthenticateKeeps, PersistKeeps, BootstrapKeeps, RecordCallKeeps
<1>2. CASE Shop!AuthFails
  BY <1>2, ShopFrame DEF Shop!AuthFails, Shop!shopVars, Shop!jobVars
<1>3. CASE Shop!Generate
  BY <1>3, ShopFrame DEF Shop!Generate, Shop!shopVars, Shop!jobVars
<1>4. ASSUME NEW h \in Shop!Hooks, Shop!Uninstall(h) \/ Shop!Redact(h) \/ Shop!RedactCustomer(h)
      PROVE  ShopInv'
  BY <1>4, ShopFrame DEF Shop!Uninstall, Shop!Redact, Shop!RedactCustomer, Shop!shopVars,
     Shop!jobVars
<1>5. ASSUME NEW h \in Shop!Hooks,
             \/ Shop!Receive(h) \/ Shop!Find(h) \/ Shop!Enqueue(h)
             \/ Shop!HandOver(h) \/ Shop!Process(h)
      PROVE  ShopInv'
  <2>1. UNCHANGED <<shop, ids, session, rows, calls, auth, deletion, missed>>
    BY <1>5 DEF Shop!Receive, Shop!Find, Shop!Enqueue, Shop!HandOver, Shop!Process,
       Shop!shopVars, Shop!jobVars
  <2>2. QED
    BY <2>1, ShopFrame
<1>6. ASSUME NEW h \in Shop!Hooks, Shop!MarkLeft(h)
      PROVE  ShopInv'
  BY <1>6, MarkLeftKeeps
<1>7. ASSUME NEW h \in Shop!Hooks, Shop!RequestFails(h)
      PROVE  ShopInv'
  BY <1>7, ShopFrame DEF Shop!RequestFails, Shop!shopVars, Shop!jobVars
<1>8. CASE Shop!DeletionStep \/ Shop!TableFails \/ Shop!WorkerDies
  BY <1>8, DeleteTableKeeps, BeginDeletionKeeps, TableFailsKeeps, WorkerDiesKeeps
     DEF Shop!DeletionStep
<1>9. CASE UNCHANGED Shop!vars
  BY <1>9, ShopFrame DEF Shop!vars, Shop!shopVars, Shop!jobVars
<1>10. QED
  BY <1>1, <1>2, <1>3, <1>4, <1>5, <1>6, <1>7, <1>8, <1>9 DEF Shop!Next, Shop!Deliver

\* The invariant holds in every state of every behaviour.
THEOREM ShopInvariant == InboundSpec => []ShopInv
<1>1. InboundInit => ShopInv
  <2>1. ASSUME Shop!Init
        PROVE  /\ shop = [id |-> 0, left |-> FALSE] /\ ids = 0 /\ session = FALSE
               /\ deletion = [id |-> 0, at |-> 0] /\ rows = {} /\ calls = {}
    BY <2>1 DEF Shop!Init, Shop!NoDeletion
  <2>2. QED
    BY <2>1 DEF InboundInit, ShopInv, DeletionRow, IdsGrow, Shop!Deleting, Shop!NoDeletion,
       NothingIsLeft, CallsAreGone, SessionIsGone
<1>2. ShopInv /\ [InboundNext]_inboundVars => ShopInv'
  <2>1. [InboundNext]_inboundVars => Shop!Next \/ UNCHANGED shopVars
    BY DEF InboundNext, inboundVars
  <2>2. ShopInv /\ UNCHANGED shopVars => ShopInv'
    BY ShopFrame DEF shopVars
  <2>3. QED
    BY <2>1, <2>2, ShopNext
<1>3. QED
  BY <1>1, <1>2, PTL DEF InboundSpec

\* Once the row of a shop is gone nothing of it is left in any table, also not in those
\* that do not cascade from it and after a crash of the worker in the middle.
THEOREM DeletionIsWhole == InboundSpec => []DeletedIsWhole
<1>1. ShopInv => DeletedIsWhole
  BY DEF ShopInv, NothingIsLeft, SessionIsGone, DeletedIsWhole, Shop!DeletedIsWhole
<1>2. QED
  BY ShopInvariant, <1>1, PTL

-----------------------------------------------------------------------------
(***************************************************************************)
(* ScanResults, for any types, images, products, texts, attempts, sizes of *)
(* a flush, edits and faults: what is published is what the scan read, and *)
(* a text is kept unless two derive jobs overlap.                          *)
(*                                                                         *)
(* A type has a derive job when the last attempt's file is staged whole,   *)
(* and from then on that file stays (Attended, Stays).  What the derive    *)
(* jobs have written is out of such files (UsagesAreRead, TextsAreRead),   *)
(* and while none of the two file types has read what the other then       *)
(* writes, the one that comes last keeps the texts that are there          *)
(* (TextsAreKept).                                                         *)
(***************************************************************************)
\* The rows of the file that the scan went on with
FileOf(t) == file[t][task[t].current]

Derived(t) == derive[t].step # "none"

\* What a row says of an image, and an article of a shop
Says(t, x, s) == \E r \in FileOf(t) : r.of = x /\ r.text = s

ResultTypes ==
  /\ text \in [Results!Ids -> Texts \cup {Null, NoImage}]
  /\ \A x \in Images : text[x] # NoImage
  /\ users \subseteq Images \X Products
  /\ file \in [Types -> [Results!Nos -> SUBSET Results!Rows]]
  /\ staged \in [Types -> [Results!Nos -> SUBSET Results!Rows]]
  /\ attempt \in [Types -> [Results!Nos -> {"NONE", "RUNNING", "READY_TO_PARSE", "PARSING",
                                            "SUCCESS", "FAILED"}]]
  /\ task \in [Types -> [status : {"RUNNING", "SUCCESS", "FAILED"}, current : Results!Nos]]
  /\ derive \in [Types -> [step : {"none", "waiting", "read", "persisted", "done"},
                           targets : SUBSET (Results!Ids \X (Texts \cup {Null}))]]
  /\ target \in [Results!Ids -> Texts \cup {Null, Results!Absent}]
  /\ usage \subseteq Results!FileTypes \X Images \X (Products \cup {Library})
  /\ chosen.types \subseteq Types /\ raced \in BOOLEAN

\* A file says one thing of an image, and an attempt has staged nothing else.
FileFits(t, n) ==
  /\ staged[t][n] \subseteq file[t][n]
  /\ attempt[t][n] \in {"NONE", "RUNNING"} => staged[t][n] = {}
  /\ \A r, s \in file[t][n] : r.of = s.of => r.text = s.text
  /\ \A r \in file[t][n] : IF t \in Results!FileTypes THEN r.of \in Images /\ r.text # NoImage
                                                       ELSE r.of \in Covers

\* A derive job has the whole file of the current attempt before it, and nobody
\* goes on with the attempt.
Attended(t) ==
  /\ \A n \in Results!Nos : n > task[t].current => attempt[t][n] = "NONE"
  /\ Derived(t) => attempt[t][task[t].current] = "SUCCESS" /\ Results!Input(t) = FileOf(t)
  /\ ~Derived(t) => attempt[t][task[t].current] # "SUCCESS"
  /\ task[t].status = "SUCCESS" => derive[t].step = "done"

\* The usages are those of the files that were derived, ...
UsagesAreRead ==
  /\ \A u \in usage : /\ u[1] \in Types \cap Results!FileTypes /\ Derived(u[1])
                      /\ u \in Results!Usages(u[1], FileOf(u[1]))
                      /\ target[u[2]] # Results!Absent
  /\ \A t \in Types : /\ derive[t].step \in {"persisted", "done"} =>
                           Results!Usages(t, FileOf(t)) \subseteq usage
                      /\ derive[t].step = "read" /\ t \in Results!FileTypes =>
                           \A r \in FileOf(t) : \E d \in derive[t].targets : d[1] = r.of

\* ... and so are the texts.
TextsAreRead ==
  /\ \A x \in Results!Ids :
       target[x] \in Texts => \E t \in Types : Derived(t) /\ Says(t, x, target[x])
  /\ \A t \in Types : \A d \in derive[t].targets :
       /\ d[1] \in IF t \in Results!FileTypes THEN Images ELSE Covers
       /\ d[2] \in Texts => \E o \in Types : Derived(o) /\ Says(o, d[1], d[2])

\* What was published was read, and stays.
ChosenIsRead ==
  /\ \A t \in chosen.types : derive[t].step = "done"
  /\ chosen.usages =
       UNION {Results!Usages(t, FileOf(t)) : t \in chosen.types \cap Results!FileTypes}
  /\ \A d \in chosen.texts : d[2] \in Texts => \E t \in Types : Derived(t) /\ Says(t, d[1], d[2])

\* The job of a file type writes no text over with none; the texts of its file are there.
TextsAreKept ==
  \A t \in Types \cap Results!FileTypes :
    /\ derive[t].step \in {"persisted", "done"} =>
         \A r \in FileOf(t) : r.text # Null => target[r.of] \in Texts
    /\ derive[t].step = "read" =>
         \A d \in derive[t].targets :
           d[2] = Null => target[d[1]] \notin Texts
                          /\ \A r \in FileOf(t) : r.of = d[1] => r.text = Null

ResultsInv ==
  /\ ResultTypes
  /\ \A t \in Types : Attended(t) /\ \A n \in Results!Nos : FileFits(t, n)
  /\ UsagesAreRead /\ TextsAreRead /\ ChosenIsRead
  /\ ~raced => TextsAreKept /\ Results!NonEmptyWins

-----------------------------------------------------------------------------
AttemptStatuses == {"NONE", "RUNNING", "READY_TO_PARSE", "PARSING", "SUCCESS", "FAILED"}
TaskRows == [status : {"RUNNING", "SUCCESS", "FAILED"}, current : Results!Nos]
DeriveRows == [step : {"none", "waiting", "read", "persisted", "done"},
               targets : SUBSET (Results!Ids \X (Texts \cup {Null}))]

LEMMA AttemptSet ==
  ASSUME attempt \in [Types -> [Results!Nos -> AttemptStatuses]], NEW t \in Types,
         NEW n \in Results!Nos, NEW s \in AttemptStatuses,
         attempt' = [attempt EXCEPT ![t][n] = s]
  PROVE  /\ attempt' \in [Types -> [Results!Nos -> AttemptStatuses]]
         /\ attempt'[t][n] = s
         /\ \A u \in Types, m \in Results!Nos : u # t \/ m # n => attempt'[u][m] = attempt[u][m]
OBVIOUS

LEMMA DeriveSet ==
  ASSUME derive \in [Types -> DeriveRows], NEW t \in Types,
         NEW s \in {"none", "waiting", "read", "persisted", "done"}, Results!DeriveTo(t, s)
  PROVE  /\ derive' \in [Types -> DeriveRows]
         /\ derive'[t].step = s /\ derive'[t].targets = derive[t].targets
         /\ \A u \in Types \ {t} : derive'[u] = derive[u]
<1>1. PICK d \in DeriveRows : d = derive[t]
  OBVIOUS
<1>2. PICK e : e = [d EXCEPT !.step = s]
  OBVIOUS
<1>3. e \in DeriveRows /\ e.step = s /\ e.targets = d.targets
  BY <1>2 DEF DeriveRows
<1>4. derive' = [derive EXCEPT ![t] = e]
  BY <1>1, <1>2 DEF Results!DeriveTo
<1>5. QED
  BY <1>1, <1>3, <1>4

LEMMA TaskSet ==
  ASSUME task \in [Types -> TaskRows], NEW t \in Types,
         NEW s \in {"RUNNING", "SUCCESS", "FAILED"}, Results!SetTask(t, s)
  PROVE  /\ task' \in [Types -> TaskRows]
         /\ task'[t].status = s /\ task'[t].current = task[t].current
         /\ \A u \in Types \ {t} : task'[u] = task[u]
<1>1. PICK d \in TaskRows : d = task[t]
  OBVIOUS
<1>2. PICK e : e = [d EXCEPT !.status = s]
  OBVIOUS
<1>3. e \in TaskRows /\ e.status = s /\ e.current = d.current
  BY <1>2 DEF TaskRows
<1>4. task' = [task EXCEPT ![t] = e]
  BY <1>1, <1>2 DEF Results!SetTask
<1>5. QED
  BY <1>1, <1>3, <1>4

LEMMA ResultRows ==
  ASSUME ResultTypes
  PROVE  /\ attempt \in [Types -> [Results!Nos -> AttemptStatuses]]
         /\ task \in [Types -> TaskRows] /\ derive \in [Types -> DeriveRows]
BY DEF ResultTypes, AttemptStatuses, TaskRows, DeriveRows

\* What was read stays read.
Stays == \A t \in Types : Derived(t) => Derived(t)' /\ FileOf(t)' = FileOf(t)

\* A step that takes no derive job on to read or to write
LEMMA DerivedKeep ==
  ASSUME ResultsInv, Stays, UNCHANGED <<target, usage, chosen, raced>>,
         \A t \in Types :
           /\ derive'[t].targets \subseteq derive[t].targets
           /\ derive'[t].step = "read" => derive[t].step = "read" /\ derive'[t] = derive[t]
           /\ derive'[t].step \in {"persisted", "done"} => derive[t].step \in {"persisted", "done"}
           /\ derive[t].step = "done" => derive'[t].step = "done"
  PROVE  /\ UsagesAreRead' /\ TextsAreRead' /\ ChosenIsRead'
         /\ ~raced' => TextsAreKept' /\ Results!NonEmptyWins'
<1>1. \A t \in Types : derive'[t].step \in {"read", "persisted", "done"} => FileOf(t)' = FileOf(t)
  BY DEF Stays, Derived
<1>2. \A t \in Types : \A x, s : Derived(t) /\ Says(t, x, s) => Derived(t)' /\ Says(t, x, s)'
  BY DEF Stays, Says
<1>3. UsagesAreRead'
  <2>1. ASSUME NEW u \in usage
        PROVE  /\ u[1] \in Types \cap Results!FileTypes /\ Derived(u[1])'
               /\ u \in Results!Usages(u[1], FileOf(u[1])')
               /\ target[u[2]] # Results!Absent
    BY DEF ResultsInv, UsagesAreRead, Stays
  <2>2. ASSUME NEW t \in Types
        PROVE  /\ derive'[t].step \in {"persisted", "done"} =>
                    Results!Usages(t, FileOf(t)') \subseteq usage
               /\ derive'[t].step = "read" /\ t \in Results!FileTypes =>
                    \A r \in FileOf(t)' : \E d \in derive'[t].targets : d[1] = r.of
    BY <1>1 DEF ResultsInv, UsagesAreRead
  <2>3. QED
    BY <2>1, <2>2 DEF UsagesAreRead
<1>4. TextsAreRead'
  BY <1>2 DEF ResultsInv, TextsAreRead
<1>5. ChosenIsRead'
  <2>1. \A t \in chosen.types : /\ derive[t].step = "done" /\ derive'[t].step = "done"
                                /\ FileOf(t)' = FileOf(t)
    BY <1>1 DEF ResultsInv, ResultTypes, ChosenIsRead
  <2>2. chosen'.usages =
          UNION {Results!Usages(t, FileOf(t)') : t \in chosen'.types \cap Results!FileTypes}
    BY <2>1 DEF ResultsInv, ChosenIsRead
  <2>3. \A d \in chosen'.texts :
          d[2] \in Texts => \E t \in Types : Derived(t)' /\ Says(t, d[1], d[2])'
    BY <1>2 DEF ResultsInv, ChosenIsRead
  <2>4. QED
    BY <2>1, <2>2, <2>3 DEF ChosenIsRead
<1>6. ASSUME ~raced PROVE TextsAreKept' /\ Results!NonEmptyWins'
  <2>1. TextsAreKept /\ Results!NonEmptyWins
    BY <1>6 DEF ResultsInv
  <2>2. TextsAreKept'
    BY <1>1, <2>1 DEF TextsAreKept
  <2>3. \A t \in chosen.types : FileOf(t)' = FileOf(t)
    BY <1>1 DEF ResultsInv, ResultTypes, ChosenIsRead
  <2>4. \A x : Results!Files(x)' = Results!Files(x)
    BY <2>3 DEF Results!Files, Results!Current, FileOf
  <2>5. Results!NonEmptyWins'
    BY <2>1, <2>4 DEF Results!NonEmptyWins
  <2>6. QED
    BY <2>2, <2>5
<1>7. QED
  BY <1>3, <1>4, <1>5, <1>6

\* A step that writes no file and no row of an attempt
LEMMA FilesKeep ==
  ASSUME ResultsInv, UNCHANGED <<file, staged, attempt>>,
         \A t \in Types : /\ task'[t].current = task[t].current
                          /\ Derived(t)' <=> Derived(t)
                          /\ task'[t].status = "SUCCESS" => derive'[t].step = "done"
  PROVE  /\ Stays
         /\ \A t \in Types : Attended(t)' /\ \A n \in Results!Nos : FileFits(t, n)'
<1>1. \A t \in Types : FileOf(t)' = FileOf(t) /\ Results!Input(t)' = Results!Input(t)
  BY DEF FileOf, Results!Input, Results!Current
<1>2. \A t \in Types : Attended(t)'
  BY <1>1 DEF ResultsInv, Attended
<1>3. \A t \in Types, n \in Results!Nos : FileFits(t, n)'
  BY DEF ResultsInv, FileFits
<1>4. QED
  BY <1>1, <1>2, <1>3 DEF Stays

\* A step of the attempt that a type is at, before it is derived
LEMMA AttemptKeeps ==
  ASSUME ResultsInv, NEW t \in Types, ~Derived(t),
         UNCHANGED <<derive, target, usage, chosen, raced>>,
         \A u \in Types \ {t} : /\ file'[u] = file[u] /\ staged'[u] = staged[u]
                                /\ attempt'[u] = attempt[u] /\ task'[u] = task[u],
         attempt'[t][task'[t].current] # "SUCCESS", task'[t].status # "SUCCESS",
         \A n \in Results!Nos : /\ FileFits(t, n)'
                                /\ n > task'[t].current => attempt'[t][n] = "NONE",
         ResultTypes'
  PROVE  ResultsInv'
<1>1. \A u \in Types \ {t} : FileOf(u)' = FileOf(u) /\ Results!Input(u)' = Results!Input(u)
  BY DEF FileOf, Results!Input, Results!Current
<1>2. Stays
  BY <1>1 DEF Stays, Derived
<1>3. \A u \in Types : Attended(u)'
  <2>1. Attended(t)'
    BY DEF Attended, Derived
  <2>2. \A u \in Types \ {t} : Attended(u)'
    BY <1>1 DEF ResultsInv, Attended, Derived
  <2>3. QED
    BY <2>1, <2>2
<1>4. \A u \in Types, n \in Results!Nos : FileFits(u, n)'
  BY DEF ResultsInv, FileFits
<1>5. /\ UsagesAreRead' /\ TextsAreRead' /\ ChosenIsRead'
      /\ ~raced' => TextsAreKept' /\ Results!NonEmptyWins'
  BY <1>2, DerivedKeep
<1>6. QED
  BY <1>3, <1>4, <1>5 DEF ResultsInv

\* Who is at work on an attempt has not derived it.
LEMMA NotDerived ==
  ASSUME ResultsInv, NEW t \in Types, attempt[t][task[t].current] # "SUCCESS"
  PROVE  /\ ~Derived(t) /\ task[t].status # "SUCCESS"
         /\ task[t].current \in Results!Nos
         /\ \A n \in Results!Nos : n > task[t].current => attempt[t][n] = "NONE"
<1>1. ~Derived(t) /\ \A n \in Results!Nos : n > task[t].current => attempt[t][n] = "NONE"
  BY DEF ResultsInv, Attended
<1>2. task[t].status # "SUCCESS"
  BY <1>1 DEF ResultsInv, Attended, Derived
<1>3. task[t].current \in Results!Nos
  BY DEF ResultsInv, ResultTypes
<1>4. QED
  BY <1>1, <1>2, <1>3

\* What the query of a type lists
LEMMA SnapshotFits ==
  ASSUME ResultTypes, NEW t \in Types
  PROVE  /\ Results!Snapshot(t) \subseteq Results!Rows
         /\ \A r \in Results!Snapshot(t) :
              /\ r.text = text[r.of]
              /\ IF t \in Results!FileTypes THEN r.of \in Images /\ r.text # NoImage
                                            ELSE r.of \in Covers
<1>1. \A x \in Results!Ids, u \in Products \cup {Library} :
        /\ Results!Row(x, u) \in Results!Rows
        /\ Results!Row(x, u).of = x /\ Results!Row(x, u).text = text[x]
  BY DEF ResultTypes, Results!Row, Results!Rows
<1>2. Images \subseteq Results!Ids /\ Covers \subseteq Results!Ids
  BY DEF Results!Ids
<1>3. CASE t = "PRODUCT_MEDIA"
  <2>1. ASSUME NEW r \in Results!Snapshot(t)
        PROVE  \E x \in Images, u \in Products : r = Results!Row(x, u)
    BY <1>3 DEF Results!Snapshot, ResultTypes
  <2>2. QED
    BY <1>1, <1>2, <1>3, <2>1 DEF Results!FileTypes, ResultTypes
<1>4. CASE t = "FILES"
  <2>1. ASSUME NEW r \in Results!Snapshot(t)
        PROVE  \E x \in Images : r = Results!Row(x, Library)
    BY <1>4 DEF Results!Snapshot
  <2>2. QED
    BY <1>1, <1>2, <1>4, <2>1 DEF Results!FileTypes, ResultTypes
<1>5. CASE t \notin Results!FileTypes
  <2>1. ASSUME NEW r \in Results!Snapshot(t)
        PROVE  \E x \in Covers : r = Results!Row(x, Library)
    BY <1>5 DEF Results!Snapshot, Results!FileTypes
  <2>2. QED
    BY <1>1, <1>2, <1>5, <2>1
<1>6. QED
  BY <1>3, <1>4, <1>5 DEF Results!FileTypes

LEMMA BulkCompletesKeeps ==
  ASSUME ResultsInv, NEW t \in Types, Results!BulkCompletes(t)
  PROVE  ResultsInv'
<1>1. PICK c \in Results!Nos : c = task[t].current
  BY DEF ResultsInv, ResultTypes
<1>2. /\ attempt[t][c] = "RUNNING"
      /\ UNCHANGED <<text, users, staged, task, derive, target, usage, chosen, raced>>
      /\ file' = [file EXCEPT ![t][c] = Results!Snapshot(t)]
      /\ attempt' = [attempt EXCEPT ![t][c] = "READY_TO_PARSE"]
  BY <1>1 DEF Results!BulkCompletes, Results!SetAttempt, Results!Current, Results!shop,
     Results!results
<1>3. ~Derived(t) /\ task[t].status # "SUCCESS"
      /\ \A n \in Results!Nos : n > c => attempt[t][n] = "NONE"
  BY <1>1, <1>2, NotDerived
<1>4. /\ attempt' \in [Types -> [Results!Nos -> AttemptStatuses]]
      /\ attempt'[t][c] = "READY_TO_PARSE"
      /\ \A u \in Types, m \in Results!Nos : u # t \/ m # c => attempt'[u][m] = attempt[u][m]
  BY <1>2, ResultRows, AttemptSet DEF ResultsInv, AttemptStatuses
<1>5. PICK S \in SUBSET Results!Rows : S = Results!Snapshot(t)
  BY SnapshotFits DEF ResultsInv
<1>6. /\ file' \in [Types -> [Results!Nos -> SUBSET Results!Rows]]
      /\ file'[t][c] = S
      /\ \A u \in Types, m \in Results!Nos : u # t \/ m # c => file'[u][m] = file[u][m]
  BY <1>2, <1>5 DEF ResultsInv, ResultTypes
<1>7. ResultTypes'
  BY <1>2, <1>4, <1>6 DEF ResultsInv, ResultTypes, AttemptStatuses
<1>8. \A n \in Results!Nos : FileFits(t, n)'
  <2>1. FileFits(t, c)'
    <3>1. staged'[t][c] = {}
      BY <1>2 DEF ResultsInv, FileFits
    <3>2. \A r \in S : /\ r.text = text[r.of]
                       /\ IF t \in Results!FileTypes THEN r.of \in Images /\ r.text # NoImage
                                                     ELSE r.of \in Covers
      BY <1>5, SnapshotFits DEF ResultsInv
    <3>3. QED
      BY <1>4, <1>6, <3>1, <3>2 DEF FileFits
  <2>2. ASSUME NEW n \in Results!Nos, n # c PROVE FileFits(t, n)'
    BY <1>2, <1>4, <1>6, <2>2 DEF ResultsInv, FileFits
  <2>3. QED
    BY <2>1, <2>2
<1>9. \A u \in Types \ {t} : file'[u] = file[u] /\ attempt'[u] = attempt[u]
  BY <1>2
<1>10. \A n \in Results!Nos : n > task'[t].current => attempt'[t][n] = "NONE"
  BY <1>1, <1>2, <1>3, <1>4 DEF Results!Nos
<1>11. attempt'[t][task'[t].current] # "SUCCESS" /\ task'[t].status # "SUCCESS"
  BY <1>1, <1>2, <1>3, <1>4
<1>12. \A u \in Types \ {t} : staged'[u] = staged[u] /\ task'[u] = task[u]
  BY <1>2
<1>13. UNCHANGED <<derive, target, usage, chosen, raced>>
  BY <1>2
<1>14. QED
  BY <1>3, <1>7, <1>8, <1>9, <1>10, <1>11, <1>12, <1>13, AttemptKeeps

LEMMA ParseStartsKeeps ==
  ASSUME ResultsInv, NEW t \in Types, Results!ParseStarts(t)
  PROVE  ResultsInv'
<1>1. PICK c \in Results!Nos : c = task[t].current
  BY DEF ResultsInv, ResultTypes
<1>2. /\ attempt[t][c] = "READY_TO_PARSE"
      /\ UNCHANGED <<text, users, file, staged, task, derive, target, usage, chosen, raced>>
      /\ attempt' = [attempt EXCEPT ![t][c] = "PARSING"]
  BY <1>1 DEF Results!ParseStarts, Results!SetAttempt, Results!Current, Results!shop,
     Results!results
<1>3. ~Derived(t) /\ task[t].status # "SUCCESS"
      /\ \A n \in Results!Nos : n > c => attempt[t][n] = "NONE"
  BY <1>1, <1>2, NotDerived
<1>4. /\ attempt' \in [Types -> [Results!Nos -> AttemptStatuses]]
      /\ attempt'[t][c] = "PARSING"
      /\ \A u \in Types, m \in Results!Nos : u # t \/ m # c => attempt'[u][m] = attempt[u][m]
  BY <1>2, ResultRows, AttemptSet DEF ResultsInv, AttemptStatuses
<1>5. ResultTypes'
  BY <1>2, <1>4 DEF ResultsInv, ResultTypes, AttemptStatuses
<1>6. \A n \in Results!Nos : FileFits(t, n)'
  BY <1>2, <1>4 DEF ResultsInv, FileFits
<1>7. \A u \in Types \ {t} : attempt'[u] = attempt[u]
  BY <1>2
<1>8. \A n \in Results!Nos : n > task'[t].current => attempt'[t][n] = "NONE"
  BY <1>1, <1>2, <1>3, <1>4 DEF Results!Nos
<1>9. attempt'[t][task'[t].current] # "SUCCESS" /\ task'[t].status # "SUCCESS"
  BY <1>1, <1>2, <1>3, <1>4
<1>10. QED
  BY <1>2, <1>3, <1>5, <1>6, <1>7, <1>8, <1>9, AttemptKeeps

LEMMA FlushKeeps ==
  ASSUME ResultsInv, NEW t \in Types, Results!Flush(t)
  PROVE  ResultsInv'
<1>1. PICK c \in Results!Nos : c = task[t].current
  BY DEF ResultsInv, ResultTypes
<1>2. /\ attempt[t][c] = "PARSING"
      /\ UNCHANGED <<text, users, file, attempt, task, derive, target, usage, chosen, raced>>
  BY <1>1 DEF Results!Flush, Results!Current, Results!shop, Results!results
<1>3. PICK B \in SUBSET file[t][c] : staged' = [staged EXCEPT ![t][c] = @ \cup B]
  BY <1>1 DEF Results!Flush, Results!Rest, Results!Current
<1>4. ~Derived(t) /\ task[t].status # "SUCCESS"
      /\ \A n \in Results!Nos : n > c => attempt[t][n] = "NONE"
  BY <1>1, <1>2, NotDerived
<1>5. file[t][c] \in SUBSET Results!Rows /\ staged[t][c] \in SUBSET Results!Rows
  BY DEF ResultsInv, ResultTypes
<1>6. /\ staged' \in [Types -> [Results!Nos -> SUBSET Results!Rows]]
      /\ staged'[t][c] = staged[t][c] \cup B
      /\ \A u \in Types, m \in Results!Nos : u # t \/ m # c => staged'[u][m] = staged[u][m]
  <2>1. PICK S \in SUBSET Results!Rows : S = staged[t][c] \cup B
    BY <1>3, <1>5
  <2>2. staged' = [staged EXCEPT ![t][c] = S]
    BY <1>3, <2>1
  <2>3. QED
    BY <2>1, <2>2 DEF ResultsInv, ResultTypes
<1>7. ResultTypes'
  BY <1>2, <1>6 DEF ResultsInv, ResultTypes
<1>8. \A n \in Results!Nos : FileFits(t, n)'
  BY <1>2, <1>3, <1>6 DEF ResultsInv, FileFits
<1>9. \A u \in Types \ {t} : staged'[u] = staged[u]
  BY <1>3
<1>10. attempt'[t][task'[t].current] # "SUCCESS" /\ task'[t].status # "SUCCESS"
  BY <1>1, <1>2, <1>4
<1>11. \A n \in Results!Nos : n > task'[t].current => attempt'[t][n] = "NONE"
  BY <1>1, <1>2, <1>4
<1>12. QED
  BY <1>2, <1>4, <1>7, <1>8, <1>9, <1>10, <1>11, AttemptKeeps

LEMMA ParseFailsKeeps ==
  ASSUME ResultsInv, NEW t \in Types, Results!ParseFails(t)
  PROVE  ResultsInv'
<1>1. PICK c \in Results!Nos : c = task[t].current
  BY DEF ResultsInv, ResultTypes
<1>2. /\ attempt[t][c] = "PARSING"
      /\ UNCHANGED <<text, users, file, staged, derive, target, usage, chosen, raced>>
  BY <1>1 DEF Results!ParseFails, Results!Current, Results!shop, Results!results
<1>3. ~Derived(t) /\ task[t].status # "SUCCESS"
      /\ \A n \in Results!Nos : n > c => attempt[t][n] = "NONE"
  BY <1>1, <1>2, NotDerived
<1>4. MaxAttempts \in Nat \ {0}
  BY ResultsAssumption
<1>5. CASE /\ c < MaxAttempts
           /\ attempt' = [attempt EXCEPT ![t][c] = "FAILED", ![t][c + 1] = "RUNNING"]
           /\ task' = [task EXCEPT ![t].current = @ + 1]
  <2>1. c + 1 \in Results!Nos /\ c + 1 > c
    BY <1>4, <1>5 DEF Results!Nos
  <2>2. PICK a : a = [attempt EXCEPT ![t][c] = "FAILED"]
    OBVIOUS
  <2>3. /\ a \in [Types -> [Results!Nos -> AttemptStatuses]]
        /\ \A u \in Types, m \in Results!Nos :
             a[u][m] = IF u = t /\ m = c THEN "FAILED" ELSE attempt[u][m]
    BY <2>2, ResultRows DEF ResultsInv, AttemptStatuses
  <2>4. attempt' = [a EXCEPT ![t][c + 1] = "RUNNING"]
    BY <1>5, <2>2
  <2>5. /\ attempt' \in [Types -> [Results!Nos -> AttemptStatuses]]
        /\ \A u \in Types, m \in Results!Nos :
             attempt'[u][m] = IF u = t /\ m = c + 1 THEN "RUNNING" ELSE a[u][m]
    BY <2>1, <2>3, <2>4 DEF AttemptStatuses
  <2>6. PICK s \in {"RUNNING", "SUCCESS", "FAILED"} : task[t] = [status |-> s, current |-> c]
    BY <1>1, ResultRows DEF ResultsInv, TaskRows
  <2>7. task' = [task EXCEPT ![t] = [status |-> s, current |-> c + 1]]
    <3>1. PICK d : d = task[t]
      OBVIOUS
    <3>2. PICK e : e = [d EXCEPT !.current = c + 1]
      OBVIOUS
    <3>3. task' = [task EXCEPT ![t] = e]
      BY <1>1, <1>5, <3>1, <3>2
    <3>4. e = [status |-> s, current |-> c + 1]
      BY <2>6, <3>1, <3>2
    <3>5. QED
      BY <3>3, <3>4
  <2>8. /\ task' \in [Types -> TaskRows]
        /\ task'[t].status = s /\ task'[t].current = c + 1 /\ task[t].status = s
        /\ \A u \in Types \ {t} : task'[u] = task[u]
    BY <2>1, <2>6, <2>7, ResultRows DEF ResultsInv, TaskRows
  <2>9. ResultTypes'
    BY <1>2, <2>5, <2>8 DEF ResultsInv, ResultTypes, AttemptStatuses, TaskRows
  <2>10. attempt[t][c + 1] = "NONE"
    BY <1>3, <2>1
  <2>11. \A n \in Results!Nos : FileFits(t, n)'
    <3>1. ASSUME NEW n \in Results!Nos, attempt'[t][n] \in {"NONE", "RUNNING"}
          PROVE  attempt[t][n] \in {"NONE", "RUNNING"}
      BY <2>3, <2>5, <2>10, <3>1
    <3>2. QED
      BY <1>2, <3>1 DEF ResultsInv, FileFits
  <2>12. \A n \in Results!Nos : n > task'[t].current => attempt'[t][n] = "NONE"
    <3>1. ASSUME NEW n \in Results!Nos, n > c + 1 PROVE attempt'[t][n] = "NONE"
      <4>1. n > c /\ n # c + 1 /\ n # c
        BY <3>1 DEF Results!Nos
      <4>2. QED
        BY <1>3, <2>3, <2>5, <4>1
    <3>2. QED
      BY <2>8, <3>1
  <2>13. attempt'[t][task'[t].current] # "SUCCESS" /\ task'[t].status # "SUCCESS"
    BY <1>3, <2>1, <2>5, <2>8
  <2>14. \A u \in Types \ {t} : attempt'[u] = attempt[u]
    BY <2>2, <2>4, <2>3
  <2>15. QED
    BY <1>2, <1>3, <2>8, <2>9, <2>11, <2>12, <2>13, <2>14, AttemptKeeps
<1>6. CASE Results!SetAttempt(t, "FAILED") /\ Results!SetTask(t, "FAILED")
  <2>1. attempt' = [attempt EXCEPT ![t][c] = "FAILED"]
    BY <1>1, <1>6 DEF Results!SetAttempt, Results!Current
  <2>2. /\ attempt' \in [Types -> [Results!Nos -> AttemptStatuses]]
        /\ attempt'[t][c] = "FAILED"
        /\ \A u \in Types, m \in Results!Nos : u # t \/ m # c => attempt'[u][m] = attempt[u][m]
    BY <2>1, ResultRows, AttemptSet DEF ResultsInv, AttemptStatuses
  <2>3. /\ task' \in [Types -> TaskRows]
        /\ task'[t].status = "FAILED" /\ task'[t].current = c
        /\ \A u \in Types \ {t} : task'[u] = task[u]
    BY <1>1, <1>6, ResultRows, TaskSet DEF ResultsInv
  <2>4. ResultTypes'
    BY <1>2, <2>2, <2>3 DEF ResultsInv, ResultTypes, AttemptStatuses, TaskRows
  <2>5. \A n \in Results!Nos : FileFits(t, n)'
    BY <1>2, <2>2 DEF ResultsInv, FileFits
  <2>6. \A n \in Results!Nos : n > task'[t].current => attempt'[t][n] = "NONE"
    BY <1>3, <2>2, <2>3 DEF Results!Nos
  <2>7. \A u \in Types \ {t} : attempt'[u] = attempt[u]
    BY <2>1
  <2>8. QED
    BY <1>2, <1>3, <2>2, <2>3, <2>4, <2>5, <2>6, <2>7, AttemptKeeps
<1>7. QED
  BY <1>1, <1>5, <1>6 DEF Results!ParseFails, Results!Current

LEMMA ParseSucceedsKeeps ==
  ASSUME ResultsInv, NEW t \in Types, Results!ParseSucceeds(t)
  PROVE  ResultsInv'
<1>1. PICK c \in Results!Nos : c = task[t].current
  BY DEF ResultsInv, ResultTypes
<1>2. /\ attempt[t][c] = "PARSING" /\ file[t][c] \ staged[t][c] = {}
      /\ UNCHANGED <<text, users, file, staged, task, target, usage, chosen, raced>>
      /\ attempt' = [attempt EXCEPT ![t][c] = "SUCCESS"]
      /\ Results!DeriveTo(t, "waiting")
  BY <1>1 DEF Results!ParseSucceeds, Results!SetAttempt, Results!Current, Results!shop,
     Results!results, Results!StreamEnds, Results!Rest
<1>3. ~Derived(t) /\ task[t].status # "SUCCESS"
      /\ \A n \in Results!Nos : n > c => attempt[t][n] = "NONE"
  BY <1>1, <1>2, NotDerived
<1>4. /\ attempt' \in [Types -> [Results!Nos -> AttemptStatuses]]
      /\ attempt'[t][c] = "SUCCESS"
      /\ \A u \in Types, m \in Results!Nos : u # t \/ m # c => attempt'[u][m] = attempt[u][m]
  BY <1>2, ResultRows, AttemptSet DEF ResultsInv, AttemptStatuses
<1>5. /\ derive' \in [Types -> DeriveRows]
      /\ derive'[t].step = "waiting" /\ derive'[t].targets = derive[t].targets
      /\ \A u \in Types \ {t} : derive'[u] = derive[u]
  BY <1>2, ResultRows, DeriveSet DEF ResultsInv
<1>6. ResultTypes'
  BY <1>2, <1>4, <1>5 DEF ResultsInv, ResultTypes, AttemptStatuses, DeriveRows
<1>7. \A u \in Types, n \in Results!Nos : FileFits(u, n)'
  BY <1>2, <1>4 DEF ResultsInv, FileFits
<1>8. \A u \in Types : FileOf(u)' = FileOf(u) /\ Results!Input(u)' = Results!Input(u)
  BY <1>2 DEF FileOf, Results!Input, Results!Current
<1>9. Stays
  BY <1>3, <1>5, <1>8 DEF Stays, Derived
<1>10. \A u \in Types : Attended(u)'
  <2>1. Attended(t)'
    <3>1. staged[t][c] = file[t][c]
      BY <1>2 DEF ResultsInv, FileFits
    <3>2. Results!Input(t)' = FileOf(t)'
      BY <1>1, <1>8, <3>1 DEF Results!Input, Results!Current, FileOf
    <3>3. \A n \in Results!Nos : n > task'[t].current => attempt'[t][n] = "NONE"
      BY <1>1, <1>2, <1>3, <1>4 DEF Results!Nos
    <3>4. task'[t].status # "SUCCESS" /\ Derived(t)' /\ attempt'[t][task'[t].current] = "SUCCESS"
      BY <1>1, <1>2, <1>3, <1>4, <1>5 DEF Derived
    <3>5. QED
      BY <3>2, <3>3, <3>4 DEF Attended
  <2>2. ASSUME NEW u \in Types, u # t PROVE Attended(u)'
    <3>1. attempt'[u] = attempt[u]
      BY <1>2, <2>2
    <3>2. QED
      BY <1>2, <1>5, <1>8, <2>2, <3>1 DEF ResultsInv, Attended, Derived
  <2>3. QED
    BY <2>1, <2>2
<1>11. /\ UsagesAreRead' /\ TextsAreRead' /\ ChosenIsRead'
       /\ ~raced' => TextsAreKept' /\ Results!NonEmptyWins'
  BY <1>2, <1>3, <1>5, <1>9, DerivedKeep DEF Derived
<1>12. QED
  BY <1>6, <1>7, <1>10, <1>11 DEF ResultsInv

LEMMA EditKeeps ==
  ASSUME ResultsInv, Results!Edit
  PROVE  ResultsInv'
<1>1. UNCHANGED <<file, staged, attempt, task, derive, target, usage, chosen, raced>>
  BY DEF Results!Edit, Results!results
<1>2. /\ text' \in [Results!Ids -> Texts \cup {Null, NoImage}]
      /\ \A x \in Images : text'[x] # NoImage
      /\ users' \subseteq Images \X Products
  <2>1. CASE \E x \in Images, s \in Texts \cup {Null} :
               s # text[x] /\ text' = [text EXCEPT ![x] = s] /\ UNCHANGED users
    BY <2>1, ResultsAssumption DEF ResultsInv, ResultTypes, Results!Ids
  <2>2. CASE \E x \in Covers, s \in {Null, NoImage} :
               s # text[x] /\ text' = [text EXCEPT ![x] = s] /\ UNCHANGED users
    BY <2>2, ResultsAssumption DEF ResultsInv, ResultTypes, Results!Ids
  <2>3. CASE \E u \in Images \X Products :
               users' = (users \ {u}) \cup ({u} \ users) /\ UNCHANGED text
    BY <2>3 DEF ResultsInv, ResultTypes
  <2>4. QED
    BY <2>1, <2>2, <2>3 DEF Results!Edit
<1>3. ResultTypes'
  BY <1>1, <1>2 DEF ResultsInv, ResultTypes
<1>4. Stays /\ \A t \in Types : Attended(t)' /\ \A n \in Results!Nos : FileFits(t, n)'
  BY <1>1, FilesKeep DEF ResultsInv, Attended, Derived
<1>5. /\ UsagesAreRead' /\ TextsAreRead' /\ ChosenIsRead'
      /\ ~raced' => TextsAreKept' /\ Results!NonEmptyWins'
  BY <1>1, <1>4, DerivedKeep
<1>6. QED
  BY <1>3, <1>4, <1>5 DEF ResultsInv

LEMMA DeriveEndsKeeps ==
  ASSUME ResultsInv, NEW t \in Types, Results!DeriveEnds(t)
  PROVE  ResultsInv'
<1>1. /\ UNCHANGED <<text, users, file, staged, attempt, target, usage, chosen, raced>>
      /\ derive[t].step = "persisted"
      /\ Results!SetTask(t, "SUCCESS") /\ Results!DeriveTo(t, "done")
  BY DEF Results!DeriveEnds, Results!shop, Results!results
<1>2. /\ derive' \in [Types -> DeriveRows]
      /\ derive'[t].step = "done" /\ derive'[t].targets = derive[t].targets
      /\ \A u \in Types \ {t} : derive'[u] = derive[u]
  BY <1>1, ResultRows, DeriveSet DEF ResultsInv
<1>3. /\ task' \in [Types -> TaskRows]
      /\ task'[t].status = "SUCCESS" /\ task'[t].current = task[t].current
      /\ \A u \in Types \ {t} : task'[u] = task[u]
  BY <1>1, ResultRows, TaskSet DEF ResultsInv
<1>4. ResultTypes'
  BY <1>1, <1>2, <1>3 DEF ResultsInv, ResultTypes, TaskRows, DeriveRows
<1>5. Stays /\ \A u \in Types : Attended(u)' /\ \A n \in Results!Nos : FileFits(u, n)'
  <2>1. \A u \in Types : /\ task'[u].current = task[u].current
                         /\ Derived(u)' <=> Derived(u)
                         /\ task'[u].status = "SUCCESS" => derive'[u].step = "done"
    BY <1>1, <1>2, <1>3 DEF ResultsInv, Attended, Derived
  <2>2. QED
    BY <1>1, <2>1, FilesKeep
<1>6. /\ UsagesAreRead' /\ TextsAreRead' /\ ChosenIsRead'
      /\ ~raced' => TextsAreKept' /\ Results!NonEmptyWins'
  BY <1>1, <1>2, <1>5, DerivedKeep
<1>7. QED
  BY <1>4, <1>5, <1>6 DEF ResultsInv

LEMMA DeriveFailsKeeps ==
  ASSUME ResultsInv, NEW t \in Types, Results!DeriveFails(t)
  PROVE  ResultsInv'
<1>1. /\ UNCHANGED <<text, users, file, staged, attempt, target, usage, chosen, raced>>
      /\ derive[t].step \in {"waiting", "read", "persisted"}
      /\ Results!SetTask(t, "FAILED")
      /\ derive' = [derive EXCEPT ![t] = [step |-> "waiting", targets |-> {}]]
  BY DEF Results!DeriveFails, Results!shop, Results!results
<1>2. /\ derive' \in [Types -> DeriveRows]
      /\ derive'[t].step = "waiting" /\ derive'[t].targets = {}
      /\ \A u \in Types \ {t} : derive'[u] = derive[u]
  BY <1>1, ResultRows DEF ResultsInv, DeriveRows
<1>3. /\ task' \in [Types -> TaskRows]
      /\ task'[t].status = "FAILED" /\ task'[t].current = task[t].current
      /\ \A u \in Types \ {t} : task'[u] = task[u]
  BY <1>1, ResultRows, TaskSet DEF ResultsInv
<1>4. ResultTypes'
  BY <1>1, <1>2, <1>3 DEF ResultsInv, ResultTypes, TaskRows, DeriveRows
<1>5. Stays /\ \A u \in Types : Attended(u)' /\ \A n \in Results!Nos : FileFits(u, n)'
  <2>1. \A u \in Types : /\ task'[u].current = task[u].current
                         /\ Derived(u)' <=> Derived(u)
                         /\ task'[u].status = "SUCCESS" => derive'[u].step = "done"
    BY <1>1, <1>2, <1>3 DEF ResultsInv, Attended, Derived
  <2>2. QED
    BY <1>1, <2>1, FilesKeep
<1>6. /\ UsagesAreRead' /\ TextsAreRead' /\ ChosenIsRead'
      /\ ~raced' => TextsAreKept' /\ Results!NonEmptyWins'
  BY <1>1, <1>2, <1>5, DerivedKeep
<1>7. QED
  BY <1>4, <1>5, <1>6 DEF ResultsInv

\* What a derive job has in hand
LEMMA InputIsRead ==
  ASSUME ResultsInv, NEW t \in Types, Derived(t)
  PROVE  /\ Results!Input(t) = FileOf(t) /\ FileOf(t) \subseteq Results!Rows
         /\ \A r, s \in FileOf(t) : r.of = s.of => r.text = s.text
         /\ \A r \in FileOf(t) : IF t \in Results!FileTypes THEN r.of \in Images /\ r.text # NoImage
                                                            ELSE r.of \in Covers
<1>1. task[t].current \in Results!Nos
  BY DEF ResultsInv, ResultTypes
<1>2. Results!Input(t) = FileOf(t) /\ FileFits(t, task[t].current)
  BY <1>1 DEF ResultsInv, Attended
<1>3. FileOf(t) \subseteq Results!Rows
  BY <1>1 DEF ResultsInv, ResultTypes, FileOf
<1>4. QED
  BY <1>2, <1>3 DEF FileFits, FileOf

\* The targets that a derive job makes of it
LEMMA TargetsRead ==
  ASSUME ResultsInv, NEW t \in Types, Derived(t)
  PROVE  /\ Results!Targets(t) \subseteq Results!Ids \X (Texts \cup {Null})
         /\ \A d \in Results!Targets(t) :
              /\ d[1] \in IF t \in Results!FileTypes THEN Images ELSE Covers
              /\ d[2] \in Texts => \E o \in Types : Derived(o) /\ Says(o, d[1], d[2])
         /\ t \in Results!FileTypes =>
              /\ \A r \in FileOf(t) : \E d \in Results!Targets(t) : d[1] = r.of
              /\ \A d \in Results!Targets(t) :
                   d[2] = Null => target[d[1]] \notin Texts
                                  /\ \A r \in FileOf(t) : r.of = d[1] => r.text = Null
<1>1. \A r \in FileOf(t) : /\ r.of \in Results!Ids /\ r.text \in Texts \cup {Null, NoImage}
                           /\ r.of \in IF t \in Results!FileTypes THEN Images ELSE Covers
                           /\ t \in Results!FileTypes => r.text # NoImage
  BY InputIsRead DEF Results!Rows
<1>2. Null \notin Texts /\ NoImage \notin Texts /\ Null # NoImage
      /\ Results!Absent \notin Texts \cup {Null}
  BY ResultsAssumption DEF Results!Absent
<1>3. ASSUME NEW r \in FileOf(t)
      PROVE  /\ Results!Merged(t, r.of) \in Texts \cup {Null}
             /\ Results!Merged(t, r.of) \in Texts =>
                  \E o \in Types : Derived(o) /\ Says(o, r.of, Results!Merged(t, r.of))
             /\ t \in Results!FileTypes /\ Results!Merged(t, r.of) = Null =>
                  target[r.of] \notin Texts /\ r.text = Null
  <2>1. PICK c : c = CHOOSE q \in Results!Input(t) : q.of = r.of
    OBVIOUS
  <2>2. c \in FileOf(t) /\ c.of = r.of
    BY <2>1, InputIsRead
  <2>3. c.text = r.text
    BY <2>2, InputIsRead
  <2>4. Results!Merged(t, r.of) =
          CASE t \in Results!FileTypes -> Results!Merge(target[r.of], c.text)
            [] c.text = NoImage -> Null
            [] OTHER -> c.text
    BY <2>1 DEF Results!Merged
  <2>5. target[r.of] \in Texts \cup {Null, Results!Absent}
    BY <1>1 DEF ResultsInv, ResultTypes
  <2>6. CASE t \in Results!FileTypes
    <3>1. Results!Merged(t, r.of) =
            IF r.text # Null THEN r.text
            ELSE IF target[r.of] # Results!Absent THEN target[r.of] ELSE Null
      <4>1. Results!Merged(t, r.of) = Results!Merge(target[r.of], c.text)
        BY <1>1, <2>2, <2>4, <2>6
      <4>2. QED
        BY <2>3, <4>1 DEF Results!Merge
    <3>2. CASE r.text # Null
      <4>1. r.text \in Texts /\ Results!Merged(t, r.of) = r.text
        BY <1>1, <2>6, <3>1, <3>2
      <4>2. Says(t, r.of, r.text)
        BY DEF Says
      <4>3. QED
        BY <1>2, <4>1, <4>2
    <3>3. CASE r.text = Null
      <4>1. Results!Merged(t, r.of) = IF target[r.of] # Results!Absent THEN target[r.of] ELSE Null
        BY <3>1, <3>3
      <4>2. target[r.of] \in Texts => \E o \in Types : Derived(o) /\ Says(o, r.of, target[r.of])
        BY <1>1 DEF ResultsInv, TextsAreRead
      <4>3. QED
        BY <1>2, <2>5, <3>3, <4>1, <4>2
    <3>4. QED
      BY <3>2, <3>3
  <2>7. CASE t \notin Results!FileTypes
    <3>1. Results!Merged(t, r.of) = IF r.text = NoImage THEN Null ELSE r.text
      BY <2>3, <2>4, <2>7
    <3>2. Says(t, r.of, r.text)
      BY DEF Says
    <3>3. QED
      BY <1>1, <1>2, <2>7, <3>1, <3>2
  <2>8. QED
    BY <2>6, <2>7
<1>4. ASSUME NEW d \in Results!Targets(t)
      PROVE  \E r \in FileOf(t) : d = <<r.of, Results!Merged(t, r.of)>>
  BY InputIsRead DEF Results!Targets
<1>5. Results!Targets(t) \subseteq Results!Ids \X (Texts \cup {Null})
  BY <1>1, <1>3, <1>4
<1>6. ASSUME NEW d \in Results!Targets(t)
      PROVE  /\ d[1] \in IF t \in Results!FileTypes THEN Images ELSE Covers
             /\ d[2] \in Texts => \E o \in Types : Derived(o) /\ Says(o, d[1], d[2])
             /\ t \in Results!FileTypes /\ d[2] = Null =>
                  target[d[1]] \notin Texts /\ \A r \in FileOf(t) : r.of = d[1] => r.text = Null
  <2>1. PICK r \in FileOf(t) : d = <<r.of, Results!Merged(t, r.of)>>
    BY <1>4
  <2>2. d[1] = r.of /\ d[2] = Results!Merged(t, r.of)
    BY <2>1
  <2>3. \A s \in FileOf(t) : s.of = r.of => s.text = r.text
    BY InputIsRead
  <2>4. QED
    BY <1>1, <1>3, <2>2, <2>3
<1>7. ASSUME t \in Results!FileTypes, NEW r \in FileOf(t)
      PROVE  \E d \in Results!Targets(t) : d[1] = r.of
  <2>1. <<r.of, Results!Merged(t, r.of)>> \in Results!Targets(t)
    BY <1>7, InputIsRead DEF Results!Targets, Results!Targeted, Results!FileTypes
  <2>2. QED
    BY <2>1
<1>8. QED
  BY <1>5, <1>6, <1>7

LEMMA DeriveReadsKeeps ==
  ASSUME ResultsInv, NEW t \in Types, Results!DeriveReads(t)
  PROVE  ResultsInv'
<1>1. PICK T : T = Results!Targets(t)
  OBVIOUS
<1>2. /\ UNCHANGED <<text, users, file, staged, attempt, task, target, usage, chosen, raced>>
      /\ derive[t].step = "waiting"
      /\ derive' = [derive EXCEPT ![t] = [step |-> "read", targets |-> T]]
  BY <1>1 DEF Results!DeriveReads, Results!shop, Results!results
<1>3. Derived(t)
  BY <1>2 DEF Derived
<1>4. T \subseteq Results!Ids \X (Texts \cup {Null})
  BY <1>1, <1>3, TargetsRead
<1>5. /\ derive' \in [Types -> DeriveRows]
      /\ derive'[t].step = "read" /\ derive'[t].targets = T
      /\ \A u \in Types \ {t} : derive'[u] = derive[u]
  BY <1>2, <1>4, ResultRows DEF ResultsInv, DeriveRows
<1>6. ResultTypes'
  BY <1>2, <1>5 DEF ResultsInv, ResultTypes, DeriveRows
<1>7. Stays /\ \A u \in Types : Attended(u)' /\ \A n \in Results!Nos : FileFits(u, n)'
  <2>1. \A u \in Types : /\ Derived(u)' <=> Derived(u)
                         /\ task'[u].status = "SUCCESS" => derive'[u].step = "done"
    BY <1>2, <1>5 DEF ResultsInv, Attended, Derived
  <2>2. QED
    BY <1>2, <2>1, FilesKeep
<1>8. \A u \in Types : FileOf(u)' = FileOf(u) /\ (Derived(u)' <=> Derived(u))
  BY <1>2, <1>5 DEF FileOf, Derived
<1>9. UsagesAreRead'
  <2>1. \A u \in usage' : /\ u[1] \in Types \cap Results!FileTypes /\ Derived(u[1])'
                          /\ u \in Results!Usages(u[1], FileOf(u[1])')
                          /\ target'[u[2]] # Results!Absent
    BY <1>2, <1>8 DEF ResultsInv, UsagesAreRead
  <2>2. ASSUME NEW u \in Types
        PROVE  /\ derive'[u].step \in {"persisted", "done"} =>
                    Results!Usages(u, FileOf(u)') \subseteq usage'
               /\ derive'[u].step = "read" /\ u \in Results!FileTypes =>
                    \A r \in FileOf(u)' : \E d \in derive'[u].targets : d[1] = r.of
    <3>1. CASE u = t
      BY <1>1, <1>3, <1>5, <1>8, <3>1, TargetsRead
    <3>2. CASE u # t
      BY <1>2, <1>5, <1>8, <3>2 DEF ResultsInv, UsagesAreRead
    <3>3. QED
      BY <3>1, <3>2
  <2>3. QED
    BY <2>1, <2>2 DEF UsagesAreRead
<1>10. \A u \in Types : \A x, s : Derived(u) /\ Says(u, x, s) => Derived(u)' /\ Says(u, x, s)'
  BY <1>8 DEF Says
<1>11. TextsAreRead'
  <2>1. \A x \in Results!Ids : target'[x] \in Texts =>
          \E u \in Types : Derived(u)' /\ Says(u, x, target[x])'
    <3>1. ASSUME NEW x \in Results!Ids, target'[x] \in Texts
          PROVE  \E u \in Types : Derived(u)' /\ Says(u, x, target[x])'
      <4>1. PICK u \in Types : Derived(u) /\ Says(u, x, target[x])
        BY <1>2, <3>1 DEF ResultsInv, TextsAreRead
      <4>2. target' = target
        BY <1>2
      <4>3. Derived(u)' /\ Says(u, x, target[x])'
        BY <1>10, <4>1, <4>2
      <4>4. QED
        BY <4>3
    <3>2. QED
      BY <3>1
  <2>2. ASSUME NEW u \in Types, NEW d \in derive'[u].targets
        PROVE  /\ d[1] \in IF u \in Results!FileTypes THEN Images ELSE Covers
               /\ d[2] \in Texts => \E o \in Types : Derived(o)' /\ Says(o, d[1], d[2])'
    <3>1. CASE u = t
      BY <1>1, <1>3, <1>5, <1>10, <3>1, TargetsRead
    <3>2. CASE u # t
      BY <1>5, <1>10, <3>2 DEF ResultsInv, TextsAreRead
    <3>3. QED
      BY <3>1, <3>2
  <2>3. QED
    BY <2>1, <2>2 DEF TextsAreRead
<1>12. ChosenIsRead'
  <2>1. \A u \in chosen.types : derive'[u].step = "done" /\ FileOf(u)' = FileOf(u)
    BY <1>2, <1>5, <1>8 DEF ResultsInv, ResultTypes, ChosenIsRead
  <2>2. chosen'.usages =
          UNION {Results!Usages(u, FileOf(u)') : u \in chosen'.types \cap Results!FileTypes}
    BY <1>2, <2>1 DEF ResultsInv, ChosenIsRead
  <2>3. \A d \in chosen'.texts :
          d[2] \in Texts => \E u \in Types : Derived(u)' /\ Says(u, d[1], d[2])'
    BY <1>2, <1>10 DEF ResultsInv, ChosenIsRead
  <2>4. QED
    BY <1>2, <2>1, <2>2, <2>3 DEF ChosenIsRead
<1>13. ASSUME ~raced PROVE TextsAreKept' /\ Results!NonEmptyWins'
  <2>1. TextsAreKept /\ Results!NonEmptyWins
    BY <1>13 DEF ResultsInv
  <2>2. ASSUME NEW u \in Types \cap Results!FileTypes
        PROVE  /\ derive'[u].step \in {"persisted", "done"} =>
                    \A r \in FileOf(u)' : r.text # Null => target'[r.of] \in Texts
               /\ derive'[u].step = "read" =>
                    \A d \in derive'[u].targets :
                      d[2] = Null => target'[d[1]] \notin Texts
                                     /\ \A r \in FileOf(u)' : r.of = d[1] => r.text = Null
    <3>1. CASE u = t
      BY <1>1, <1>2, <1>3, <1>5, <1>8, <3>1, TargetsRead
    <3>2. CASE u # t
      BY <1>2, <1>5, <1>8, <2>1, <3>2 DEF TextsAreKept
    <3>3. QED
      BY <3>1, <3>2
  <2>3. TextsAreKept'
    BY <2>2 DEF TextsAreKept
  <2>4. \A x : Results!Files(x)' = Results!Files(x)
    BY <1>2 DEF Results!Files, Results!Current
  <2>5. Results!NonEmptyWins'
    BY <1>2, <2>1, <2>4 DEF Results!NonEmptyWins
  <2>6. QED
    BY <2>3, <2>5
<1>14. QED
  BY <1>2, <1>6, <1>7, <1>9, <1>11, <1>12, <1>13 DEF ResultsInv

LEMMA DerivePersistsKeeps ==
  ASSUME ResultsInv, NEW t \in Types, Results!DerivePersists(t)
  PROVE  ResultsInv'
<1>1. /\ UNCHANGED <<text, users, file, staged, attempt, task, chosen>>
      /\ derive[t].step = "read"
      /\ target' = Results!Persisted(t)
      /\ usage' = usage \cup Results!Usages(t, Results!Input(t))
      /\ derive' = [derive EXCEPT ![t] = [step |-> "persisted", targets |-> {}]]
      /\ raced' = (raced \/ \E o \in Types \ {t} : /\ derive[o].step = "read"
                                                   /\ {t, o} = Results!FileTypes)
  BY DEF Results!DerivePersists, Results!shop
<1>2. Derived(t)
  BY <1>1 DEF Derived
<1>3. /\ Results!Absent \notin Texts \cup {Null} /\ Null \notin Texts
      /\ Images \cap Covers = {} /\ Images \subseteq Results!Ids
  BY ResultsAssumption DEF Results!Absent, Results!Ids
<1>4. /\ derive' \in [Types -> DeriveRows]
      /\ derive'[t].step = "persisted" /\ derive'[t].targets = {}
      /\ \A u \in Types \ {t} : derive'[u] = derive[u]
  BY <1>1, ResultRows DEF ResultsInv, DeriveRows
<1>5. ASSUME NEW x \in Results!Ids
      PROVE  \/ \E d \in derive[t].targets : d[1] = x /\ target'[x] = d[2]
             \/ (\A d \in derive[t].targets : d[1] # x) /\ target'[x] = target[x]
  <2>1. target'[x] = IF \E d \in derive[t].targets : d[1] = x
                     THEN (CHOOSE d \in derive[t].targets : d[1] = x)[2]
                     ELSE target[x]
    BY <1>1 DEF Results!Persisted
  <2>2. CASE \E d \in derive[t].targets : d[1] = x
    <3>1. PICK e : e = CHOOSE d \in derive[t].targets : d[1] = x
      OBVIOUS
    <3>2. e \in derive[t].targets /\ e[1] = x
      BY <2>2, <3>1
    <3>3. QED
      BY <2>1, <2>2, <3>1, <3>2
  <2>3. QED
    BY <2>1, <2>2
<1>6. derive[t].targets \subseteq Results!Ids \X (Texts \cup {Null})
  BY DEF ResultsInv, ResultTypes
<1>7. target' \in [Results!Ids -> Texts \cup {Null, Results!Absent}]
  <2>1. \A x \in Results!Ids : target'[x] \in Texts \cup {Null, Results!Absent}
    <3>1. \A x \in Results!Ids : target[x] \in Texts \cup {Null, Results!Absent}
      BY DEF ResultsInv, ResultTypes
    <3>2. QED
      BY <1>5, <1>6, <3>1
  <2>2. QED
    BY <1>1, <2>1 DEF Results!Persisted
<1>8. ASSUME NEW u \in Results!Usages(t, FileOf(t))
      PROVE  /\ t \in Results!FileTypes /\ u[1] = t
             /\ u \in Results!FileTypes \X Images \X (Products \cup {Library})
             /\ \E r \in FileOf(t) : r.of = u[2]
  <2>1. t \in Results!FileTypes
    BY <1>8 DEF Results!Usages
  <2>2. PICK r \in FileOf(t) : u = <<t, r.of, r.user>>
    BY <1>8, <2>1 DEF Results!Usages
  <2>3. r.of \in Images /\ r.user \in Products \cup {Library}
    BY <1>2, <2>1, InputIsRead DEF Results!Rows
  <2>4. QED
    BY <2>1, <2>2, <2>3
<1>9. usage' = usage \cup Results!Usages(t, FileOf(t))
  BY <1>1, <1>2, InputIsRead
<1>10. raced' \in BOOLEAN /\ (~raced' => ~raced)
  BY <1>1 DEF ResultsInv, ResultTypes
<1>11. ResultTypes'
  BY <1>1, <1>4, <1>7, <1>8, <1>9, <1>10 DEF ResultsInv, ResultTypes, DeriveRows
<1>12. Stays /\ \A u \in Types : Attended(u)' /\ \A n \in Results!Nos : FileFits(u, n)'
  <2>1. \A u \in Types : /\ Derived(u)' <=> Derived(u)
                         /\ task'[u].status = "SUCCESS" => derive'[u].step = "done"
    BY <1>1, <1>4 DEF ResultsInv, Attended, Derived
  <2>2. QED
    BY <1>1, <2>1, FilesKeep
<1>13. \A u \in Types : FileOf(u)' = FileOf(u) /\ (Derived(u)' <=> Derived(u))
  BY <1>1, <1>4 DEF FileOf, Derived
<1>14. UsagesAreRead'
  <2>1. ASSUME NEW u \in usage'
        PROVE  /\ u[1] \in Types \cap Results!FileTypes /\ Derived(u[1])'
               /\ u \in Results!Usages(u[1], FileOf(u[1])')
               /\ target'[u[2]] # Results!Absent
    <3>1. CASE u \in usage
      <4>1. u[2] \in Results!Ids
        BY <1>3, <3>1 DEF ResultsInv, ResultTypes
      <4>2. target'[u[2]] # Results!Absent
        BY <1>3, <1>5, <1>6, <3>1, <4>1 DEF ResultsInv, UsagesAreRead
      <4>3. QED
        BY <1>13, <3>1, <4>2 DEF ResultsInv, UsagesAreRead
    <3>2. CASE u \in Results!Usages(t, FileOf(t))
      <4>1. /\ t \in Results!FileTypes /\ u[1] = t /\ u[2] \in Results!Ids
            /\ \E r \in FileOf(t) : r.of = u[2]
        BY <1>3, <1>8, <3>2
      <4>2. \E d \in derive[t].targets : d[1] = u[2]
        BY <1>1, <4>1 DEF ResultsInv, UsagesAreRead
      <4>3. target'[u[2]] # Results!Absent
        BY <1>3, <1>5, <1>6, <4>1, <4>2
      <4>4. QED
        BY <1>2, <1>13, <3>2, <4>1, <4>3
    <3>3. QED
      BY <1>9, <3>1, <3>2
  <2>2. ASSUME NEW u \in Types
        PROVE  /\ derive'[u].step \in {"persisted", "done"} =>
                    Results!Usages(u, FileOf(u)') \subseteq usage'
               /\ derive'[u].step = "read" /\ u \in Results!FileTypes =>
                    \A r \in FileOf(u)' : \E d \in derive'[u].targets : d[1] = r.of
    <3>1. CASE u = t
      BY <1>4, <1>9, <1>13, <3>1
    <3>2. CASE u # t
      BY <1>4, <1>9, <1>13, <3>2 DEF ResultsInv, UsagesAreRead
    <3>3. QED
      BY <3>1, <3>2
  <2>3. QED
    BY <2>1, <2>2 DEF UsagesAreRead
<1>15. \A u \in Types : \A x, s : Derived(u) /\ Says(u, x, s) => Derived(u)' /\ Says(u, x, s)'
  BY <1>13 DEF Says
<1>16. TextsAreRead'
  <2>1. ASSUME NEW x \in Results!Ids, NEW s \in Texts, target'[x] = s
        PROVE  \E u \in Types : Derived(u) /\ Says(u, x, s)
    <3>1. CASE target[x] = s
      BY <3>1 DEF ResultsInv, TextsAreRead
    <3>2. CASE \E d \in derive[t].targets : d[1] = x /\ target'[x] = d[2]
      BY <2>1, <3>2 DEF ResultsInv, TextsAreRead
    <3>3. QED
      BY <1>5, <2>1, <3>1, <3>2
  <2>2. \A x \in Results!Ids :
          target'[x] \in Texts => \E u \in Types : Derived(u)' /\ Says(u, x, target[x])'
    <3>1. ASSUME NEW x \in Results!Ids, NEW s \in Texts, target'[x] = s
          PROVE  \E u \in Types : Derived(u)' /\ Says(u, x, target[x])'
      <4>1. PICK u \in Types : Derived(u) /\ Says(u, x, s)
        BY <2>1, <3>1
      <4>2. Derived(u)' /\ Says(u, x, s)'
        BY <1>15, <4>1
      <4>3. QED
        BY <3>1, <4>2 DEF Says
    <3>2. QED
      BY <3>1
  <2>3. ASSUME NEW u \in Types, NEW d \in derive'[u].targets
        PROVE  /\ d[1] \in IF u \in Results!FileTypes THEN Images ELSE Covers
               /\ d[2] \in Texts => \E o \in Types : Derived(o)' /\ Says(o, d[1], d[2])'
    <3>1. u # t /\ d \in derive[u].targets
      BY <1>4, <2>3
    <3>2. QED
      BY <1>15, <3>1 DEF ResultsInv, TextsAreRead
  <2>4. QED
    BY <2>2, <2>3 DEF TextsAreRead
<1>17. ChosenIsRead'
  <2>1. \A u \in chosen.types : derive'[u].step = "done" /\ FileOf(u)' = FileOf(u)
    <3>1. \A u \in chosen.types : u \in Types /\ derive[u].step = "done"
      BY DEF ResultsInv, ResultTypes, ChosenIsRead
    <3>2. QED
      BY <1>1, <1>4, <1>13, <3>1
  <2>2. chosen'.usages =
          UNION {Results!Usages(u, FileOf(u)') : u \in chosen'.types \cap Results!FileTypes}
    BY <1>1, <2>1 DEF ResultsInv, ChosenIsRead
  <2>3. \A d \in chosen'.texts :
          d[2] \in Texts => \E u \in Types : Derived(u)' /\ Says(u, d[1], d[2])'
    BY <1>1, <1>15 DEF ResultsInv, ChosenIsRead
  <2>4. QED
    BY <1>1, <2>1, <2>2, <2>3 DEF ChosenIsRead
<1>18. ASSUME ~raced' PROVE TextsAreKept' /\ Results!NonEmptyWins'
  <2>1. TextsAreKept /\ Results!NonEmptyWins
    BY <1>10, <1>18 DEF ResultsInv
  <2>2. \A o \in Types \cap Results!FileTypes :
          t \in Results!FileTypes /\ o # t => derive[o].step # "read"
    <3>1. ASSUME NEW o \in Types \cap Results!FileTypes, t \in Results!FileTypes, o # t
          PROVE  {t, o} = Results!FileTypes
      BY <3>1 DEF Results!FileTypes
    <3>2. QED
      BY <1>1, <1>18, <3>1
  <2>3. t \notin Results!FileTypes => \A x \in Images : target'[x] = target[x]
    BY <1>3, <1>5 DEF ResultsInv, TextsAreRead
  \* An image that has a text keeps one.
  <2>4. ASSUME NEW x \in Images, target[x] \in Texts PROVE target'[x] \in Texts
    <3>1. CASE t \notin Results!FileTypes
      BY <2>3, <2>4, <3>1
    <3>2. CASE t \in Results!FileTypes
      <4>1. \A d \in derive[t].targets : d[1] = x => d[2] \in Texts
        BY <1>1, <1>6, <2>1, <2>4, <3>2 DEF TextsAreKept
      <4>2. QED
        BY <1>3, <1>5, <2>4, <4>1
    <3>3. QED
      BY <3>1, <3>2
  <2>5. ASSUME NEW u \in Types \cap Results!FileTypes
        PROVE  /\ derive'[u].step \in {"persisted", "done"} =>
                    \A r \in FileOf(u)' : r.text # Null => target'[r.of] \in Texts
               /\ derive'[u].step = "read" =>
                    \A d \in derive'[u].targets :
                      d[2] = Null => target'[d[1]] \notin Texts
                                     /\ \A r \in FileOf(u)' : r.of = d[1] => r.text = Null
    <3>1. CASE u = t
      <4>1. ASSUME NEW r \in FileOf(t), r.text # Null PROVE target'[r.of] \in Texts
        <5>1. r.of \in Results!Ids
          BY <1>2, InputIsRead DEF Results!Rows
        <5>2. \E d \in derive[t].targets : d[1] = r.of
          BY <1>1, <3>1 DEF ResultsInv, UsagesAreRead
        <5>3. \A d \in derive[t].targets : d[1] = r.of => d[2] \in Texts
          BY <1>1, <1>6, <2>1, <3>1, <4>1 DEF TextsAreKept
        <5>4. QED
          BY <1>5, <5>1, <5>2, <5>3
      <4>2. QED
        BY <1>4, <1>13, <3>1, <4>1
    <3>2. CASE u # t
      <4>1. derive'[u] = derive[u] /\ FileOf(u)' = FileOf(u)
        BY <1>4, <1>13, <3>2
      <4>2. ASSUME derive[u].step \in {"persisted", "done"}, NEW r \in FileOf(u), r.text # Null
            PROVE  target'[r.of] \in Texts
        <5>1. Derived(u)
          BY <4>2 DEF Derived
        <5>2. r.of \in Images
          BY <5>1, InputIsRead
        <5>3. target[r.of] \in Texts
          BY <2>1, <4>2 DEF TextsAreKept
        <5>4. QED
          BY <2>4, <5>2, <5>3
      <4>3. ASSUME derive[u].step = "read", NEW d \in derive[u].targets, d[2] = Null
            PROVE  /\ target'[d[1]] \notin Texts
                   /\ \A r \in FileOf(u) : r.of = d[1] => r.text = Null
        <5>1. t \notin Results!FileTypes
          BY <2>2, <3>2, <4>3
        <5>2. d[1] \in Images
          BY <4>3 DEF ResultsInv, TextsAreRead
        <5>3. target[d[1]] \notin Texts /\ \A r \in FileOf(u) : r.of = d[1] => r.text = Null
          BY <2>1, <4>3 DEF TextsAreKept
        <5>4. QED
          BY <2>3, <5>1, <5>2, <5>3
      <4>4. QED
        BY <4>1, <4>2, <4>3
    <3>3. QED
      BY <3>1, <3>2
  <2>6. TextsAreKept'
    BY <2>5 DEF TextsAreKept
  <2>7. \A x : Results!Files(x)' = Results!Files(x)
    BY <1>1 DEF Results!Files, Results!Current
  <2>8. Results!NonEmptyWins'
    BY <1>1, <2>1, <2>7 DEF Results!NonEmptyWins
  <2>9. QED
    BY <2>6, <2>8
<1>19. QED
  BY <1>11, <1>12, <1>14, <1>16, <1>17, <1>18 DEF ResultsInv

LEMMA PublishKeeps ==
  ASSUME ResultsInv, Results!Publish
  PROVE  ResultsInv'
<1> DEFINE Won == Results!Won
           U == {u \in usage : u[1] \in Won /\ target[u[2]] # Results!Absent}
           X == {u[2] : u \in U}
                \cup {x \in Covers : Won \cap Results!CoverTypes # {} /\ target[x] # Results!Absent}
<1>1. /\ UNCHANGED <<text, users, file, staged, attempt, task, derive, target, usage, raced>>
      /\ chosen' = [types |-> Won, usages |-> U, texts |-> {<<x, target[x]>> : x \in X}]
  BY DEF Results!Publish, Results!shop, Results!results
<1>2. chosen'.types = Won /\ chosen'.usages = U /\ chosen'.texts = {<<x, target[x]>> : x \in X}
  BY <1>1
<1>3. Won \subseteq Types /\ \A t \in Won : derive[t].step = "done" /\ Derived(t)
  BY DEF Results!Won, ResultsInv, Attended, Derived
<1>4. X \subseteq Results!Ids
  BY DEF ResultsInv, ResultTypes, Results!Ids
<1>5. ResultTypes'
  BY <1>1, <1>2, <1>3 DEF ResultsInv, ResultTypes
<1>6. \A t \in Types : Attended(t)' /\ \A n \in Results!Nos : FileFits(t, n)'
  <2>1. \A t \in Types : /\ task'[t].current = task[t].current
                         /\ Derived(t)' <=> Derived(t)
                         /\ task'[t].status = "SUCCESS" => derive'[t].step = "done"
    BY <1>1 DEF ResultsInv, Attended, Derived
  <2>2. QED
    BY <1>1, <2>1, FilesKeep
<1>7. UsagesAreRead' /\ TextsAreRead'
  <2>1. UsagesAreRead /\ TextsAreRead
    BY DEF ResultsInv
  <2>2. QED
    BY <1>1, <2>1 DEF UsagesAreRead, TextsAreRead, Derived, Says, FileOf
<1>8. U = UNION {Results!Usages(t, FileOf(t)) : t \in Won \cap Results!FileTypes}
  <2>1. ASSUME NEW u \in U
        PROVE  \E t \in Won \cap Results!FileTypes : u \in Results!Usages(t, FileOf(t))
    BY DEF ResultsInv, UsagesAreRead
  <2>2. ASSUME NEW t \in Won \cap Results!FileTypes, NEW u \in Results!Usages(t, FileOf(t))
        PROVE  u \in U
    <3>1. u \in usage
      BY <1>3, <2>2 DEF ResultsInv, UsagesAreRead
    <3>2. u[1] = t
      BY <2>2 DEF Results!Usages
    <3>3. QED
      BY <3>1, <3>2 DEF ResultsInv, UsagesAreRead
  <2>3. QED
    BY <2>1, <2>2
<1>9. ChosenIsRead'
  <2>1. \A d \in chosen'.texts :
          d[2] \in Texts => \E t \in Types : Derived(t) /\ Says(t, d[1], d[2])
    BY <1>2, <1>4 DEF ResultsInv, TextsAreRead
  <2>2. QED
    BY <1>1, <1>2, <1>3, <1>8, <2>1 DEF ChosenIsRead, Derived, Says, FileOf
<1>10. ASSUME ~raced PROVE TextsAreKept' /\ Results!NonEmptyWins'
  <2>1. TextsAreKept
    BY <1>10 DEF ResultsInv
  <2>2. TextsAreKept'
    BY <1>1, <2>1 DEF TextsAreKept, FileOf
  <2>3. ASSUME NEW d \in chosen'.texts, d[1] \in Images, d[2] = Null,
               NEW t \in Won, NEW r \in FileOf(t), r.of = d[1]
        PROVE  r.text = Null
    <3>1. target[d[1]] = Null
      BY <1>2, <2>3
    <3>2. t \in Results!FileTypes
      BY <1>3, <2>3, InputIsRead, ResultsAssumption
    <3>3. r.text # Null => target[r.of] \in Texts
      BY <1>3, <2>1, <2>3, <3>2 DEF TextsAreKept
    <3>4. QED
      BY <2>3, <3>1, <3>3, ResultsAssumption
  <2>4. \A x : Results!Files(x)' = {r \in UNION {FileOf(t) : t \in Won} : r.of = x}
    BY <1>1, <1>2 DEF Results!Files, Results!Current, FileOf
  <2>5. Results!NonEmptyWins'
    BY <2>3, <2>4 DEF Results!NonEmptyWins
  <2>6. QED
    BY <2>2, <2>5
<1>11. QED
  BY <1>1, <1>5, <1>6, <1>7, <1>9, <1>10 DEF ResultsInv

\* A step of another part leaves the results alone.
LEMMA ResultsRest ==
  ASSUME ResultsInv, UNCHANGED resultVars
  PROVE  ResultsInv'
<1>1. UNCHANGED <<text, users, file, staged, attempt, task, derive, target, usage, chosen, raced>>
  BY DEF resultVars
<1>2. ResultTypes'
  BY <1>1 DEF ResultsInv, ResultTypes
<1>3. Stays /\ \A t \in Types : Attended(t)' /\ \A n \in Results!Nos : FileFits(t, n)'
  <2>1. \A t \in Types : /\ task'[t].current = task[t].current
                         /\ Derived(t)' <=> Derived(t)
                         /\ task'[t].status = "SUCCESS" => derive'[t].step = "done"
    BY <1>1 DEF ResultsInv, Attended, Derived
  <2>2. QED
    BY <1>1, <2>1, FilesKeep
<1>4. /\ UsagesAreRead' /\ TextsAreRead' /\ ChosenIsRead'
      /\ ~raced' => TextsAreKept' /\ Results!NonEmptyWins'
  BY <1>1, <1>3, DerivedKeep
<1>5. QED
  BY <1>2, <1>3, <1>4 DEF ResultsInv

LEMMA ResultsNext ==
  ASSUME ResultsInv, [InboundNext]_inboundVars
  PROVE  ResultsInv'
<1>1. CASE Results!Next
  <2>1. ASSUME NEW t \in Types, \/ Results!BulkCompletes(t)
                                \/ Results!ParseStarts(t) \/ Results!Flush(t)
                                \/ Results!ParseSucceeds(t) \/ Results!ParseFails(t)
        PROVE  ResultsInv'
    BY <2>1, BulkCompletesKeeps, ParseStartsKeeps, FlushKeeps, ParseSucceedsKeeps, ParseFailsKeeps
  <2>2. ASSUME NEW t \in Types, \/ Results!DeriveReads(t) \/ Results!DerivePersists(t)
                                \/ Results!DeriveEnds(t) \/ Results!DeriveFails(t)
        PROVE  ResultsInv'
    BY <2>2, DeriveReadsKeeps, DerivePersistsKeeps, DeriveEndsKeeps, DeriveFailsKeeps
  <2>3. QED
    BY <1>1, <2>1, <2>2, EditKeeps, PublishKeeps DEF Results!Next
<1>2. CASE UNCHANGED resultVars
  BY <1>2, ResultsRest
<1>3. QED
  BY <1>1, <1>2 DEF InboundNext, inboundVars

LEMMA ResultsStart ==
  ASSUME InboundInit
  PROVE  ResultsInv
<1>1. Results!Init
  BY DEF InboundInit
<1>2. /\ \A t \in Types, n \in Results!Nos : file[t][n] = {} /\ staged[t][n] = {}
      /\ \A t \in Types : task[t] = [status |-> "RUNNING", current |-> 1]
      /\ \A t \in Types : derive[t] = [step |-> "none", targets |-> {}]
      /\ \A t \in Types, n \in Results!Nos : attempt[t][n] = IF n = 1 THEN "RUNNING" ELSE "NONE"
      /\ \A x \in Results!Ids : target[x] = Results!Absent
      /\ usage = {} /\ chosen.types = {} /\ chosen.texts = {} /\ chosen.usages = {}
  BY <1>1 DEF Results!Init, Results!Unpublished
<1>3. 1 \in Results!Nos /\ Results!Absent \notin Texts \cup {Null} /\ NoImage \notin Texts
      /\ NoImage # Null /\ Images \subseteq Results!Ids
  BY ResultsAssumption DEF Results!Nos, Results!Absent, Results!Ids
<1>4. ResultTypes
  <2>1. task \in [Types -> TaskRows]
    BY <1>1, <1>3 DEF Results!Init, TaskRows
  <2>2. derive \in [Types -> DeriveRows]
    BY <1>1 DEF Results!Init, DeriveRows
  <2>3. attempt \in [Types -> [Results!Nos -> AttemptStatuses]]
    BY <1>1 DEF Results!Init, AttemptStatuses
  <2>4. /\ text \in [Results!Ids -> Texts \cup {Null, NoImage}]
        /\ \A x \in Images : text[x] # NoImage
    BY <1>1, <1>3 DEF Results!Init
  <2>5. /\ file \in [Types -> [Results!Nos -> SUBSET Results!Rows]]
        /\ staged \in [Types -> [Results!Nos -> SUBSET Results!Rows]]
    BY <1>1 DEF Results!Init
  <2>6. /\ target \in [Results!Ids -> Texts \cup {Null, Results!Absent}]
        /\ users \subseteq Images \X Products /\ raced = FALSE
    BY <1>1 DEF Results!Init
  <2>7. QED
    BY <1>2, <2>1, <2>2, <2>3, <2>4, <2>5, <2>6
       DEF ResultTypes, TaskRows, DeriveRows, AttemptStatuses
<1>5. \A t \in Types : Attended(t) /\ \A n \in Results!Nos : FileFits(t, n)
  BY <1>2, <1>3 DEF Attended, Derived, FileFits, Results!Nos
<1>6. UsagesAreRead /\ TextsAreRead /\ TextsAreKept
  BY <1>2, <1>3 DEF UsagesAreRead, TextsAreRead, TextsAreKept
<1>7. ChosenIsRead /\ Results!NonEmptyWins
  BY <1>2 DEF ChosenIsRead, Results!NonEmptyWins
<1>8. QED
  BY <1>4, <1>5, <1>6, <1>7 DEF ResultsInv

\* The invariant of the results of a scan
THEOREM ResultsInvariant == InboundSpec => []ResultsInv
<1>1. InboundInit => ResultsInv
  BY ResultsStart
<1>2. ResultsInv /\ [InboundNext]_inboundVars => ResultsInv'
  BY ResultsNext
<1>3. QED
  BY <1>1, <1>2, PTL DEF InboundSpec

\* What is published is what the scan read (publishScanResult takes the usages and
\* targets of the tasks that succeeded): of every file type whose last attempt was
\* derived the usages of that attempt's file, whole, and texts that a last attempt's
\* file says.
THEOREM PublicationIsRead == InboundSpec => []PublishedIsRead
<1>1. ResultsInv => PublishedIsRead
  <2>1. SUFFICES ASSUME ResultsInv PROVE PublishedIsRead
    OBVIOUS
  <2>2. ChosenIsRead
    BY <2>1 DEF ResultsInv
  <2>3. QED
    BY <2>2
       DEF PublishedIsRead, Results!PublishedIsRead, ChosenIsRead, Results!Current, FileOf, Says
<1>2. QED
  BY <1>1, ResultsInvariant, PTL

\* "Non-empty first" (derive.service.ts) holds unless the derive jobs of the product
\* media and of the files overlapped: no image is published without a text that a
\* result file has of it.
THEOREM NonEmptyIsKeptAlone == InboundSpec => []NonEmptyWinsAlone
<1>1. ResultsInv => NonEmptyWinsAlone
  BY DEF ResultsInv, NonEmptyWinsAlone, Results!NonEmptyWinsAlone
<1>2. QED
  BY <1>1, ResultsInvariant, PTL

-----------------------------------------------------------------------------
(***************************************************************************)
(* Catalog, for any images, covers and transactions and any finite set of  *)
(* products: the usages decide whether an image exists, nothing that is    *)
(* gone or has a text is offered, and the review list follows the usages.  *)
(*                                                                         *)
(* The argument goes slice by slice (Sliced): what the slices of the first *)
(* owners of a transaction touched is right with respect to the usages     *)
(* that it knows of, and nothing else has changed.  When the last is       *)
(* through, an image it touched is outdated only if one of these usages is *)
(* not what is published.  The number of slices is any, so this is an      *)
(* induction along the order of the owners; it goes by the least number    *)
(* for which the claim would not hold.                                     *)
(***************************************************************************)

\* Publication's owners are finitely many.
LEMMA OwnersAreFinite ==
  /\ IsFiniteSet(Publication!Owners)
  /\ \A S \in SUBSET Publication!Owners : Publication!Cardinality(S) \in Nat
<1>1. IsFiniteSet(Publication!Owners)
  BY ResultsAssumption, FS_Singleton, FS_Union DEF Publication!Owners
<1>2. \A S : Publication!Cardinality(S) = Cardinality(S)
  BY DEF Publication!Cardinality, Cardinality
<1>3. QED
  BY <1>1, <1>2, FS_Subset, FS_CardinalityType

\* What the first m slices make of the catalog
Begun(c, t, order, m, f) ==
  f = [k \in 0 .. m |-> IF k = 0 THEN c ELSE Publication!Converge(f[k - 1], t, order[k])]

\* A property of numbers that holds at 0 and passes from one to the next holds for all
\* (the set of those that do not have it would have a least).
LEMMA FromZero ==
  ASSUME NEW S, 0 \in S, \A k \in Nat : k \in S => k + 1 \in S
  PROVE  Nat \subseteq S
<1>1. SUFFICES ASSUME Nat \ S # {} PROVE FALSE
  OBVIOUS
<1>2. PICK k \in Nat \ S : \A n \in Nat \ S : ~ (<<n, k>> \in OpToRel(<, Nat))
  BY <1>1, NatLessThanWellFounded, WFMin, Zenon
<1>3. k # 0 /\ k \in Nat \ S /\ k - 1 \in Nat
  <2>1. k \in Nat \ S
    OBVIOUS
  <2>2. QED
    BY <2>1
<1>4. <<k - 1, k>> \in OpToRel(<, Nat)
  BY <1>3 DEF OpToRel
<1>5. k - 1 \in S
  BY <1>2, <1>3, <1>4, Zenon
<1>6. QED
  <2>1. (k - 1) + 1 = k
    BY <1>3
  <2>2. QED
    BY <1>3, <1>5, <2>1

LEMMA Begins ==
  ASSUME NEW c, NEW t, NEW order
  PROVE  \A m \in Nat : \E f : Begun(c, t, order, m, f)
<1> DEFINE S == {m \in Nat : \E f : Begun(c, t, order, m, f)}
<1>1. 0 \in S
  <2>1. Begun(c, t, order, 0, [k \in 0 .. 0 |-> c])
    BY DEF Begun
  <2>2. QED
    BY <2>1
<1>2. ASSUME NEW m \in Nat, m \in S PROVE m + 1 \in S
  <2>1. PICK f : Begun(c, t, order, m, f)
    BY <1>2
  <2>2. Begun(c, t, order, m + 1,
          [k \in 0 .. m + 1 |-> IF k = m + 1 THEN Publication!Converge(f[m], t, order[m + 1]) ELSE f[k]])
    BY <2>1 DEF Begun
  <2>3. QED
    BY <2>2
<1>3. QED
  <2> HIDE DEF S
  <2>1. Nat \subseteq S
    BY <1>1, <1>2, FromZero
  <2>2. QED
    BY <2>1 DEF S

LEMMA SlicesAre ==
  ASSUME NEW c, NEW t, NEW order, Publication!Cardinality(t.content.owners) \in Nat
  PROVE  Begun(c, t, order, Publication!Cardinality(t.content.owners), Publication!Slices(c, t, order))
<1> DEFINE n == Publication!Cardinality(t.content.owners)
<1>1. \E f : Begun(c, t, order, n, f)
  BY Begins
<1>2. Publication!Slices(c, t, order) =
        CHOOSE f : f = [k \in 0 .. n |-> IF k = 0 THEN c ELSE Publication!Converge(f[k - 1], t, order[k])]
  BY DEF Publication!Slices
<1>3. QED
  BY <1>1, <1>2, Zenon DEF Begun
-----------------------------------------------------------------------------
\* What is offered for generation or writeback is there and has no text.
Offered(c, x) ==
  c.candidate[x] \in Publication!Workable =>
    c.target[x].present = "PRESENT" /\ c.target[x].empty

\* The groups of a target are those of its usages; a target has a candidate once it is
\* there, which it is before a usage of it.
Placed(c, x) ==
  /\ c.groups[x] = Publication!NextGroups(c, x)
  /\ c.candidate[x] = "NONE" <=> c.target[x].present = "NONE"
  /\ x \in Images /\ c.target[x].present = "NONE" =>
       \A o \in Publication!Owners : c.usage[x][o] = "NONE"

\* Two catalogs say the same of a target.
SameOf(c, d, x) == /\ c.target[x] = d.target[x]
                   /\ c.candidate[x] = d.candidate[x]
                   /\ c.groups[x] = d.groups[x]

\* An open transaction
TxRows == [open : {TRUE}, content : Publication!Contents,
           sees : [Images -> [Publication!Owners -> Publication!Presence]]]

LEMMA CatalogIs ==
  ASSUME NEW c \in Publication!Catalogs
  PROVE  \E T \in [Publication!Targets -> Publication!TargetRows],
            U \in [Images -> [Publication!Owners -> Publication!Presence]],
            C \in [Publication!Targets -> Publication!CandidateStatuses],
            G \in [Publication!Targets -> SUBSET Publication!Groups] :
           c = [target |-> T, usage |-> U, candidate |-> C, groups |-> G]
<1>1. /\ c.target \in [Publication!Targets -> Publication!TargetRows]
      /\ c.usage \in [Images -> [Publication!Owners -> Publication!Presence]]
      /\ c.candidate \in [Publication!Targets -> Publication!CandidateStatuses]
      /\ c.groups \in [Publication!Targets -> SUBSET Publication!Groups]
      /\ c = [target |-> c.target, usage |-> c.usage, candidate |-> c.candidate,
              groups |-> c.groups]
  BY DEF Publication!Catalogs
<1>2. QED
  BY <1>1, Zenon

LEMMA Recomputes ==
  ASSUME NEW c \in Publication!Catalogs, NEW S \in SUBSET Publication!Targets,
         \A x \in S : c.target[x].present # "NONE",
         NEW r, r = Publication!Recompute(c, S)
  PROVE  /\ r \in Publication!Catalogs
         /\ r.target = c.target /\ r.usage = c.usage
         /\ \A x \in Publication!Targets \ S : SameOf(r, c, x)
         /\ \A x \in S : Offered(r, x) /\ Placed(r, x)
<1>1. PICK T \in [Publication!Targets -> Publication!TargetRows],
           U \in [Images -> [Publication!Owners -> Publication!Presence]],
           C \in [Publication!Targets -> Publication!CandidateStatuses],
           G \in [Publication!Targets -> SUBSET Publication!Groups] :
        c = [target |-> T, usage |-> U, candidate |-> C, groups |-> G]
  BY CatalogIs
<1> DEFINE K == [x \in Publication!Targets |->
                   IF x \in S THEN Publication!NextStatus(c, x) ELSE C[x]]
           H == [x \in Publication!Targets |->
                   IF x \in S THEN Publication!NextGroups(c, x) ELSE G[x]]
<1>2. r = [target |-> T, usage |-> U, candidate |-> K, groups |-> H]
  BY <1>1 DEF Publication!Recompute
<1>3. \A x \in S : /\ Publication!NextStatus(c, x) \in Publication!CandidateStatuses
                   /\ Publication!NextStatus(c, x) # "NONE"
                   /\ Publication!NextStatus(c, x) \in Publication!Workable =>
                        T[x].present = "PRESENT" /\ T[x].empty
  <2>1. SUFFICES ASSUME NEW x \in S
                 PROVE  /\ Publication!NextStatus(c, x) \in Publication!CandidateStatuses
                        /\ Publication!NextStatus(c, x) # "NONE"
                        /\ Publication!NextStatus(c, x) \in Publication!Workable =>
                             T[x].present = "PRESENT" /\ T[x].empty
    OBVIOUS
  <2>2. T[x].present \in {"PRESENT", "NOT_FOUND"} /\ c.target[x] = T[x]
    BY <1>1 DEF Publication!TargetRows, Publication!Presence
  <2>3. QED
    BY <2>2 DEF Publication!NextStatus, Publication!CandidateStatuses, Publication!Workable,
       Publication!Writable, Publication!Generating, Publication!Generatable
<1>4. \A x \in S : Publication!NextGroups(c, x) \in SUBSET Publication!Groups
  BY DEF Publication!NextGroups, Publication!Groups
<1>5. K \in [Publication!Targets -> Publication!CandidateStatuses]
      /\ H \in [Publication!Targets -> SUBSET Publication!Groups]
  BY <1>3, <1>4
<1>6. \A x : Publication!NextGroups(r, x) = Publication!NextGroups(c, x)
  <2>1. r.target = c.target /\ r.usage = c.usage
    BY <1>1, <1>2
  <2>2. QED
    BY <2>1 DEF Publication!NextGroups, Publication!UsedBy
<1> HIDE DEF K, H
<1>7. r \in Publication!Catalogs
  BY <1>2, <1>5 DEF Publication!Catalogs
<1>8. \A x \in Publication!Targets \ S : K[x] = C[x] /\ H[x] = G[x]
  BY DEF K, H
<1>9. \A x \in S : K[x] = Publication!NextStatus(c, x) /\ H[x] = Publication!NextGroups(c, x)
  BY DEF K, H
<1>10. QED
  BY <1>1, <1>2, <1>3, <1>6, <1>7, <1>8, <1>9 DEF SameOf, Offered, Placed

\* What a slice touches are images; what it writes are usages by its owner.
LEMMA TouchedAre ==
  ASSUME NEW t \in TxRows, NEW o \in Publication!Owners
  PROVE  Publication!Touched(t, o) \subseteq Images /\ Images \subseteq Publication!Targets
         /\ t.content.media[o] \subseteq Publication!Touched(t, o)
BY DEF TxRows, Publication!Contents, Publication!Touched, Publication!Targets

\* The slice of one owner: only what it touches changes, and of that everything is right
\* with respect to the usages that the transaction knows of.
LEMMA Converges ==
  ASSUME NEW c \in Publication!Catalogs, NEW t \in TxRows, NEW o \in Publication!Owners,
         NEW r, r = Publication!Converge(c, t, o)
  PROVE  /\ r \in Publication!Catalogs
         /\ \A i \in Images, q \in Publication!Owners :
              i \notin Publication!Touched(t, o) \/ q # o => r.usage[i][q] = c.usage[i][q]
         /\ \A x \in Publication!Targets \ Publication!Touched(t, o) : SameOf(r, c, x)
         /\ \A i \in Publication!Touched(t, o) :
              /\ r.target[i].present =
                   IF Publication!StillUsed(r, t, i) THEN "PRESENT" ELSE "NOT_FOUND"
              /\ Offered(r, i) /\ Placed(r, i)
<1> DEFINE media == t.content.media[o]
           touched == Publication!Touched(t, o)
<1>1. PICK T \in [Publication!Targets -> Publication!TargetRows],
           U \in [Images -> [Publication!Owners -> Publication!Presence]],
           C \in [Publication!Targets -> Publication!CandidateStatuses],
           G \in [Publication!Targets -> SUBSET Publication!Groups] :
        c = [target |-> T, usage |-> U, candidate |-> C, groups |-> G]
  BY CatalogIs
<1> DEFINE V == [i \in Images |->
                   IF i \in touched
                   THEN [U[i] EXCEPT ![o] = IF i \in media THEN "PRESENT" ELSE "NOT_FOUND"]
                   ELSE U[i]]
           used == [target |-> T, usage |-> V, candidate |-> C, groups |-> G]
           R == [x \in Publication!Targets |->
                   IF x \in touched
                   THEN [present |-> IF Publication!StillUsed(used, t, x) THEN "PRESENT"
                                     ELSE "NOT_FOUND",
                         empty |-> IF x \in media THEN x \notin t.content.filled ELSE T[x].empty]
                   ELSE T[x]]
           found == [target |-> R, usage |-> V, candidate |-> C, groups |-> G]
<1>2. r = Publication!Recompute(found, touched)
  <2>1. [c EXCEPT !.usage = [i \in Images |->
                 IF i \in touched
                 THEN [@[i] EXCEPT ![o] = IF i \in media THEN "PRESENT" ELSE "NOT_FOUND"]
                 ELSE @[i]]] = used
    <3>1. \A W : [c EXCEPT !.usage = W] = [target |-> T, usage |-> W, candidate |-> C, groups |-> G]
      BY <1>1
    <3>2. c.usage = U
      BY <1>1
    <3>3. QED
      BY <3>1, <3>2, Zenon
  <2>2. [used EXCEPT !.target = [x \in Publication!Targets |->
                 IF x \in touched
                 THEN [present |-> IF Publication!StillUsed(used, t, x) THEN "PRESENT"
                                   ELSE "NOT_FOUND",
                       empty |-> IF x \in media THEN x \notin t.content.filled ELSE @[x].empty]
                 ELSE @[x]]] = found
    <3>1. /\ \A W : [used EXCEPT !.target = W] =
                     [target |-> W, usage |-> V, candidate |-> C, groups |-> G]
          /\ used.target = T
      <4> HIDE DEF V
      <4>1. QED
        OBVIOUS
    <3> HIDE DEF used
    <3>2. QED
      BY <3>1, Zenon
  <2> HIDE DEF used, found
  <2>3. QED
    BY <2>1, <2>2, Zenon DEF Publication!Converge
<1>3. V \in [Images -> [Publication!Owners -> Publication!Presence]]
  BY DEF Publication!Presence
<1>4. R \in [Publication!Targets -> Publication!TargetRows]
  <2>1. \A x \in Publication!Targets : T[x].empty \in BOOLEAN
    BY DEF Publication!TargetRows
  <2>2. QED
    BY <2>1 DEF Publication!TargetRows, Publication!Presence
<1>5. found \in Publication!Catalogs
  BY <1>3, <1>4, <1>1 DEF Publication!Catalogs
<1>6. touched \in SUBSET Publication!Targets /\ \A x \in touched : found.target[x].present # "NONE"
  BY TouchedAre
<1>7. /\ r \in Publication!Catalogs
      /\ r.target = found.target /\ r.usage = found.usage
      /\ \A x \in Publication!Targets \ touched : SameOf(r, found, x)
      /\ \A x \in touched : Offered(r, x) /\ Placed(r, x)
  <2> HIDE DEF found, touched
  <2>1. QED
    BY <1>2, <1>5, <1>6, Recomputes
<1>8. \A i : Publication!StillUsed(r, t, i) <=> Publication!StillUsed(used, t, i)
  <2>1. r.usage = used.usage
    BY <1>7
  <2>2. QED
    BY <2>1 DEF Publication!StillUsed, Publication!View
<1>9. \A i \in Images, q \in Publication!Owners :
        i \notin touched \/ q # o => r.usage[i][q] = c.usage[i][q]
  BY <1>1, <1>7
<1>10. \A x \in Publication!Targets \ touched : SameOf(found, c, x)
  BY <1>1 DEF SameOf
<1>11. \A i \in touched : r.target[i].present =
                            IF Publication!StillUsed(r, t, i) THEN "PRESENT" ELSE "NOT_FOUND"
  BY <1>6, <1>7, <1>8
<1>12. \A x \in Publication!Targets \ touched : SameOf(r, c, x)
  <2> HIDE DEF found, touched
  <2>1. QED
    BY <1>7, <1>10 DEF SameOf
<1>13. QED
  BY <1>7, <1>9, <1>11, <1>12

\* A target that a catalog says the same of, with the same usages, is as right as before.
LEMMA SameIsRight ==
  ASSUME NEW c, NEW d, NEW t, NEW x \in Publication!Targets, SameOf(d, c, x),
         x \in Images => \A q \in Publication!Owners : d.usage[x][q] = c.usage[x][q]
  PROVE  /\ x \in Images => (Publication!StillUsed(d, t, x) <=> Publication!StillUsed(c, t, x))
         /\ x \in Images => (Publication!UsedBy(d, x, Publication!Owners)
                             <=> Publication!UsedBy(c, x, Publication!Owners))
         /\ Offered(c, x) => Offered(d, x)
         /\ Placed(c, x) => Placed(d, x)
<1>1. ASSUME x \in Images
      PROVE  Publication!StillUsed(d, t, x) <=> Publication!StillUsed(c, t, x)
  BY <1>1 DEF Publication!StillUsed, Publication!View
<1>2. ASSUME x \in Images, NEW S \in SUBSET Publication!Owners
      PROVE  Publication!UsedBy(d, x, S) <=> Publication!UsedBy(c, x, S)
  BY <1>2 DEF Publication!UsedBy
<1>3. Publication!NextGroups(d, x) = Publication!NextGroups(c, x)
  <2>1. CASE x \in Images
    <3>1. /\ Publication!UsedBy(d, x, {Library}) <=> Publication!UsedBy(c, x, {Library})
          /\ Publication!UsedBy(d, x, Products) <=> Publication!UsedBy(c, x, Products)
      BY <2>1, <1>2 DEF Publication!Owners
    <3>2. QED
      BY <2>1, <3>1 DEF Publication!NextGroups
  <2>2. CASE x \notin Images
    BY <2>2 DEF Publication!NextGroups, SameOf
  <2>3. QED
    BY <2>1, <2>2
<1>4. QED
  BY <1>1, <1>2, <1>3 DEF SameOf, Offered, Placed

\* After the slices of the owners D: what they touch is right with respect to the usages
\* that the transaction knows of, and nothing else has changed.
Sliced(c, p, t, D) ==
  /\ c \in Publication!Catalogs
  /\ \A i \in Images, o \in Publication!Owners :
       c.usage[i][o] # p.usage[i][o] => o \in D /\ i \in Publication!Touched(t, o)
  /\ \A x \in Publication!Targets :
       (\A o \in D : x \notin Publication!Touched(t, o)) => SameOf(c, p, x)
  /\ \A o \in D : \A i \in Publication!Touched(t, o) :
       /\ c.target[i].present = IF Publication!StillUsed(c, t, i) THEN "PRESENT" ELSE "NOT_FOUND"
       /\ Offered(c, i) /\ Placed(c, i)

LEMMA OneSlice ==
  ASSUME NEW c, NEW p, NEW t \in TxRows, NEW D \in SUBSET Publication!Owners, Sliced(c, p, t, D),
         NEW o \in Publication!Owners, NEW r, r = Publication!Converge(c, t, o)
  PROVE  Sliced(r, p, t, D \cup {o})
<1>1. c \in Publication!Catalogs
  BY DEF Sliced
<1>2. /\ r \in Publication!Catalogs
      /\ \A i \in Images, q \in Publication!Owners :
           i \notin Publication!Touched(t, o) \/ q # o => r.usage[i][q] = c.usage[i][q]
      /\ \A x \in Publication!Targets \ Publication!Touched(t, o) : SameOf(r, c, x)
      /\ \A i \in Publication!Touched(t, o) :
           /\ r.target[i].present =
                IF Publication!StillUsed(r, t, i) THEN "PRESENT" ELSE "NOT_FOUND"
           /\ Offered(r, i) /\ Placed(r, i)
  BY <1>1, Converges
<1>3. ASSUME NEW i \in Images, NEW q \in Publication!Owners, r.usage[i][q] # p.usage[i][q]
      PROVE  q \in D \cup {o} /\ i \in Publication!Touched(t, q)
  BY <1>2, <1>3 DEF Sliced
<1>4. ASSUME NEW x \in Publication!Targets,
             \A q \in D \cup {o} : x \notin Publication!Touched(t, q)
      PROVE  SameOf(r, p, x)
  <2>1. SameOf(c, p, x) /\ SameOf(r, c, x)
    BY <1>2, <1>4 DEF Sliced
  <2>2. QED
    BY <2>1 DEF SameOf
<1>5. ASSUME NEW q \in D \cup {o}, NEW i \in Publication!Touched(t, q)
      PROVE  /\ r.target[i].present =
                  IF Publication!StillUsed(r, t, i) THEN "PRESENT" ELSE "NOT_FOUND"
             /\ Offered(r, i) /\ Placed(r, i)
  <2>1. CASE i \in Publication!Touched(t, o)
    BY <2>1, <1>2
  <2>2. CASE i \notin Publication!Touched(t, o)
    <3>1. q \in D /\ i \in Images /\ i \in Publication!Targets
      BY <1>5, <2>2, TouchedAre
    <3>2. SameOf(r, c, i) /\ \A u \in Publication!Owners : r.usage[i][u] = c.usage[i][u]
      BY <1>2, <2>2, <3>1
    <3>3. /\ c.target[i].present =
               IF Publication!StillUsed(c, t, i) THEN "PRESENT" ELSE "NOT_FOUND"
          /\ Offered(c, i) /\ Placed(c, i)
      BY <3>1, <1>5 DEF Sliced
    <3>4. /\ Publication!StillUsed(r, t, i) <=> Publication!StillUsed(c, t, i)
          /\ Offered(r, i) /\ Placed(r, i)
      BY <3>1, <3>2, <3>3, SameIsRight
    <3>5. r.target[i] = c.target[i]
      BY <3>2 DEF SameOf
    <3>6. QED
      BY <3>3, <3>4, <3>5
  <2>3. QED
    BY <2>1, <2>2
<1>6. QED
  BY <1>2, <1>3, <1>4, <1>5 DEF Sliced

\* The slices of all owners, in whatever order
LEMMA AllSlices ==
  ASSUME NEW p \in Publication!Catalogs, NEW t \in TxRows,
         NEW order \in Publication!Orders(t.content.owners)
  PROVE  Sliced(Publication!ConvergeAll(p, t, order), p, t, t.content.owners)
<1> DEFINE owners == t.content.owners
           n == Publication!Cardinality(owners)
           after == Publication!Slices(p, t, order)
           Had(k) == {order[j] : j \in 1 .. k}
           Done == {k \in Nat : k <= n => Sliced(after[k], p, t, Had(k))}
<1>1. owners \in SUBSET Publication!Owners
  BY DEF TxRows, Publication!Contents
<1>2. n \in Nat
  BY <1>1, OwnersAreFinite
<1>3. order \in [1 .. n -> owners] /\ \A o \in owners : \E k \in 1 .. n : order[k] = o
  BY DEF Publication!Orders
<1>4. after = [k \in 0 .. n |->
                 IF k = 0 THEN p ELSE Publication!Converge(after[k - 1], t, order[k])]
  BY <1>2, SlicesAre DEF Begun
<1> HIDE DEF after, n, owners
<1>5. after[0] = p /\ \A k \in 1 .. n : after[k] = Publication!Converge(after[k - 1], t, order[k])
  BY <1>2, <1>4
<1>6. 0 \in Done
  <2>1. Had(0) = {}
    OBVIOUS
  <2>2. Sliced(p, p, t, {})
    BY DEF Sliced, SameOf
  <2>3. QED
    BY <1>5, <2>1, <2>2
<1>7. ASSUME NEW k \in Nat, k \in Done PROVE k + 1 \in Done
  <2>1. SUFFICES ASSUME k + 1 <= n PROVE Sliced(after[k + 1], p, t, Had(k + 1))
    OBVIOUS
  <2>2. k + 1 \in 1 .. n /\ k <= n /\ (k + 1) - 1 = k
    BY <1>2, <2>1
  <2>3. Sliced(after[k], p, t, Had(k))
    BY <1>7, <2>2
  <2>4. after[k + 1] = Publication!Converge(after[k], t, order[k + 1])
    BY <1>5, <2>2
  <2>5. Had(k + 1) = Had(k) \cup {order[k + 1]}
    OBVIOUS
  <2>6. Had(k) \in SUBSET Publication!Owners /\ order[k + 1] \in Publication!Owners
    <3>1. \A j \in 1 .. n : order[j] \in Publication!Owners
      BY <1>1, <1>3
    <3>2. 1 .. k \subseteq 1 .. n
      BY <1>2, <2>2
    <3>3. QED
      BY <2>2, <3>1, <3>2
  <2> HIDE DEF Had
  <2>7. QED
    BY <2>3, <2>4, <2>5, <2>6, OneSlice
<1>8. n \in Done
  <2> HIDE DEF Done
  <2>1. QED
    BY <1>2, <1>6, <1>7, FromZero
<1>9. Had(n) = owners
  BY <1>2, <1>3
<1>10. QED
  <2>1. Sliced(after[n], p, t, Had(n))
    BY <1>2, <1>8
  <2>2. QED
    BY <2>1, <1>9 DEF Publication!ConvergeAll, after, n, owners

\* The covers of S are brought up to date, whatever is found of them.
Converged(c, S, r) ==
  \E there, filled, articles : r = Publication!ConvergeCovers(c, S, there, filled, articles)

\* Nothing else changes.
LEMMA CoversConverge ==
  ASSUME NEW c \in Publication!Catalogs, NEW S \in SUBSET Covers, NEW r, Converged(c, S, r)
  PROVE  /\ r \in Publication!Catalogs /\ r.usage = c.usage
         /\ \A x \in Publication!Targets \ S : SameOf(r, c, x)
         /\ \A x \in S : Offered(r, x) /\ Placed(r, x) /\ r.target[x].present # "NONE"
<1>1. PICK T \in [Publication!Targets -> Publication!TargetRows],
           U \in [Images -> [Publication!Owners -> Publication!Presence]],
           C \in [Publication!Targets -> Publication!CandidateStatuses],
           G \in [Publication!Targets -> SUBSET Publication!Groups] :
        c = [target |-> T, usage |-> U, candidate |-> C, groups |-> G]
  BY CatalogIs
<1>2. PICK there, filled, articles :
        r = Publication!ConvergeCovers(c, S, there, filled, articles)
  BY DEF Converged
<1> DEFINE R == [x \in Publication!Targets |->
                   IF x \in S
                   THEN [present |-> IF x \in there THEN "PRESENT" ELSE "NOT_FOUND",
                         empty |-> IF x \in articles \ there THEN T[x].empty
                                   ELSE x \notin there \cap filled]
                   ELSE T[x]]
           found == [target |-> R, usage |-> U, candidate |-> C, groups |-> G]
<1>3. r = Publication!Recompute(found, S)
  <2>1. \A W : [c EXCEPT !.target = W] = [target |-> W, usage |-> U, candidate |-> C, groups |-> G]
    BY <1>1
  <2>2. c.target = T
    BY <1>1
  <2>3. QED
    BY <1>2, <2>1, <2>2, Zenon DEF Publication!ConvergeCovers
<1>4. R \in [Publication!Targets -> Publication!TargetRows]
  <2>1. \A x \in Publication!Targets : T[x].empty \in BOOLEAN
    BY DEF Publication!TargetRows
  <2>2. QED
    BY <2>1 DEF Publication!TargetRows, Publication!Presence
<1>5. found \in Publication!Catalogs
  BY <1>1, <1>4 DEF Publication!Catalogs
<1>6. S \in SUBSET Publication!Targets /\ \A x \in S : found.target[x].present # "NONE"
  BY DEF Publication!Targets
<1>7. /\ found.usage = c.usage
      /\ \A x \in Publication!Targets \ S : SameOf(found, c, x)
  BY <1>1 DEF SameOf
<1>8. QED
  <2> HIDE DEF found
  <2>1. /\ r \in Publication!Catalogs /\ r.usage = found.usage /\ r.target = found.target
        /\ \A x \in Publication!Targets \ S : SameOf(r, found, x)
        /\ \A x \in S : Offered(r, x) /\ Placed(r, x)
    BY <1>3, <1>5, <1>6, Recomputes
  <2>2. QED
    BY <1>6, <1>7, <2>1 DEF SameOf

-----------------------------------------------------------------------------
\* What the three properties say, of any catalog and any sets of excepted targets
Right(c, out, over) ==
  /\ \A i \in Images \ out :
       c.target[i].present = "PRESENT" <=> Publication!UsedBy(c, i, Publication!Owners)
  /\ \A x \in Publication!Targets \ over : Offered(c, x)
  /\ \A x \in Publication!Targets : Placed(c, x)

CatalogTypes == /\ shown \in Publication!Catalogs
                /\ tx \in [Txs -> {Publication!Idle} \cup TxRows]
                /\ asked \in [Txs -> Publication!Requests \cup {Publication!NoRequest}]
                /\ {drafts, marks, skipped, overwritten} \subseteq SUBSET Publication!Targets
                /\ outdated \subseteq Images
                /\ \A x \in drafts : shown.candidate[x] # "NONE"

\* A request about a mark is about a candidate; when it is going to offer the target and
\* knew what that was, then it was there and had no text.
Grounded(q) ==
  /\ shown.candidate[q.of] # "NONE"
  /\ q.to \in Publication!Workable /\ q.was \in Publication!TargetRows =>
       q.was.present = "PRESENT" /\ q.was.empty

AskedRight == \A w \in Txs : asked[w].open => Grounded(asked[w])

CatalogInv == CatalogTypes /\ AskedRight /\ Right(shown, outdated, overwritten)

\* Requests that are made, over or as they were stay right while no candidate goes away.
LEMMA AskedKept ==
  ASSUME CatalogInv, shown' \in Publication!Catalogs,
         \A y \in Publication!Targets :
           shown'.candidate[y] = "NONE" => shown.candidate[y] = "NONE",
         asked' \in [Txs -> Publication!Requests \cup {Publication!NoRequest}],
         \A v \in Txs : asked'[v].open => asked'[v] = asked[v] \/ Grounded(asked'[v])
  PROVE  AskedRight'
<1>1. SUFFICES ASSUME NEW v \in Txs, asked'[v].open PROVE Grounded(asked[v])'
  BY DEF AskedRight
<1>2. asked'[v] \in Publication!Requests
  BY <1>1 DEF Publication!NoRequest
<1>3. Grounded(asked'[v])
  BY <1>1 DEF CatalogInv, AskedRight
<1>4. asked'[v].of \in Publication!Targets
  BY <1>2 DEF Publication!Requests
<1>5. QED
  BY <1>3, <1>4 DEF Grounded

\* The slices of a transaction leave outdated only the images of which another has
\* replaced usages since it looked, and heal those that were.
LEMMA SlicesAreRight ==
  ASSUME NEW c, NEW t \in TxRows, t.open, Right(shown, outdated, overwritten),
         Sliced(c, shown, t, t.content.owners)
  PROVE  /\ Right(c, (outdated \ Publication!TouchedBy(t)) \cup Publication!Outdated(t),
                  overwritten \ Publication!TouchedBy(t))
         /\ \A x \in Publication!Targets : c.candidate[x] = "NONE" => shown.candidate[x] = "NONE"
         /\ Publication!TouchedBy(t) \subseteq Images
         /\ \A x \in Covers : SameOf(c, shown, x)
<1> DEFINE owners == t.content.owners
           out == (outdated \ Publication!TouchedBy(t)) \cup Publication!Outdated(t)
<1>1. owners \subseteq Publication!Owners
  BY DEF TxRows, Publication!Contents
<1>2. ASSUME NEW x \in Publication!Targets, x \notin Publication!TouchedBy(t)
      PROVE  /\ SameOf(c, shown, x)
             /\ x \in Images => \A q \in Publication!Owners : c.usage[x][q] = shown.usage[x][q]
  <2>1. \A o \in owners : x \notin Publication!Touched(t, o)
    BY <1>2 DEF Publication!TouchedBy
  <2>2. QED
    BY <2>1 DEF Sliced
<1>3. ASSUME NEW i \in Publication!TouchedBy(t)
      PROVE  /\ i \in Images /\ i \in Publication!Targets
             /\ Offered(c, i) /\ Placed(c, i) /\ c.candidate[i] # "NONE"
             /\ i \notin out =>
                  (c.target[i].present = "PRESENT" <=> Publication!UsedBy(c, i, Publication!Owners))
  <2>1. PICK o \in owners : i \in Publication!Touched(t, o)
    BY DEF Publication!TouchedBy
  <2>2. i \in Images /\ i \in Publication!Targets
    BY <1>1, <2>1, TouchedAre
  <2>3. /\ c.target[i].present =
             IF Publication!StillUsed(c, t, i) THEN "PRESENT" ELSE "NOT_FOUND"
        /\ Offered(c, i) /\ Placed(c, i)
    BY <2>1 DEF Sliced
  <2>4. ASSUME i \notin out
        PROVE  Publication!StillUsed(c, t, i) <=> Publication!UsedBy(c, i, Publication!Owners)
    <3>1. \A q \in Publication!Owners : Publication!View(shown, t, i, q) = shown.usage[i][q]
      BY <2>2, <2>4 DEF Publication!Outdated
    <3>2. ASSUME NEW q \in Publication!Owners
          PROVE  Publication!View(c, t, i, q) = c.usage[i][q]
      <4>1. CASE <<i, q>> \in Publication!Rows(t)
        BY <4>1 DEF Publication!View
      <4>2. CASE <<i, q>> \notin Publication!Rows(t)
        <5>1. q \notin owners \/ i \notin Publication!Touched(t, q)
          BY <4>2 DEF Publication!Rows
        <5>2. c.usage[i][q] = shown.usage[i][q]
          BY <2>2, <5>1 DEF Sliced
        <5>3. QED
          BY <3>1, <4>2, <5>2 DEF Publication!View
      <4>3. QED
        BY <4>1, <4>2
    <3>3. QED
      BY <3>2 DEF Publication!StillUsed, Publication!UsedBy
  <2>5. c.candidate[i] # "NONE"
    BY <2>3 DEF Placed
  <2>6. QED
    BY <2>2, <2>3, <2>4, <2>5
<1>4. ASSUME NEW x \in Publication!Targets, x \notin Publication!TouchedBy(t)
      PROVE  /\ Placed(c, x)
             /\ x \notin overwritten => Offered(c, x)
             /\ x \notin out /\ x \in Images =>
                  (c.target[x].present = "PRESENT" <=> Publication!UsedBy(c, x, Publication!Owners))
  <2>1. x \notin out => x \notin outdated
    BY <1>4
  <2>2. /\ Placed(shown, x)
        /\ x \notin overwritten => Offered(shown, x)
        /\ x \notin outdated /\ x \in Images =>
             (shown.target[x].present = "PRESENT"
              <=> Publication!UsedBy(shown, x, Publication!Owners))
    BY DEF Right
  <2>3. c.target[x] = shown.target[x]
    BY <1>2, <1>4 DEF SameOf
  <2>4. /\ x \in Images => (Publication!UsedBy(c, x, Publication!Owners)
                            <=> Publication!UsedBy(shown, x, Publication!Owners))
        /\ Offered(shown, x) => Offered(c, x)
        /\ Placed(shown, x) => Placed(c, x)
    BY <1>2, <1>4, SameIsRight
  <2>5. QED
    BY <2>1, <2>2, <2>3, <2>4
<1>5. Images \subseteq Publication!Targets
  BY DEF Publication!Targets
<1> HIDE DEF out
<1>6. QED
  <2>1. Right(c, out, overwritten \ Publication!TouchedBy(t))
    BY <1>3, <1>4, <1>5 DEF Right
  <2>2. \A x \in Publication!Targets : c.candidate[x] = "NONE" => shown.candidate[x] = "NONE"
    BY <1>2, <1>3 DEF SameOf
  <2>3. Publication!TouchedBy(t) \subseteq Images
    BY <1>3
  <2>4. \A x \in Covers : SameOf(c, shown, x)
    BY <1>2, <2>3, ResultsAssumption DEF Publication!Targets
  <2>5. QED
    BY <2>1, <2>2, <2>3, <2>4 DEF out

\* Bringing covers up to date heals them and leaves the rest as right as it was.
LEMMA CoversAreRight ==
  ASSUME NEW c \in Publication!Catalogs, NEW S \in SUBSET Covers, NEW r, Converged(c, S, r)
  PROVE  /\ r \in Publication!Catalogs
         /\ \A out, over : Right(c, out, over) => Right(r, out, over \ S)
         /\ \A x \in Publication!Targets : r.candidate[x] = "NONE" => c.candidate[x] = "NONE"
<1>1. /\ r \in Publication!Catalogs /\ r.usage = c.usage
      /\ \A x \in Publication!Targets \ S : SameOf(r, c, x)
      /\ \A x \in S : Offered(r, x) /\ Placed(r, x) /\ r.target[x].present # "NONE"
  <2>1. c \in Publication!Catalogs /\ S \in SUBSET Covers /\ Converged(c, S, r)
    OBVIOUS
  <2>2. QED
    BY ONLY <2>1, CoversConverge
<1>2. Images \subseteq Publication!Targets \ S
  BY ResultsAssumption DEF Publication!Targets
<1>3. ASSUME NEW out, NEW over, Right(c, out, over) PROVE Right(r, out, over \ S)
  <2>1. ASSUME NEW x \in Publication!Targets \ S
        PROVE  /\ Placed(r, x)
               /\ x \notin over => Offered(r, x)
               /\ x \in Images \ out =>
                    (r.target[x].present = "PRESENT" <=>
                     Publication!UsedBy(r, x, Publication!Owners))
    <3>1. /\ x \in Images => (Publication!UsedBy(r, x, Publication!Owners)
                              <=> Publication!UsedBy(c, x, Publication!Owners))
          /\ Offered(c, x) => Offered(r, x)
          /\ Placed(c, x) => Placed(r, x)
      BY <1>1, SameIsRight
    <3>2. r.target[x] = c.target[x]
      BY <1>1 DEF SameOf
    <3>3. QED
      BY <1>3, <3>1, <3>2 DEF Right
  <2>2. QED
    BY <1>1, <1>2, <2>1 DEF Right
<1>4. \A x \in Publication!Targets : r.candidate[x] = "NONE" => c.candidate[x] = "NONE"
  BY <1>1 DEF SameOf, Placed
<1>5. QED
  BY <1>1, <1>3, <1>4

\* Work on one target, which changes neither its presence nor anything else
LEMMA OneIsRight ==
  ASSUME NEW c, NEW out, NEW over, Right(c, out, over), NEW r, NEW x \in Publication!Targets,
         NEW except, over \subseteq except,
         r.usage = c.usage, r.groups = c.groups,
         \A y \in Publication!Targets \ {x} : SameOf(r, c, y),
         r.target[x].present = c.target[x].present,
         r.candidate[x] = "NONE" <=> c.candidate[x] = "NONE",
         x \notin except => Offered(r, x)
  PROVE  Right(r, out, except)
<1>1. \A y \in Publication!Targets : r.target[y].present = c.target[y].present
  BY DEF SameOf
<1>2. \A y \in Publication!Targets : Publication!NextGroups(r, y) = Publication!NextGroups(c, y)
  BY <1>1 DEF Publication!NextGroups, Publication!UsedBy
<1>3. \A y \in Publication!Targets : Placed(r, y)
  BY <1>1, <1>2 DEF Right, Placed, SameOf
<1>4. \A y \in Publication!Targets \ except : Offered(r, y)
  BY DEF Right, Offered, SameOf
<1>5. \A i \in Images \ out :
        r.target[i].present = "PRESENT" <=> Publication!UsedBy(r, i, Publication!Owners)
  BY <1>1 DEF Right, Publication!UsedBy, Publication!Targets
<1>6. QED
  BY <1>3, <1>4, <1>5 DEF Right

\* What is done to a target: its candidate is set, or that it has a text, or both.
WorkedOn(c, x, s, r) ==
  \/ r = [c EXCEPT !.candidate[x] = s]
  \/ r = [c EXCEPT !.candidate[x] = s, !.target[x].empty = FALSE]
  \/ r = [c EXCEPT !.target[x].empty = FALSE] /\ s = c.candidate[x]

LEMMA StatusSet ==
  ASSUME NEW c \in Publication!Catalogs, NEW x \in Publication!Targets,
         NEW s \in Publication!CandidateStatuses, NEW r, WorkedOn(c, x, s, r)
  PROVE  /\ r \in Publication!Catalogs /\ r.usage = c.usage /\ r.groups = c.groups
         /\ r.candidate[x] = s
         /\ r.target[x].present = c.target[x].present
         /\ \A y \in Publication!Targets \ {x} : SameOf(r, c, y)
<1>1. PICK T \in [Publication!Targets -> Publication!TargetRows],
           U \in [Images -> [Publication!Owners -> Publication!Presence]],
           C \in [Publication!Targets -> Publication!CandidateStatuses],
           G \in [Publication!Targets -> SUBSET Publication!Groups] :
        c = [target |-> T, usage |-> U, candidate |-> C, groups |-> G]
  BY CatalogIs
<1> DEFINE K == [C EXCEPT ![x] = s]
           R == [T EXCEPT ![x] = [T[x] EXCEPT !.empty = FALSE]]
<1>2. K \in [Publication!Targets -> Publication!CandidateStatuses]
      /\ K[x] = s /\ \A y \in Publication!Targets \ {x} : K[y] = C[y]
  OBVIOUS
<1>3. /\ R \in [Publication!Targets -> Publication!TargetRows]
      /\ R[x].present = T[x].present
      /\ \A y \in Publication!Targets \ {x} : R[y] = T[y]
  <2>1. T[x] \in Publication!TargetRows
    OBVIOUS
  <2>2. /\ [T[x] EXCEPT !.empty = FALSE] \in Publication!TargetRows
        /\ [T[x] EXCEPT !.empty = FALSE].present = T[x].present
    BY <2>1 DEF Publication!TargetRows
  <2> DEFINE e == [T[x] EXCEPT !.empty = FALSE]
  <2> HIDE DEF e
  <2>3. e \in Publication!TargetRows /\ e.present = T[x].present
    BY <2>2 DEF e
  <2>4. R = [T EXCEPT ![x] = e]
    BY DEF e
  <2> HIDE DEF R
  <2>5. QED
    BY <2>3, <2>4
<1>4. \/ r = [target |-> T, usage |-> U, candidate |-> K, groups |-> G]
      \/ r = [target |-> R, usage |-> U, candidate |-> K, groups |-> G]
      \/ r = [target |-> R, usage |-> U, candidate |-> C, groups |-> G] /\ s = C[x]
  <2>1. CASE r = [c EXCEPT !.candidate[x] = s]
    BY <1>1, <2>1
  <2>2. CASE r = [c EXCEPT !.candidate[x] = s, !.target[x].empty = FALSE]
    BY <1>1, <2>2
  <2>3. CASE r = [c EXCEPT !.target[x].empty = FALSE] /\ s = c.candidate[x]
    BY <1>1, <2>3
  <2>4. QED
    BY <2>1, <2>2, <2>3 DEF WorkedOn
<1> HIDE DEF K, R
<1>5. QED
  BY <1>1, <1>2, <1>3, <1>4 DEF Publication!Catalogs, SameOf

-----------------------------------------------------------------------------
LEMMA BeginKeeps ==
  ASSUME CatalogInv, NEW w \in Txs, NEW content \in Publication!Contents,
         Publication!Begin(w, content)
  PROVE  CatalogInv'
<1>1. PICK t : t = Publication!Opened(content, shown.usage) /\ tx' = [tx EXCEPT ![w] = t]
  BY DEF Publication!Begin
<1>2. shown.usage \in [Images -> [Publication!Owners -> Publication!Presence]]
  BY DEF CatalogInv, CatalogTypes, Publication!Catalogs
<1>3. t \in TxRows
  BY <1>1, <1>2 DEF Publication!Opened, TxRows
<1>4. tx' \in [Txs -> {Publication!Idle} \cup TxRows]
  BY <1>1, <1>3 DEF CatalogInv, CatalogTypes
<1>5. /\ shown' = shown /\ outdated' = outdated /\ overwritten' = overwritten
      /\ drafts' = drafts /\ marks' = marks /\ skipped' = skipped /\ asked' = asked
  BY DEF Publication!Begin, Publication!work, Publication!stale
<1>6. QED
  BY <1>4, <1>5 DEF CatalogInv, CatalogTypes, AskedRight, Grounded

LEMMA BeginsKeep ==
  ASSUME CatalogInv, NEW w \in Txs, Publication!BeginProduct(w) \/ Publication!BeginPublish(w)
  PROVE  CatalogInv'
<1>1. CASE Publication!BeginProduct(w)
  <2>1. PICK p \in Products, media \in SUBSET Images : \E filled \in SUBSET media :
          Publication!Begin(w, [job |-> p, owners |-> {p},
            media |-> [o \in Publication!Owners |-> IF o = p THEN media ELSE {}],
            covers |-> {}, allCovers |-> FALSE, filled |-> filled])
    BY <1>1 DEF Publication!BeginProduct
  <2>2. PICK filled \in SUBSET media :
          Publication!Begin(w, [job |-> p, owners |-> {p},
            media |-> [o \in Publication!Owners |-> IF o = p THEN media ELSE {}],
            covers |-> {}, allCovers |-> FALSE, filled |-> filled])
    BY <2>1
  <2>3. [job |-> p, owners |-> {p},
         media |-> [o \in Publication!Owners |-> IF o = p THEN media ELSE {}],
         covers |-> {}, allCovers |-> FALSE, filled |-> filled] \in Publication!Contents
    BY DEF Publication!Contents, Publication!Owners, Publication!Targets
  <2>4. QED
    BY <2>2, <2>3, BeginKeeps
<1>2. CASE Publication!BeginPublish(w)
  <2>1. PICK media \in [Publication!Owners -> SUBSET Images], allCovers \in BOOLEAN :
          \E covers \in SUBSET (IF allCovers THEN Covers ELSE {}) :
          \E filled \in SUBSET ((UNION {media[o] : o \in Publication!Owners}) \cup covers) :
            Publication!Begin(w, [job |-> Library,
              owners |-> {o \in Publication!Owners : media[o] # {}}, media |-> media,
              covers |-> covers, allCovers |-> allCovers, filled |-> filled])
    BY <1>2 DEF Publication!BeginPublish
  <2>2. PICK covers \in SUBSET (IF allCovers THEN Covers ELSE {}) :
          \E filled \in SUBSET ((UNION {media[o] : o \in Publication!Owners}) \cup covers) :
            Publication!Begin(w, [job |-> Library,
              owners |-> {o \in Publication!Owners : media[o] # {}}, media |-> media,
              covers |-> covers, allCovers |-> allCovers, filled |-> filled])
    BY <2>1
  <2>3. PICK filled \in SUBSET ((UNION {media[o] : o \in Publication!Owners}) \cup covers) :
          Publication!Begin(w, [job |-> Library,
            owners |-> {o \in Publication!Owners : media[o] # {}}, media |-> media,
            covers |-> covers, allCovers |-> allCovers, filled |-> filled])
    BY <2>2
  <2>4. UNION {media[o] : o \in Publication!Owners} \subseteq Images /\ covers \subseteq Covers
    OBVIOUS
  <2>5. [job |-> Library, owners |-> {o \in Publication!Owners : media[o] # {}}, media |-> media,
         covers |-> covers, allCovers |-> allCovers, filled |-> filled] \in Publication!Contents
    <3>1. filled \subseteq Publication!Targets
      <4>1. filled \subseteq (UNION {media[o] : o \in Publication!Owners}) \cup covers
        BY <2>3, Zenon
      <4>2. QED
        BY <2>4, <4>1, Zenon DEF Publication!Targets
    <3>2. covers \in SUBSET Covers /\ Library \in Publication!Owners
      BY <2>4 DEF Publication!Owners
    <3>3. QED
      BY <3>1, <3>2 DEF Publication!Contents
  <2>6. QED
    BY <2>3, <2>5, BeginKeeps
<1>3. QED
  BY <1>1, <1>2

LEMMA CommitKeeps ==
  ASSUME CatalogInv, NEW w \in Txs, Publication!Commit(w)
  PROVE  CatalogInv'
<1> DEFINE t == tx[w]
           over == overwritten \ Publication!TouchedBy(t)
<1>1. /\ t \in TxRows /\ t.open /\ shown \in Publication!Catalogs
      /\ Right(shown, outdated, overwritten)
  BY DEF CatalogInv, CatalogTypes, Publication!Commit, Publication!Idle
<1>2. PICK order \in Publication!Orders(t.content.owners), articles \in SUBSET Covers :
        shown' = Publication!PublishCovers(Publication!ConvergeAll(shown, t, order), t.content,
                                           articles)
  BY DEF Publication!Commit
<1> DEFINE c == Publication!ConvergeAll(shown, t, order)
           S == Publication!CoversOf(c, t.content, articles)
<1>3. /\ outdated' = (outdated \ Publication!TouchedBy(t)) \cup Publication!Outdated(t)
      /\ overwritten' = over \ Publication!CoversOf(shown, t.content, {})
  BY DEF Publication!Commit
<1>4. tx' \in [Txs -> {Publication!Idle} \cup TxRows]
  BY DEF CatalogInv, CatalogTypes, Publication!Commit
<1> HIDE DEF t
<1>5. /\ c \in Publication!Catalogs /\ Right(c, outdated', over)
      /\ \A x \in Publication!Targets : c.candidate[x] = "NONE" => shown.candidate[x] = "NONE"
      /\ Publication!TouchedBy(t) \subseteq Images
      /\ \A x \in Covers : SameOf(c, shown, x)
  <2>1. Sliced(c, shown, t, t.content.owners)
    BY <1>1, AllSlices
  <2>2. QED
    BY <1>1, <1>3, <2>1, SlicesAreRight DEF Sliced
<1>6. /\ S \in SUBSET Covers /\ Publication!CoversOf(shown, t.content, {}) \subseteq S
      /\ Converged(c, S, shown')
  <2> HIDE DEF c
  <2>1. \A x \in Covers : c.target[x] = shown.target[x]
    BY <1>5 DEF SameOf
  <2>2. t.content.covers \subseteq Covers
    BY <1>1 DEF TxRows, Publication!Contents
  <2>3. S \in SUBSET Covers /\ Publication!CoversOf(shown, t.content, {}) \subseteq S
    BY <2>1, <2>2 DEF Publication!CoversOf
  <2>4. QED
    BY <1>2, <2>3 DEF Publication!PublishCovers, Converged, c
<1> HIDE DEF c, S, over
<1>7. /\ shown' \in Publication!Catalogs /\ Right(shown', outdated', over \ S)
      /\ \A x \in Publication!Targets : shown'.candidate[x] = "NONE" => c.candidate[x] = "NONE"
  <2>1. c \in Publication!Catalogs /\ Right(c, outdated', over)
    BY <1>5
  <2>2. /\ shown' \in Publication!Catalogs
        /\ \A out, any : Right(c, out, any) => Right(shown', out, any \ S)
        /\ \A x \in Publication!Targets : shown'.candidate[x] = "NONE" => c.candidate[x] = "NONE"
    BY <1>6, <2>1, CoversAreRight
  <2>3. QED
    BY <2>1, <2>2, Zenon
<1>8. Right(shown', outdated', overwritten')
  BY <1>3, <1>6, <1>7 DEF Right
<1>9. outdated' \subseteq Images /\ overwritten' \in SUBSET Publication!Targets
  <2>1. Publication!Outdated(t) \subseteq Publication!TouchedBy(t)
    BY DEF Publication!Outdated
  <2>2. outdated \subseteq Images /\ overwritten \subseteq Publication!Targets
    BY DEF CatalogInv, CatalogTypes
  <2>3. QED
    BY <1>3, <1>5, <2>1, <2>2 DEF over
<1>10. drafts' = drafts /\ marks' = marks /\ skipped' = skipped /\ asked' = asked
  BY DEF Publication!Commit, Publication!work
<1>11. \A x \in Publication!Targets : shown'.candidate[x] = "NONE" => shown.candidate[x] = "NONE"
  BY <1>5, <1>7
<1>12. /\ asked' \in [Txs -> Publication!Requests \cup {Publication!NoRequest}]
       /\ \A v \in Txs : asked'[v] = asked[v]
  BY <1>10 DEF CatalogInv, CatalogTypes
<1>13. AskedRight'
  BY <1>7, <1>11, <1>12, AskedKept
<1>14. QED
  BY <1>4, <1>7, <1>8, <1>9, <1>10, <1>11, <1>13 DEF CatalogInv, CatalogTypes

LEMMA ConvergeCollectionKeeps ==
  ASSUME CatalogInv, NEW x \in Covers, Publication!ConvergeCollection(x)
  PROVE  CatalogInv'
<1>1. Converged(shown, {x}, shown')
  BY DEF Publication!ConvergeCollection, Converged
<1>2. /\ outdated' = outdated /\ overwritten' = overwritten \ {x} /\ tx' = tx
      /\ drafts' = drafts /\ marks' = marks /\ skipped' = skipped /\ asked' = asked
  BY DEF Publication!ConvergeCollection, Publication!work
<1>3. /\ shown' \in Publication!Catalogs /\ Right(shown', outdated', overwritten')
      /\ \A y \in Publication!Targets : shown'.candidate[y] = "NONE" => shown.candidate[y] = "NONE"
  <2>1. /\ shown \in Publication!Catalogs /\ Right(shown, outdated, overwritten)
        /\ {x} \in SUBSET Covers
    BY DEF CatalogInv, CatalogTypes
  <2>2. /\ shown' \in Publication!Catalogs
        /\ \A out, over : Right(shown, out, over) => Right(shown', out, over \ {x})
        /\ \A y \in Publication!Targets :
             shown'.candidate[y] = "NONE" => shown.candidate[y] = "NONE"
    BY <1>1, <2>1, CoversAreRight
  <2>3. Right(shown', outdated, overwritten \ {x})
    BY <2>1, <2>2, Zenon
  <2>4. QED
    BY <1>2, <2>2, <2>3
<1>4. AskedRight'
  <2>1. /\ asked' \in [Txs -> Publication!Requests \cup {Publication!NoRequest}]
        /\ \A v \in Txs : asked'[v] = asked[v]
    BY <1>2 DEF CatalogInv, CatalogTypes
  <2>2. QED
    BY <1>3, <2>1, AskedKept
<1>5. QED
  BY <1>2, <1>3, <1>4 DEF CatalogInv, CatalogTypes

-----------------------------------------------------------------------------
\* A step that sets the candidate of one target, and whether the target has no text
LEMMA StatusKeeps ==
  ASSUME CatalogInv, NEW x \in Publication!Targets, NEW s \in Publication!CandidateStatuses,
         \/ Publication!SetStatus(x, s) \/ Publication!SetFilled(x, s)
         \/ shown' = [shown EXCEPT !.target[x].empty = FALSE] /\ s = shown.candidate[x],
         s = "NONE" <=> shown.candidate[x] = "NONE",
         tx' = tx, outdated' = outdated, overwritten \subseteq overwritten',
         {drafts', marks', skipped', overwritten'} \subseteq SUBSET Publication!Targets,
         asked' \in [Txs -> Publication!Requests \cup {Publication!NoRequest}],
         \A v \in Txs : asked'[v].open => asked'[v] = asked[v],
         drafts' \ {x} \subseteq drafts, x \in drafts' => s # "NONE",
         \/ s \notin Publication!Workable
         \/ x \in overwritten'
         \/ /\ Publication!SetStatus(x, s)
            /\ shown.target[x].present = "PRESENT" /\ shown.target[x].empty
  PROVE  CatalogInv'
<1>1. /\ shown' \in Publication!Catalogs
      /\ shown'.usage = shown.usage /\ shown'.groups = shown.groups
      /\ shown'.candidate[x] = s
      /\ shown'.target[x].present = shown.target[x].present
      /\ \A y \in Publication!Targets \ {x} : SameOf(shown', shown, y)
      /\ Publication!SetStatus(x, s) => shown'.target = shown.target
  <2>1. shown \in Publication!Catalogs
    BY DEF CatalogInv, CatalogTypes
  <2>2. WorkedOn(shown, x, s, shown')
    BY DEF WorkedOn, Publication!SetStatus, Publication!SetFilled
  <2>3. Publication!SetStatus(x, s) => shown'.target = shown.target
    BY <2>1 DEF Publication!SetStatus, Publication!Catalogs
  <2>4. QED
    BY <2>1, <2>2, <2>3, StatusSet
<1>2. x \notin overwritten' => Offered(shown', x)
  BY <1>1 DEF Offered
<1>3. Right(shown', outdated', overwritten')
  <2>1. Right(shown, outdated, overwritten)
    BY DEF CatalogInv
  <2>2. Right(shown', outdated, overwritten')
    BY <1>1, <1>2, <2>1, OneIsRight
  <2>3. QED
    BY <2>2
<1>4. \A y \in Publication!Targets : shown'.candidate[y] = "NONE" => shown.candidate[y] = "NONE"
  BY <1>1 DEF SameOf
<1>5. \A y \in drafts' : shown'.candidate[y] # "NONE"
  BY <1>1 DEF CatalogInv, CatalogTypes, SameOf
<1>6. AskedRight'
  BY <1>1, <1>4, AskedKept
<1>7. QED
  BY <1>1, <1>3, <1>5, <1>6 DEF CatalogInv, CatalogTypes

\* A target in a group has a candidate, and is there unless its last transaction was
\* outdated.
LEMMA ListedIsThere ==
  ASSUME CatalogInv, NEW x \in Publication!Targets, shown.groups[x] # {}
  PROVE  /\ shown.candidate[x] # "NONE"
         /\ x \notin outdated => shown.target[x].present = "PRESENT"
<1>1. Publication!NextGroups(shown, x) # {}
  BY DEF CatalogInv, Right, Placed
<1>2. CASE x \in Images
  <2>1. Publication!UsedBy(shown, x, {Library}) \/ Publication!UsedBy(shown, x, Products)
    BY <1>1, <1>2 DEF Publication!NextGroups
  <2>2. Publication!UsedBy(shown, x, Publication!Owners)
    BY <2>1 DEF Publication!UsedBy, Publication!Owners
  <2>3. x \notin outdated => shown.target[x].present = "PRESENT"
    BY <1>2, <2>2 DEF CatalogInv, Right
  <2>4. shown.target[x].present # "NONE"
    BY <1>2, <2>2 DEF CatalogInv, Right, Placed, Publication!UsedBy
  <2>5. QED
    BY <2>3, <2>4 DEF CatalogInv, Right, Placed
<1>3. CASE x \notin Images
  BY <1>1, <1>3 DEF Publication!NextGroups, CatalogInv, Right, Placed
<1>4. QED
  BY <1>2, <1>3

\* Those who work on the candidates
LEMMA WorkKeeps ==
  ASSUME CatalogInv, NEW x \in Publication!Targets,
         \/ Publication!StartGeneration(x) \/ Publication!Generate(x)
         \/ Publication!RecordFilled(x) \/ Publication!Write(x)
         \/ Publication!DraftExpires(x)
  PROVE  CatalogInv'
<1> USE DEF Publication!CandidateStatuses, Publication!Workable, Publication!Writable,
            Publication!Generating, Publication!Generatable, Publication!work,
            Publication!stale
<1>1. /\ x \notin overwritten /\ shown.candidate[x] \in Publication!Workable =>
           shown.target[x].present = "PRESENT" /\ shown.target[x].empty
      /\ shown.candidate[x] \in Publication!CandidateStatuses
      /\ x \in drafts => shown.candidate[x] # "NONE"
      /\ {drafts, marks, skipped, overwritten} \subseteq SUBSET Publication!Targets
      /\ asked \in [Txs -> Publication!Requests \cup {Publication!NoRequest}]
  BY DEF CatalogInv, CatalogTypes, Right, Offered, Publication!Catalogs
<1>2. CASE Publication!StartGeneration(x)
  BY <1>1, <1>2, StatusKeeps DEF Publication!StartGeneration
<1>3. CASE Publication!Generate(x)
  BY <1>1, <1>3, StatusKeeps DEF Publication!Generate
<1>4. CASE Publication!RecordFilled(x)
  BY <1>1, <1>4, StatusKeeps DEF Publication!RecordFilled
<1>5. CASE Publication!Write(x)
  BY <1>1, <1>5, StatusKeeps DEF Publication!Write
<1>6. CASE Publication!DraftExpires(x)
  BY <1>6 DEF Publication!DraftExpires, CatalogInv, CatalogTypes, AskedRight, Grounded
<1>7. QED
  BY <1>2, <1>3, <1>4, <1>5, <1>6

\* A request reads what is listed: what it is going to offer has no text.
LEMMA AskKeeps ==
  ASSUME CatalogInv, NEW w \in Txs, NEW x \in Publication!Targets,
         NEW to \in Publication!CandidateStatuses, Publication!Ask(w, x, to),
         to \in Publication!Workable => shown.target[x].empty
  PROVE  CatalogInv'
<1> DEFINE was == IF to \in Publication!Workable /\ x \notin outdated THEN shown.target[x]
                  ELSE Publication!Unsure
           q == [open |-> TRUE, of |-> x, to |-> to, was |-> was]
<1>1. /\ asked' = [asked EXCEPT ![w] = q]
      /\ shown.groups[x] # {}
      /\ shown' = shown /\ drafts' = drafts /\ marks' = marks /\ skipped' = skipped
      /\ tx' = tx /\ outdated' = outdated /\ overwritten' = overwritten
  BY DEF Publication!Ask, Publication!work, Publication!stale
<1>2. /\ shown.candidate[x] # "NONE"
      /\ x \notin outdated => shown.target[x].present = "PRESENT"
  BY <1>1, ListedIsThere
<1>3. was \in Publication!TargetRows \cup {Publication!Unsure}
  BY DEF CatalogInv, CatalogTypes, Publication!Catalogs
<1>4. Publication!Unsure \notin Publication!TargetRows
  BY DEF Publication!Unsure, Publication!TargetRows, Publication!Presence
<1>5. was \in Publication!TargetRows => was.present = "PRESENT" /\ was.empty
  BY <1>2, <1>4
<1> HIDE DEF was
<1>6. q \in Publication!Requests /\ Grounded(q)
  BY <1>2, <1>3, <1>5 DEF Publication!Requests, Grounded
<1> HIDE DEF q
<1>7. /\ asked' \in [Txs -> Publication!Requests \cup {Publication!NoRequest}]
      /\ \A v \in Txs : asked'[v] = asked[v] \/ Grounded(asked'[v])
  BY <1>1, <1>6 DEF CatalogInv, CatalogTypes
<1>8. AskedRight'
  BY <1>1, <1>7, AskedKept DEF CatalogInv, CatalogTypes
<1>9. QED
  BY <1>1, <1>7, <1>8 DEF CatalogInv, CatalogTypes

\* What is written for a request was right of the target that it had read, so it is right
\* of the target there is, or that is one that changed.
LEMMA DecideKeeps ==
  ASSUME CatalogInv, NEW w \in Txs, Publication!Decide(w)
  PROVE  CatalogInv'
<1> DEFINE q == asked[w]
<1>1. q.open
  BY DEF Publication!Decide
<1>2. /\ q.of \in Publication!Targets /\ q.to \in Publication!CandidateStatuses
      /\ Grounded(q)
      /\ \A v \in Txs : asked[v] \in Publication!Requests \cup {Publication!NoRequest}
  <2>1. q \in Publication!Requests
    BY <1>1 DEF CatalogInv, CatalogTypes, Publication!NoRequest
  <2>2. QED
    BY <1>1, <2>1 DEF CatalogInv, CatalogTypes, AskedRight, Publication!Requests
<1>3. /\ asked' \in [Txs -> Publication!Requests \cup {Publication!NoRequest}]
      /\ \A v \in Txs : asked'[v].open => asked'[v] = asked[v]
  <2>1. asked' = [asked EXCEPT ![w] = Publication!NoRequest]
    BY DEF Publication!Decide
  <2>2. ~Publication!NoRequest.open
    BY DEF Publication!NoRequest
  <2>3. QED
    BY <2>1, <2>2 DEF CatalogInv, CatalogTypes
<1>4. /\ tx' = tx /\ outdated' = outdated /\ drafts' = drafts /\ skipped' = skipped
      /\ marks' \in {marks \cup {q.of}, marks \ {q.of}}
      /\ overwritten' = IF q.to \in Publication!Workable /\ shown.target[q.of] # q.was
                        THEN overwritten \cup {q.of} ELSE overwritten
      /\ IF q.to = "NONE" THEN shown' = shown ELSE Publication!SetStatus(q.of, q.to)
  BY DEF Publication!Decide
<1>5. {drafts, marks, skipped, overwritten} \subseteq SUBSET Publication!Targets
      /\ \A y \in Publication!Targets : shown.target[y] \in Publication!TargetRows
  BY DEF CatalogInv, CatalogTypes, Publication!Catalogs
<1> HIDE DEF q
<1>6. {drafts', marks', skipped', overwritten'} \subseteq SUBSET Publication!Targets
  BY <1>2, <1>4, <1>5
<1>7. CASE q.to = "NONE"
  <2>1. shown' = shown /\ overwritten' = overwritten
    BY <1>4, <1>7 DEF Publication!Workable, Publication!Writable, Publication!Generating,
       Publication!Generatable
  <2>2. AskedRight'
    BY <1>3, <2>1, AskedKept DEF CatalogInv, CatalogTypes
  <2>3. QED
    BY <1>3, <1>4, <1>6, <2>1, <2>2 DEF CatalogInv, CatalogTypes
<1>8. CASE q.to # "NONE"
  <2>1. Publication!SetStatus(q.of, q.to)
    BY <1>4, <1>8
  <2>2. shown.candidate[q.of] # "NONE"
    BY <1>2 DEF Grounded
  <2>3. \/ q.to \notin Publication!Workable
        \/ q.of \in overwritten'
        \/ shown.target[q.of].present = "PRESENT" /\ shown.target[q.of].empty
    BY <1>2, <1>4, <1>5 DEF Grounded
  <2>4. overwritten \subseteq overwritten' /\ drafts' \ {q.of} \subseteq drafts
    BY <1>4
  <2>5. QED
    BY <1>2, <1>3, <1>4, <1>6, <1>8, <2>1, <2>2, <2>3, <2>4, StatusKeeps
<1>9. QED
  BY <1>7, <1>8

LEMMA MarksKeep ==
  ASSUME CatalogInv, NEW w \in Txs, NEW x \in Publication!Targets,
         Publication!Mark(w, x) \/ Publication!Unmark(w, x)
  PROVE  CatalogInv'
<1> USE DEF Publication!CandidateStatuses, Publication!Workable, Publication!Writable,
            Publication!Generating, Publication!Generatable
<1>1. CASE Publication!Mark(w, x)
  <2>1. Publication!Ask(w, x, "DECORATIVE_SKIPPED")
    BY <1>1 DEF Publication!Mark
  <2>2. QED
    BY <2>1, AskKeeps
<1>2. CASE Publication!Unmark(w, x)
  <2>1. PICK to : /\ Publication!Ask(w, x, to)
                  /\ to \in {"NONE", "RESOLVED", "GENERATED", "GENERATION_FAILED_RETRYABLE",
                             "MISSING"}
                  /\ to \in {"NONE", "RESOLVED"} \/ shown.target[x].empty
    BY <1>2 DEF Publication!Unmark
  <2>2. QED
    BY <2>1, AskKeeps
<1>3. QED
  BY <1>1, <1>2

LEMMA CatalogNext ==
  ASSUME CatalogInv, [InboundNext]_inboundVars
  PROVE  CatalogInv'
<1>1. CASE Publication!Next
  <2>1. ASSUME NEW w \in Txs, \/ Publication!BeginProduct(w) \/ Publication!BeginPublish(w)
                              \/ Publication!Commit(w) \/ Publication!Abort(w)
        PROVE  CatalogInv'
    <3>1. CASE Publication!Abort(w)
      BY <3>1 DEF Publication!Abort, Publication!work, Publication!stale, CatalogInv,
         CatalogTypes, AskedRight, Grounded
    <3>2. QED
      BY <2>1, <3>1, BeginsKeep, CommitKeeps
  <2>2. QED
    BY <1>1, <2>1, ConvergeCollectionKeeps, WorkKeeps, DecideKeeps, MarksKeep
       DEF Publication!Next
<1>2. CASE UNCHANGED catalogVars
  BY <1>2 DEF catalogVars, CatalogInv, CatalogTypes, AskedRight, Grounded
<1>3. QED
  BY <1>1, <1>2 DEF InboundNext, inboundVars

LEMMA CatalogStart ==
  ASSUME Publication!Init
  PROVE  CatalogInv
<1>1. /\ \A x \in Publication!Targets :
           /\ shown.target[x] = [present |-> "NONE", empty |-> TRUE]
           /\ shown.candidate[x] = "NONE" /\ shown.groups[x] = {}
      /\ \A i \in Images, o \in Publication!Owners : shown.usage[i][o] = "NONE"
  BY DEF Publication!Init
<1>2. CatalogTypes
  BY <1>1 DEF Publication!Init, CatalogTypes, Publication!Catalogs, Publication!TargetRows,
     Publication!Presence, Publication!CandidateStatuses, Publication!Groups
<1>3. \A i \in Images, S \in SUBSET Publication!Owners : ~Publication!UsedBy(shown, i, S)
  BY <1>1 DEF Publication!UsedBy
<1>4. \A x \in Publication!Targets : Placed(shown, x)
  <2>1. ASSUME NEW x \in Images PROVE Publication!NextGroups(shown, x) = {}
    <3>1. {Library} \in SUBSET Publication!Owners /\ Products \in SUBSET Publication!Owners
      BY DEF Publication!Owners
    <3>2. ~Publication!UsedBy(shown, x, {Library}) /\ ~Publication!UsedBy(shown, x, Products)
      BY <1>3, <3>1
    <3>3. QED
      BY <3>2 DEF Publication!NextGroups
  <2>2. ASSUME NEW x \in Publication!Targets \ Images PROVE Publication!NextGroups(shown, x) = {}
    BY <1>1, <2>2 DEF Publication!NextGroups
  <2>3. \A x \in Publication!Targets :
          /\ shown.groups[x] = Publication!NextGroups(shown, x)
          /\ shown.candidate[x] = "NONE" /\ shown.target[x].present = "NONE"
    <3>1. \A x \in Publication!Targets : shown.groups[x] = Publication!NextGroups(shown, x)
      BY <1>1, <2>1, <2>2
    <3>2. \A x \in Publication!Targets : shown.target[x].present = "NONE"
      BY <1>1
    <3>3. QED
      BY <1>1, <3>1, <3>2
  <2>4. QED
    BY <1>1, <2>3 DEF Placed
<1>5. \A x \in Publication!Targets : Offered(shown, x)
  BY <1>1 DEF Offered, Publication!Workable, Publication!Writable, Publication!Generating,
     Publication!Generatable
<1>6. \A i \in Images : shown.target[i].present # "PRESENT"
  BY <1>1 DEF Publication!Targets
<1>7. AskedRight
  BY DEF Publication!Init, AskedRight, Publication!NoRequest
<1>8. QED
  BY <1>2, <1>3, <1>4, <1>5, <1>6, <1>7 DEF CatalogInv, Right

\* The invariant of the published catalog, over transactions and requests about marks
\* that read and then write
THEOREM CatalogInvariant == InboundSpec => []CatalogInv
<1>1. InboundInit => CatalogInv
  BY CatalogStart DEF InboundInit
<1>2. CatalogInv /\ [InboundNext]_inboundVars => CatalogInv'
  BY CatalogNext
<1>3. QED
  BY <1>1, <1>2, PTL DEF InboundSpec

\* The tables hold what their columns admit, and a target has a candidate from the
\* transaction on that publishes it.
THEOREM PublicationTypes == InboundSpec => []Publication!TypeOK
<1>1. CatalogInv => Publication!TypeOK
  <2>1. SUFFICES ASSUME CatalogInv PROVE Publication!TypeOK
    OBVIOUS
  <2>2. \A w \in Txs : tx[w].open => tx[w].content \in Publication!Contents
    <3>1. SUFFICES ASSUME NEW w \in Txs, tx[w].open PROVE tx[w].content \in Publication!Contents
      OBVIOUS
    <3>2. tx[w] = Publication!Idle \/ tx[w] \in TxRows
      BY <2>1 DEF CatalogInv, CatalogTypes
    <3>3. tx[w] # Publication!Idle
      BY <3>1 DEF Publication!Idle
    <3>4. QED
      BY <3>2, <3>3 DEF TxRows
  <2>3. QED
    BY <2>1, <2>2 DEF CatalogInv, CatalogTypes, Right, Placed, Publication!TypeOK
<1>2. QED
  BY <1>1, CatalogInvariant, PTL

\* The usages decide whether an image exists (publish.service.ts, productConvergence.ts):
\* whatever scans and jobs publish, sweep and converge at the same time, an image is
\* PRESENT exactly while a usage of it is, unless the transaction that last decided about
\* it worked with usages that another one had replaced since it looked.
THEOREM UsagesDecide == InboundSpec => []PresentIffUsed
<1>1. CatalogInv => PresentIffUsed
  BY DEF CatalogInv, Right, PresentIffUsed, Publication!PresentIffUsed
<1>2. QED
  BY <1>1, CatalogInvariant, PTL

\* Nothing that is gone or has an alt text is offered for generation or writeback
\* (upsertCandidateRecords, the jobs, the decorative marks), but for a target that was
\* overwritten: an unmark decided from a reading of it that is no longer so, or was in
\* doubt, or a generation job recorded it as filled when its candidate had moved on.
THEOREM OfferedIsThere == InboundSpec => []WorkableIsThere
<1>1. CatalogInv => WorkableIsThere
  BY DEF CatalogInv, Right, Offered, WorkableIsThere, Publication!WorkableIsThere
<1>2. QED
  BY <1>1, CatalogInvariant, PTL

\* The review list shows an image under exactly those who use it
\* (rebuildTargetProjections), without exception.
THEOREM ListFollowsUsages == InboundSpec => []GroupsFollowUsages
<1>1. CatalogInv => GroupsFollowUsages
  BY DEF CatalogInv, Right, Placed, GroupsFollowUsages, Publication!GroupsFollowUsages,
     Publication!Targets
<1>2. QED
  BY <1>1, CatalogInvariant, PTL
=============================================================================
