--------------------------- MODULE BillingProofs ---------------------------
(***************************************************************************)
(* Proofs about Billing, for any subscriptions, packs, requests and        *)
(* faults: the shop's plan agrees with its active rows, and what is        *)
(* recorded as paid is what was credited.                                  *)
(*                                                                         *)
(* As long as no two writers have met and none has died, at most one is at *)
(* work, so what it has read of the rows is still so.  A row that was      *)
(* cancelled is taken up again only by a writer that finds no plan,        *)
(* because Shopify never revives a subscription and has one at a time: of  *)
(* the rows beside the plan's none is active in Shopify.                   *)
(***************************************************************************)
EXTENDS Billing, TLAPS

Active == {s \in Subs : row[s] = "ACTIVE"}

\* The plan, the incremental scan and the active rows agree.
Agree == Active = {plan} \ {None} /\ (incremental <=> plan # None)

\* A row of a subscription that Shopify never had does not exist, and there is always
\* an active row.
RowsInv ==
  /\ \A r, s \in Subs : shopify[r] = "ACTIVE" /\ shopify[s] = "ACTIVE" => r = s
  /\ \A s \in Subs : row[s] # "NONE" => shopify[s] # "NONE"
  /\ \A k \in Calls : call[k].kind \in Syncs /\ call[k].step \in SyncSteps =>
       shopify[call[k].of] # "NONE"
  /\ freeRows > 0 \/ Active # {}

\* Of the subscriptions that have rows no other is active in Shopify.
Only(s) == \A r \in Subs \ {s} : row[r] # "NONE" => shopify[r] # "ACTIVE"

\* What the only writer knows at its step
WriterInv(k) ==
  /\ call[k].kind \in Syncs /\ call[k].step \in SyncSteps => Only(call[k].of)
  /\ call[k].kind \in Syncs /\ call[k].step \in {"lookup", "update"} =>
       (row[call[k].of] = "CANCELED" => plan = None)
  /\ At(k, Syncs, "update") => row[call[k].of] = "CANCELED"
  /\ At(k, Syncs, "shop") => Active = {call[k].of}
  /\ call[k].kind \in Syncs /\ call[k].step \in ApplySteps => plan # None

Calm == faults = 0 /\ ~overlapped

PlanInv ==
  Calm =>
    /\ \A j, k \in Calls : Writing(j) /\ Writing(k) => j = k
    /\ (\A k \in Calls : ~At(k, Syncs, "shop")) => Agree
    /\ plan # None => Only(plan)
    /\ \A k \in Calls : WriterInv(k)

First == <<"WELCOME", "FIRST_PAID">>
Pack(p) == <<"OVERAGE_PACK", p>>

\* A purchase under way is PENDING and its own request's; only what is external is
\* fulfilled, and what is PURCHASED stays so.
PurchaseInv ==
  /\ \A k \in Calls : call[k].kind = "buy" =>
       purchase[call[k].of].status = "PENDING" /\ ~purchase[call[k].of].external
  /\ \A j, k \in Calls :
       call[j].kind = "buy" /\ call[k].kind = "buy" /\ call[j].of = call[k].of => j = k
  /\ \A k \in Calls : call[k].kind = "fulfil" => purchase[call[k].of].external
  /\ \A k \in Calls : At(k, {"fulfil"}, "credit") => purchase[call[k].of].status = "PURCHASED"
  /\ \A p \in Packs : /\ purchase[p].status = "PURCHASED" => purchase[p].external
                      /\ purchase[p].external => purchase[p].status # "NONE"

CreditInv ==
  /\ \A p \in Packs :
       /\ Pack(p) \in buckets => purchase[p].status = "PURCHASED"
       /\ purchase[p].status = "PURCHASED" /\ faults = 0 =>
            Pack(p) \in buckets \/ \E k \in Calls : At(k, {"fulfil"}, "credit") /\ call[k].of = p
  /\ bonus => First \in buckets
  /\ \A k \in Calls : At(k, {"scheduled"}, "flag") => First \in buckets

IInv == TypeOK /\ RowsInv /\ PlanInv /\ PurchaseInv /\ CreditInv

-----------------------------------------------------------------------------
\* The rows of calls

Legal(kind, step, of) ==
  \/ kind \in Syncs /\ step = "query" /\ of = None
  \/ kind \in Syncs /\ step \in SyncSteps /\ of \in Subs
  \/ kind = "scheduled" /\ step \in ApplySteps /\ of \in Subs
  \/ kind = "downgrade" /\ step \in {"query", "local"} /\ of = None
  \/ kind = "downgrade" /\ step \in {"cancel", "local"} /\ of \in Subs
  \/ kind = "bootstrap" /\ step \in {"find", "insert"} /\ of = None
  \/ kind = "buy" /\ step \in {"offer", "record"} /\ of \in Packs
  \/ kind = "fulfil" /\ step \in {"check", "mark", "credit"} /\ of \in Packs

LEMMA LegalRow ==
  ASSUME NEW kind, NEW step, NEW of, Legal(kind, step, of)
  PROVE  [kind |-> kind, step |-> step, of |-> of] \in CallRows
BY DEF Legal, CallRows

LEMMA RowLegal ==
  ASSUME NEW c \in CallRows
  PROVE  /\ c = [kind |-> c.kind, step |-> c.step, of |-> c.of]
         /\ c = Idle \/ Legal(c.kind, c.step, c.of)
BY DEF Legal, CallRows, Idle

\* What becomes of the calls in a step of k: it goes on, takes something up, or ends.
Others(k) == /\ call' \in [Calls -> CallRows]
             /\ \A j \in Calls \ {k} : call'[j] = call[j]

Takes(k, s, of) ==
  Others(k) /\ call'[k].kind = call[k].kind /\ call'[k].step = s /\ call'[k].of = of

Stops(k) == Others(k) /\ call'[k] = Idle

Starts(k, kind, s, of) ==
  Others(k) /\ call'[k].kind = kind /\ call'[k].step = s /\ call'[k].of = of

LEMMA Stepped ==
  ASSUME TypeOK, NEW k \in Calls, NEW s, Step(k, s), Legal(call[k].kind, s, call[k].of)
  PROVE  Takes(k, s, call[k].of)
<1>1. PICK c \in CallRows : c = call[k]
  BY DEF TypeOK
<1>2. c = [kind |-> c.kind, step |-> c.step, of |-> c.of]
  BY RowLegal
<1>3. [c EXCEPT !.step = s] = [kind |-> c.kind, step |-> s, of |-> c.of]
  BY <1>2
<1>4. call' = [call EXCEPT ![k] = [kind |-> c.kind, step |-> s, of |-> c.of]]
  BY <1>1, <1>3 DEF Step
<1>5. [kind |-> c.kind, step |-> s, of |-> c.of] \in CallRows
  BY <1>1, LegalRow
<1>6. QED
  BY <1>1, <1>4, <1>5 DEF Takes, Others, TypeOK

LEMMA Asked ==
  ASSUME TypeOK, NEW k \in Calls, NEW s, NEW x, Legal(call[k].kind, s, x),
         StepFor(k, s, x)
  PROVE  Takes(k, s, x)
<1>1. PICK c \in CallRows : c = call[k]
  BY DEF TypeOK
<1>2. c = [kind |-> c.kind, step |-> c.step, of |-> c.of]
  BY RowLegal
<1>3. PICK f \in [Calls -> CallRows] : f = call
  BY DEF TypeOK
<1>4. PICK g : g = [f EXCEPT ![k] = [kind |-> c.kind, step |-> c.step, of |-> x]]
  OBVIOUS
<1>5. [f EXCEPT ![k].of = x] = g
  <2>1. [c EXCEPT !.of = x] = [kind |-> c.kind, step |-> c.step, of |-> x]
    BY <1>2
  <2>2. [f EXCEPT ![k].of = x] = [f EXCEPT ![k] = [c EXCEPT !.of = x]]
    BY <1>1, <1>3
  <2>3. QED
    BY <1>4, <2>1, <2>2
<1>6. call' = [g EXCEPT ![k].step = s]
  BY <1>3, <1>5 DEF StepFor
<1>7. call' = [call EXCEPT ![k] = [kind |-> c.kind, step |-> s, of |-> x]]
  <2>1. PICK d : d = [kind |-> c.kind, step |-> c.step, of |-> x]
    OBVIOUS
  <2>2. [d EXCEPT !.step = s] = [kind |-> c.kind, step |-> s, of |-> x]
    BY <2>1
  <2>3. g = [f EXCEPT ![k] = d] /\ g[k] = d
    BY <1>3, <1>4, <2>1
  <2>4. [g EXCEPT ![k].step = s] = [g EXCEPT ![k] = [kind |-> c.kind, step |-> s, of |-> x]]
    BY <2>2, <2>3
  <2>5. QED
    BY <1>3, <1>6, <2>3, <2>4
<1>8. [kind |-> c.kind, step |-> s, of |-> x] \in CallRows
  BY <1>1, LegalRow
<1>9. QED
  BY <1>1, <1>7, <1>8 DEF Takes, Others, TypeOK

LEMMA Ended ==
  ASSUME TypeOK, NEW k \in Calls, Ends(k)
  PROVE  Stops(k)
<1>1. Idle \in CallRows
  BY DEF CallRows
<1>2. QED
  BY <1>1 DEF Stops, Others, Ends, TypeOK

LEMMA Begun ==
  ASSUME TypeOK, NEW k \in Calls, NEW kind, NEW s, NEW of, Begin(k, kind, s, of),
         Legal(kind, s, of)
  PROVE  Starts(k, kind, s, of) /\ call[k] = Idle
<1>1. [kind |-> kind, step |-> s, of |-> of] \in CallRows
  BY LegalRow
<1>2. QED
  BY <1>1 DEF Starts, Others, Begin, TypeOK

-----------------------------------------------------------------------------
\* Frames: what a step leaves alone

\* A call that is no writer's does not concern the plan.
LEMMA PlanFrame ==
  ASSUME RowsInv, PlanInv, NEW k \in Calls, Others(k), ~Writing(k), ~Writing(k)',
         UNCHANGED <<shopify, row, plan, incremental>>, freeRows \in Nat, freeRows' \in Nat,
         freeRows' >= freeRows, Calm' => Calm
  PROVE  RowsInv' /\ PlanInv'
<1>1. \A j \in Calls : call'[j].kind \in Writers => call'[j] = call[j]
  BY DEF Writing, Others
<1>2. \A j \in Calls : call[j].kind \in Writers => call'[j] = call[j]
  BY DEF Writing, Others
<1>3. Active' = Active
  BY DEF Active
<1>4. RowsInv'
  BY <1>1, <1>3 DEF RowsInv, Writers
<1>5. ASSUME Calm'
      PROVE  /\ \A i, j \in Calls : Writing(i)' /\ Writing(j)' => i = j
             /\ (\A j \in Calls : ~At(j, Syncs, "shop")') => Agree'
             /\ plan' # None => Only(plan)'
             /\ \A j \in Calls : WriterInv(j)'
  <2>1. \A i, j \in Calls : Writing(i)' /\ Writing(j)' => i = j
    BY <1>1, <1>5 DEF PlanInv, Writing
  <2>2. (\A j \in Calls : ~At(j, Syncs, "shop")') => Agree'
    BY <1>2, <1>3, <1>5 DEF PlanInv, At, Writers, Agree
  <2>3. plan' # None => Only(plan)'
    BY <1>5 DEF PlanInv, Only
  <2>4. \A j \in Calls : WriterInv(j)'
    BY <1>1, <1>3, <1>5 DEF PlanInv, WriterInv, Only, At, Writers
  <2>5. QED
    BY <2>1, <2>2, <2>3, <2>4
<1>6. QED
  BY <1>4, <1>5 DEF PlanInv

\* While a writer is at work it is the only one.
LEMMA WriterFrame ==
  ASSUME PlanInv, NEW k \in Calls, Others(k), Writing(k), Calm' => Calm,
         Calm' => /\ ~At(k, Syncs, "shop")' => Agree'
                  /\ plan' # None => Only(plan)'
                  /\ WriterInv(k)'
  PROVE  PlanInv'
<1>1. ASSUME Calm', NEW j \in Calls \ {k}
      PROVE  ~Writing(j)'
  BY <1>1 DEF PlanInv, Writing, Others
<1>2. ASSUME Calm', NEW j \in Calls \ {k}
      PROVE  WriterInv(j)'
  BY <1>1, <1>2 DEF WriterInv, At, Writing, Writers
<1>3. QED
  BY <1>1, <1>2 DEF PlanInv

\* What a writer knows before its step
LEMMA WriterKnows ==
  ASSUME PlanInv, NEW k \in Calls, Writing(k), Calm
  PROVE  /\ WriterInv(k) /\ (plan # None => Only(plan))
         /\ ~At(k, Syncs, "shop") => Agree
BY DEF PlanInv, Writing, At, Writers

\* A call that is about no pack does not concern the purchases.
LEMMA CreditFrame ==
  ASSUME PurchaseInv, CreditInv, NEW k \in Calls, Others(k),
         call[k].kind \notin {"buy", "fulfil"}, call'[k].kind \notin {"buy", "fulfil"},
         At(k, {"scheduled"}, "flag")' => First \in buckets',
         UNCHANGED <<purchase, bonus>>,
         \A p \in Packs : Pack(p) \in buckets' <=> Pack(p) \in buckets,
         First \in buckets => First \in buckets', faults' = 0 => faults = 0
  PROVE  PurchaseInv' /\ CreditInv'
<1>1. PurchaseInv'
  BY DEF PurchaseInv, Others, At
<1>2. \A j \in Calls : At(j, {"fulfil"}, "credit") =>
        At(j, {"fulfil"}, "credit")' /\ call'[j].of = call[j].of
  BY DEF At, Others
<1>3. \A j \in Calls \ {k} : At(j, {"scheduled"}, "flag")' => At(j, {"scheduled"}, "flag")
  BY DEF At, Others
<1>4. CreditInv'
  BY <1>2, <1>3 DEF CreditInv
<1>5. QED
  BY <1>1, <1>4

LEMMA RowAt ==
  ASSUME TypeOK, NEW k \in Calls
  PROVE  call[k] = Idle \/ Legal(call[k].kind, call[k].step, call[k].of)
BY RowLegal DEF TypeOK

\* A call that ends after it only read
LEMMA StopsKeeps ==
  ASSUME IInv, NEW k \in Calls, Stops(k), ~At(k, Syncs, "shop"), ~At(k, {"fulfil"}, "credit"),
         UNCHANGED <<shopify, subscription, credits, purchase, overlapped, faults>>
  PROVE  IInv'
<1>1. TypeOK'
  BY DEF IInv, TypeOK, Stops, Others, subscription, credits
<1>2. Idle.kind = "none" /\ ~Writing(k)'
  BY DEF Stops, Idle, Writing, Writers, Syncs
<1>3. /\ UNCHANGED <<shopify, row, plan, incremental, freeRows, overlapped, faults>>
      /\ Active' = Active
  BY DEF subscription, Active
<1>4. RowsInv'
  BY <1>2, <1>3 DEF IInv, RowsInv, Stops, Others, Syncs
<1>5. PlanInv'
  <2>1. CASE Writing(k)
    <3>1. Calm' => Calm
      BY <1>3 DEF Calm
    <3>2. Calm' => Agree' /\ (plan' # None => Only(plan)')
      BY <1>3, <2>1, <3>1, WriterKnows DEF IInv, Agree, Only
    <3>3. WriterInv(k)'
      BY <1>2 DEF WriterInv, At, Stops, Syncs
    <3>4. QED
      BY <2>1, <3>1, <3>2, <3>3, WriterFrame DEF IInv, Stops
  <2>2. CASE ~Writing(k)
    BY <1>2, <1>3, <2>2, PlanFrame DEF IInv, TypeOK, Stops, Calm
  <2>3. QED
    BY <2>1, <2>2
<1>6. PurchaseInv'
  BY <1>2 DEF IInv, PurchaseInv, Stops, Others, At
<1>7. CreditInv'
  <2>1. \A j \in Calls : At(j, {"fulfil"}, "credit") =>
          At(j, {"fulfil"}, "credit")' /\ call'[j].of = call[j].of
    BY DEF At, Stops, Others
  <2>2. \A j \in Calls : At(j, {"scheduled"}, "flag")' => At(j, {"scheduled"}, "flag")
    BY <1>2 DEF At, Stops, Others
  <2>3. QED
    BY <2>1, <2>2 DEF IInv, CreditInv, credits
<1>8. QED
  BY <1>1, <1>4, <1>5, <1>6, <1>7 DEF IInv

LEMMA QueryKeeps ==
  ASSUME IInv, NEW k \in Calls, Query(k)
  PROVE  IInv'
<1>1. call[k].kind \in Syncs /\ call[k].step = "query" /\ Writing(k)
  BY DEF Query, At, Writing, Writers
<1>2. /\ UNCHANGED <<shopify, row, plan, incremental, freeRows, overlapped, faults>>
      /\ Active' = Active
  BY DEF Query, subscription, Active
<1>3. CASE Subscribed = {}
  BY <1>1, <1>3, Ended, StopsKeeps DEF Query, At, IInv, Syncs
<1>4. CASE Subscribed # {}
  <2>1. PICK s \in Subscribed : StepFor(k, "lookup", s)
    BY <1>4 DEF Query
  <2>2. s \in Subs /\ shopify[s] = "ACTIVE"
    BY DEF Subscribed
  <2>3. Takes(k, "lookup", s)
    BY <1>1, <2>1, <2>2, Asked DEF IInv, Legal, SyncSteps
  <2>4. TypeOK'
    BY <2>3 DEF IInv, TypeOK, Takes, Others, Query, subscription, credits
  <2>5. RowsInv'
    BY <1>2, <2>2, <2>3 DEF IInv, RowsInv, Takes, Others
  <2>6. PlanInv'
    <3>1. Calm' => Calm
      BY <1>2 DEF Calm
    <3>2. ASSUME Calm
          PROVE  Agree' /\ (plan' # None => Only(plan)')
      BY <1>1, <1>2, <3>2, WriterKnows DEF IInv, Agree, Only, At
    <3>3. ASSUME Calm
          PROVE  WriterInv(k)'
      <4>1. Only(s)'
        BY <1>2, <2>2 DEF IInv, RowsInv, Only
      <4>2. row[s] = "CANCELED" => plan = None
        <5>1. Active = {plan} \ {None} /\ (plan # None => Only(plan))
          BY <1>1, <3>3, WriterKnows DEF IInv, Agree, At
        <5>2. QED
          BY <2>2, <5>1 DEF Active, Only
      <4>3. QED
        BY <1>2, <2>3, <4>1, <4>2 DEF WriterInv, At, Takes, ApplySteps
    <3>4. QED
      BY <1>1, <2>3, <3>1, <3>2, <3>3, WriterFrame DEF IInv, Takes
  <2>7. PurchaseInv' /\ CreditInv'
    BY <1>1, <1>2, <2>3, CreditFrame DEF IInv, Takes, Query, credits, At, Syncs
  <2>8. QED
    BY <2>4, <2>5, <2>6, <2>7 DEF IInv
<1>5. QED
  BY <1>3, <1>4

\* A writer that goes on without writing the rows or the plan
LEMMA TakesPlan ==
  ASSUME IInv, NEW k \in Calls, NEW s, NEW x, Takes(k, s, x), Writing(k), ~At(k, Syncs, "shop"),
         UNCHANGED <<shopify, subscription, overlapped, faults>>,
         call[k].kind \in Syncs /\ s \in SyncSteps => shopify[x] # "NONE",
         Calm => WriterInv(k)'
  PROVE  RowsInv' /\ PlanInv'
<1>1. /\ UNCHANGED <<shopify, row, plan, incremental, freeRows, overlapped, faults>>
      /\ Active' = Active
  BY DEF subscription, Active
<1>2. RowsInv'
  BY <1>1 DEF IInv, RowsInv, Takes, Others
<1>3. Calm' => Calm
  BY <1>1 DEF Calm
<1>4. Calm' => Agree' /\ (plan' # None => Only(plan)')
  BY <1>1, <1>3, WriterKnows DEF IInv, Agree, Only
<1>5. QED
  BY <1>2, <1>3, <1>4, WriterFrame DEF IInv, Takes

LEMMA LookupKeeps ==
  ASSUME IInv, NEW k \in Calls, Lookup(k)
  PROVE  IInv'
<1>1. call[k].kind \in Syncs /\ call[k].step = "lookup" /\ Writing(k)
  BY DEF Lookup, At, Writing, Writers
<1>2. call[k].of \in Subs
  BY <1>1, RowAt DEF IInv, Legal, Idle, Syncs, ApplySteps
<1>3. CASE Ends(k)
  BY <1>1, <1>3, Ended, StopsKeeps DEF Lookup, At, IInv, Syncs
<1>4. ASSUME NEW s, (s = "update" /\ row[call[k].of] = "CANCELED") \/ s = "create", Step(k, s)
      PROVE  IInv'
  <2>1. Takes(k, s, call[k].of)
    BY <1>1, <1>2, <1>4, Stepped DEF IInv, Legal, SyncSteps
  <2>2. TypeOK'
    BY <2>1 DEF IInv, TypeOK, Takes, Others, Lookup, subscription, credits
  <2>3. RowsInv' /\ PlanInv'
    <3>1. Calm => WriterInv(k)'
      <4>1. Calm => WriterInv(k)
        BY <1>1, WriterKnows DEF IInv
      <4>2. UNCHANGED <<shopify, row, plan>>
        BY DEF Lookup, subscription
      <4>3. QED
        BY <1>1, <1>4, <2>1, <4>1, <4>2
           DEF WriterInv, At, Takes, Only, SyncSteps, ApplySteps
    <3>2. shopify[call[k].of] # "NONE"
      BY <1>1 DEF IInv, RowsInv, SyncSteps
    <3>3. UNCHANGED <<shopify, subscription, overlapped, faults>>
      BY DEF Lookup
    <3>4. ~At(k, Syncs, "shop")
      BY <1>1 DEF At
    <3>5. QED
      BY <1>1, <2>1, <3>1, <3>2, <3>3, <3>4, TakesPlan
  <2>4. PurchaseInv' /\ CreditInv'
    BY <1>1, <1>4, <2>1, CreditFrame DEF IInv, Takes, Lookup, credits, At, Syncs
  <2>5. QED
    BY <2>2, <2>3, <2>4 DEF IInv
<1>5. \/ Ends(k)
      \/ row[call[k].of] = "CANCELED" /\ Step(k, "update")
      \/ Step(k, "create")
  <2>1. CASE Unchanged(call[k].of)
    BY <2>1 DEF Lookup
  <2>2. CASE ~Unchanged(call[k].of) /\ row[call[k].of] = "CANCELED"
    BY <2>2 DEF Lookup, Unchanged
  <2>3. CASE ~Unchanged(call[k].of) /\ row[call[k].of] # "CANCELED"
    BY <2>3 DEF Lookup, Unchanged
  <2>4. QED
    BY <2>1, <2>2, <2>3
<1>6. QED
  BY <1>3, <1>4, <1>5

LEMMA UpdateKeeps ==
  ASSUME IInv, NEW k \in Calls, Update(k)
  PROVE  IInv'
<1>1. call[k].kind \in Syncs /\ call[k].step = "update" /\ Writing(k)
  BY DEF Update, At, Writing, Writers
<1>2. PICK x \in Subs : x = call[k].of
  BY <1>1, RowAt DEF IInv, Legal, Idle, Syncs, ApplySteps
<1>3. Takes(k, "shop", x)
  BY <1>1, <1>2, Stepped DEF IInv, Legal, SyncSteps, Update
<1>4. row' = [row EXCEPT ![x] = "ACTIVE"] /\ row \in [Subs -> {"NONE", "ACTIVE", "CANCELED"}]
  BY <1>2 DEF Update, IInv, TypeOK
<1>5. UNCHANGED <<shopify, freeRows, plan, incremental, credits, purchase, overlapped, faults>>
  BY DEF Update
<1>6. TypeOK'
  BY <1>3, <1>4, <1>5 DEF IInv, TypeOK, Takes, Others, credits
<1>7. Active' = Active \cup {x}
  BY <1>4 DEF Active
<1>8. RowsInv'
  <2>1. shopify[x] # "NONE"
    BY <1>1, <1>2 DEF IInv, RowsInv, SyncSteps
  <2>2. QED
    BY <1>2, <1>3, <1>4, <1>5, <1>7, <2>1 DEF IInv, RowsInv, Takes, Others
<1>9. PlanInv'
  <2>1. Calm' => Calm
    BY <1>5 DEF Calm
  <2>2. ASSUME Calm
        PROVE  plan = None /\ Only(x) /\ Active = {}
    BY <1>1, <1>2, <2>2, WriterKnows DEF IInv, WriterInv, At, Agree, SyncSteps
  <2>3. At(k, Syncs, "shop")'
    BY <1>1, <1>3 DEF At, Takes
  <2>4. ASSUME Calm
        PROVE  WriterInv(k)'
    <3>1. Only(x)' /\ Active' = {x}
      BY <1>4, <1>5, <1>7, <2>2, <2>4 DEF Only
    <3>2. QED
      BY <1>3, <3>1 DEF WriterInv, At, Takes, ApplySteps
  <2>5. QED
    BY <1>1, <1>3, <1>5, <2>1, <2>2, <2>3, <2>4, WriterFrame DEF IInv, Takes
<1>10. PurchaseInv' /\ CreditInv'
  BY <1>1, <1>3, <1>5, CreditFrame DEF IInv, Takes, credits, At, Syncs
<1>11. QED
  BY <1>6, <1>8, <1>9, <1>10 DEF IInv

\* What a change of a synchronisation leads to
LEMMA ChangedTo ==
  ASSUME TypeOK, NEW k \in Calls, call[k].kind \in Syncs, call[k].of \in Subs, Changed(k)
  PROVE  \/ call[k].kind = "scheduled" /\ Takes(k, "welcome", call[k].of)
         \/ Stops(k)
BY Stepped, Ended DEF Changed, Legal, Syncs, ApplySteps

LEMMA SetShopKeeps ==
  ASSUME IInv, NEW k \in Calls, SetShop(k)
  PROVE  IInv'
<1>1. call[k].kind \in Syncs /\ call[k].step = "shop" /\ Writing(k)
  BY DEF SetShop, At, Writing, Writers
<1>2. PICK x \in Subs : x = call[k].of
  BY <1>1, RowAt DEF IInv, Legal, Idle, Syncs, ApplySteps
<1>3. (call[k].kind = "scheduled" /\ Takes(k, "welcome", x)) \/ Stops(k)
  BY <1>1, <1>2, ChangedTo DEF IInv, SetShop
<1>4. /\ UNCHANGED <<shopify, row, freeRows, credits, purchase, overlapped, faults>>
      /\ plan' = x /\ incremental' = TRUE /\ x # None /\ Active' = Active
  BY <1>2, BillingAssumption DEF SetShop, Active
<1>5. TypeOK'
  BY <1>3, <1>4 DEF IInv, TypeOK, Takes, Stops, Others, credits
<1>6. RowsInv'
  BY <1>1, <1>3, <1>4 DEF IInv, RowsInv, Takes, Stops, Others, Idle, Syncs, SyncSteps
<1>7. PlanInv'
  <2>1. Calm' => Calm
    BY <1>4 DEF Calm
  <2>2. ASSUME Calm
        PROVE  Only(x) /\ Active = {x}
    BY <1>1, <1>2, <2>2, WriterKnows DEF IInv, WriterInv, At, SyncSteps
  <2>3. Calm => Agree' /\ Only(plan)'
    BY <1>4, <2>2 DEF Agree, Only
  <2>4. WriterInv(k)'
    BY <1>3, <1>4 DEF WriterInv, At, Takes, Stops, Idle, Syncs, SyncSteps, ApplySteps
  <2>5. QED
    BY <1>1, <1>3, <2>1, <2>3, <2>4, WriterFrame DEF IInv, Takes, Stops
<1>8. PurchaseInv' /\ CreditInv'
  BY <1>1, <1>3, <1>4, CreditFrame DEF IInv, Takes, Stops, credits, At, Syncs, Idle
<1>9. QED
  BY <1>5, <1>6, <1>7, <1>8 DEF IInv

LEMMA CreateKeeps ==
  ASSUME IInv, NEW k \in Calls, Create(k)
  PROVE  IInv'
<1>1. call[k].kind \in Syncs /\ call[k].step = "create" /\ Writing(k)
  BY DEF Create, At, Writing, Writers
<1>2. PICK x \in Subs : x = call[k].of
  BY <1>1, RowAt DEF IInv, Legal, Idle, Syncs, ApplySteps
<1>3. CASE row[x] # "NONE"
  BY <1>1, <1>2, <1>3, Ended, StopsKeeps DEF Create, At, IInv, Syncs
<1>4. CASE row[x] = "NONE"
  <2>1. (call[k].kind = "scheduled" /\ Takes(k, "welcome", x)) \/ Stops(k)
    BY <1>1, <1>2, <1>4, ChangedTo DEF IInv, Create
  <2>2. /\ UNCHANGED <<shopify, credits, purchase, overlapped, faults>>
        /\ plan' = x /\ incremental' = TRUE /\ x # None /\ freeRows' = 0
    BY <1>2, <1>4, BillingAssumption DEF Create
  <2>3. /\ row' \in [Subs -> {"NONE", "ACTIVE", "CANCELED"}]
        /\ row'[x] = "ACTIVE"
        /\ \A s \in Subs \ {x} : /\ row[s] = "ACTIVE" => row'[s] = "CANCELED"
                                 /\ row[s] # "ACTIVE" => row'[s] = row[s]
    <3>1. row' = [s \in Subs |-> CASE s = x -> "ACTIVE"
                                   [] s \in Superseded \ {x} -> "CANCELED"
                                   [] OTHER -> row[s]]
      BY <1>2, <1>4 DEF Create
    <3>2. row' = [s \in Subs |-> IF s = x THEN "ACTIVE"
                                 ELSE IF row[s] = "ACTIVE" THEN "CANCELED" ELSE row[s]]
      BY <3>1 DEF Superseded
    <3>3. QED
      BY <3>2 DEF IInv, TypeOK
  <2>4. Active' = {x}
    <3>1. \A s \in Subs : row'[s] = "ACTIVE" <=> s = x
      BY <2>3 DEF IInv, TypeOK
    <3>2. QED
      BY <3>1 DEF Active
  <2>5. \A s \in Subs \ {x} : row'[s] # "NONE" => row[s] # "NONE"
    BY <2>3 DEF IInv, TypeOK
  <2>6. TypeOK'
    BY <2>1, <2>2, <2>3 DEF IInv, TypeOK, Takes, Stops, Others, credits
  <2>7. RowsInv'
    <3>1. shopify[x] # "NONE"
      BY <1>1, <1>2 DEF IInv, RowsInv, SyncSteps
    <3>2. \A j \in Calls : (call[j].kind \in Syncs /\ call[j].step \in SyncSteps)' =>
            call[j].kind \in Syncs /\ call[j].step \in SyncSteps /\ call'[j] = call[j]
      BY <2>1 DEF Takes, Stops, Others, Idle, Syncs, SyncSteps
    <3>3. QED
      BY <2>2, <2>4, <2>5, <3>1, <3>2 DEF IInv, RowsInv
  <2>8. PlanInv'
    <3>1. Calm' => Calm
      BY <2>2 DEF Calm
    <3>2. Calm => Only(x)
      BY <1>1, <1>2, WriterKnows DEF IInv, WriterInv, SyncSteps
    <3>3. Calm => Agree' /\ Only(plan)'
      BY <2>2, <2>4, <2>5, <3>2 DEF Agree, Only
    <3>4. WriterInv(k)'
      BY <2>1, <2>2 DEF WriterInv, At, Takes, Stops, Idle, Syncs, SyncSteps, ApplySteps
    <3>5. QED
      BY <1>1, <2>1, <3>1, <3>3, <3>4, WriterFrame DEF IInv, Takes, Stops
  <2>9. PurchaseInv' /\ CreditInv'
    BY <1>1, <2>1, <2>2, CreditFrame DEF IInv, Takes, Stops, credits, At, Syncs, Idle
  <2>10. QED
    BY <2>6, <2>7, <2>8, <2>9 DEF IInv
<1>5. QED
  BY <1>3, <1>4

\* applySubscriptionChange changes neither the rows nor the plan.
LEMMA ApplyKnows ==
  ASSUME IInv, NEW k \in Calls, call[k].kind = "scheduled", call[k].step \in ApplySteps
  PROVE  /\ Writing(k) /\ ~At(k, Syncs, "shop") /\ call[k].of \in Subs
         /\ Calm => plan # None /\ Agree
<1>1. Writing(k) /\ ~At(k, Syncs, "shop")
  BY DEF Writing, Writers, Syncs, At, ApplySteps
<1>2. call[k].of \in Subs
  BY RowAt DEF IInv, Legal, Idle, Syncs, ApplySteps
<1>3. Calm => plan # None /\ Agree
  BY <1>1, WriterKnows DEF IInv, WriterInv, Syncs
<1>4. QED
  BY <1>1, <1>2, <1>3

LEMMA GrantWelcomeKeeps ==
  ASSUME IInv, NEW k \in Calls, GrantWelcome(k)
  PROVE  IInv'
<1>1. call[k].kind = "scheduled" /\ call[k].step = "welcome"
  BY DEF GrantWelcome, At
<1>2. call[k].of \in Subs /\ Writing(k) /\ ~At(k, Syncs, "shop") /\ (Calm => plan # None)
  BY <1>1, ApplyKnows DEF ApplySteps
<1>3. PICK s : /\ s = "enable" \/ (s = "flag" /\ ~bonus)
               /\ Step(k, s)
  BY DEF GrantWelcome
<1>4. Takes(k, s, call[k].of)
  BY <1>1, <1>2, <1>3, Stepped DEF IInv, Legal, ApplySteps
<1>5. /\ UNCHANGED <<shopify, subscription, bonus, purchase, overlapped, faults>>
      /\ buckets' = IF bonus THEN buckets ELSE buckets \cup {First}
  BY DEF GrantWelcome, First
<1>6. TypeOK'
  BY <1>4, <1>5 DEF IInv, TypeOK, Takes, Others, subscription, Buckets, First
<1>7. RowsInv' /\ PlanInv'
  <2>1. Calm => WriterInv(k)'
    BY <1>2, <1>3, <1>4, <1>5 DEF WriterInv, At, Takes, SyncSteps, subscription
  <2>2. s \notin SyncSteps
    BY <1>3 DEF SyncSteps
  <2>3. QED
    BY <1>2, <1>4, <1>5, <2>1, <2>2, TakesPlan
<1>8. PurchaseInv' /\ CreditInv'
  <2>1. \A p \in Packs : Pack(p) # First
    BY DEF Pack, First
  <2>2. call[k].kind \notin {"buy", "fulfil"} /\ call'[k].kind \notin {"buy", "fulfil"}
    BY <1>1, <1>4 DEF Takes
  <2>3. At(k, {"scheduled"}, "flag")' => First \in buckets'
    BY <1>3, <1>4, <1>5 DEF At, Takes
  <2>4. /\ \A p \in Packs : Pack(p) \in buckets' <=> Pack(p) \in buckets
        /\ First \in buckets => First \in buckets'
    BY <1>5, <2>1
  <2>5. QED
    BY <1>4, <1>5, <2>2, <2>3, <2>4, CreditFrame DEF IInv, Takes
<1>9. QED
  BY <1>6, <1>7, <1>8 DEF IInv

LEMMA FlagWelcomeKeeps ==
  ASSUME IInv, NEW k \in Calls, FlagWelcome(k)
  PROVE  IInv'
<1>1. call[k].kind = "scheduled" /\ call[k].step = "flag"
  BY DEF FlagWelcome, At
<1>2. call[k].of \in Subs /\ Writing(k) /\ ~At(k, Syncs, "shop") /\ (Calm => plan # None)
  BY <1>1, ApplyKnows DEF ApplySteps
<1>3. Takes(k, "enable", call[k].of)
  BY <1>1, <1>2, Stepped DEF IInv, Legal, ApplySteps, FlagWelcome
<1>4. UNCHANGED <<shopify, subscription, buckets, purchase, overlapped, faults>> /\ bonus' = TRUE
  BY DEF FlagWelcome
<1>5. TypeOK'
  BY <1>3, <1>4 DEF IInv, TypeOK, Takes, Others, subscription
<1>6. RowsInv' /\ PlanInv'
  <2>1. Calm => WriterInv(k)'
    BY <1>2, <1>3, <1>4 DEF WriterInv, At, Takes, SyncSteps, subscription
  <2>2. QED
    BY <1>2, <1>3, <1>4, <2>1, TakesPlan DEF SyncSteps
<1>7. First \in buckets
  BY <1>1 DEF IInv, CreditInv, At
<1>8. PurchaseInv'
  BY <1>1, <1>3, <1>4 DEF IInv, PurchaseInv, Takes, Others, At
<1>9. CreditInv'
  <2>1. \A j \in Calls : At(j, {"fulfil"}, "credit") =>
          At(j, {"fulfil"}, "credit")' /\ call'[j].of = call[j].of
    BY <1>1, <1>3 DEF At, Takes, Others
  <2>2. QED
    BY <1>4, <1>7, <2>1 DEF IInv, CreditInv
<1>10. QED
  BY <1>5, <1>6, <1>8, <1>9 DEF IInv

LEMMA EnableKeeps ==
  ASSUME IInv, NEW k \in Calls, Enable(k)
  PROVE  IInv'
<1>1. call[k].kind = "scheduled" /\ call[k].step = "enable"
  BY DEF Enable, At
<1>2. Writing(k) /\ (Calm => plan # None /\ Agree /\ Only(plan))
  BY <1>1, ApplyKnows, WriterKnows DEF ApplySteps, IInv
<1>3. Stops(k)
  BY Ended DEF IInv, Enable
<1>4. /\ UNCHANGED <<shopify, row, freeRows, plan, credits, purchase, overlapped, faults>>
      /\ incremental' = TRUE /\ Active' = Active
  BY DEF Enable, Active
<1>5. TypeOK'
  BY <1>3, <1>4 DEF IInv, TypeOK, Stops, Others, credits
<1>6. RowsInv'
  BY <1>3, <1>4 DEF IInv, RowsInv, Stops, Others, Idle, Syncs
<1>7. PlanInv'
  <2>1. Calm' => Calm
    BY <1>4 DEF Calm
  <2>2. Calm => Agree' /\ Only(plan)'
    BY <1>2, <1>4 DEF Agree, Only
  <2>3. WriterInv(k)'
    BY <1>3 DEF WriterInv, At, Stops, Idle, Syncs
  <2>4. QED
    BY <1>2, <1>3, <2>1, <2>2, <2>3, WriterFrame DEF IInv, Stops
<1>8. PurchaseInv' /\ CreditInv'
  BY <1>1, <1>3, <1>4, CreditFrame DEF IInv, Stops, credits, At, Idle
<1>9. QED
  BY <1>5, <1>6, <1>7, <1>8 DEF IInv

\* The downgrade
LEMMA DowngradeKnows ==
  ASSUME IInv, NEW k \in Calls, call[k].kind = "downgrade"
  PROVE  /\ Writing(k) /\ ~At(k, Syncs, "shop") /\ call[k].of \in Subs \cup {None}
         /\ call[k].step = "cancel" => call[k].of \in Subs
         /\ Calm => Agree /\ (plan # None => Only(plan))
<1>1. Writing(k) /\ ~At(k, Syncs, "shop")
  BY DEF Writing, Writers, Syncs, At
<1>2. call[k].of \in Subs \cup {None} /\ (call[k].step = "cancel" => call[k].of \in Subs)
  BY RowAt DEF IInv, Legal, Idle, Syncs, ApplySteps
<1>3. QED
  BY <1>1, <1>2, WriterKnows DEF IInv

LEMMA QueryDowngradeKeeps ==
  ASSUME IInv, NEW k \in Calls, QueryDowngrade(k)
  PROVE  IInv'
<1>1. call[k].kind = "downgrade" /\ call[k].step = "query"
  BY DEF QueryDowngrade, At
<1>2. Writing(k) /\ ~At(k, Syncs, "shop")
  BY <1>1, DowngradeKnows
<1>3. PICK s, x : Takes(k, s, x)
  <2>1. CASE Subscribed = {}
    <3>1. call[k].of = None
      BY <1>1, RowAt DEF IInv, Legal, Idle, Syncs
    <3>2. QED
      BY <1>1, <2>1, <3>1, Stepped DEF IInv, Legal, QueryDowngrade
  <2>2. CASE Subscribed # {}
    <3>1. PICK x \in Subscribed : StepFor(k, "cancel", x)
      BY <2>2 DEF QueryDowngrade
    <3>2. QED
      BY <1>1, <3>1, Asked DEF IInv, Legal, Subscribed
  <2>3. QED
    BY <2>1, <2>2
<1>4. UNCHANGED <<shopify, subscription, credits, purchase, overlapped, faults>>
  BY DEF QueryDowngrade
<1>5. TypeOK'
  BY <1>3, <1>4 DEF IInv, TypeOK, Takes, Others, subscription, credits
<1>6. RowsInv' /\ PlanInv'
  <2>1. WriterInv(k)'
    BY <1>1, <1>3 DEF WriterInv, At, Takes, Syncs
  <2>2. QED
    BY <1>1, <1>2, <1>3, <1>4, <2>1, TakesPlan DEF Syncs
<1>7. PurchaseInv' /\ CreditInv'
  BY <1>1, <1>3, <1>4, CreditFrame DEF IInv, Takes, credits, At
<1>8. QED
  BY <1>5, <1>6, <1>7 DEF IInv

LEMMA CancelKeeps ==
  ASSUME IInv, NEW k \in Calls, Cancel(k)
  PROVE  IInv'
<1>1. call[k].kind = "downgrade" /\ call[k].step = "cancel"
  BY DEF Cancel, At
<1>2. PICK x \in Subs : x = call[k].of
  BY <1>1, DowngradeKnows
<1>3. Takes(k, "local", x)
  BY <1>1, <1>2, Stepped DEF IInv, Legal, Cancel
<1>4. /\ UNCHANGED <<row, freeRows, plan, incremental, credits, purchase, overlapped, faults>>
      /\ Active' = Active
  BY DEF Cancel, subscription, Active
<1>5. /\ shopify' \in [Subs -> {"NONE", "ACTIVE", "CANCELLED"}]
      /\ \A s \in Subs : shopify'[s] = shopify[s] \/ (shopify'[s] = "CANCELLED" /\ s = x)
  BY <1>2 DEF Cancel, IInv, TypeOK
<1>6. TypeOK'
  BY <1>3, <1>4, <1>5 DEF IInv, TypeOK, Takes, Others, credits
<1>7. RowsInv'
  <2>1. ASSUME NEW j \in Calls, call'[j].kind \in Syncs, call'[j].step \in SyncSteps
        PROVE  shopify'[call'[j].of] # "NONE"
    <3>1. call'[j] = call[j] /\ shopify[call[j].of] # "NONE"
      BY <1>1, <1>3, <2>1 DEF Takes, Others, Syncs, IInv, RowsInv
    <3>2. call[j].of \in Subs
      BY <2>1, <3>1, RowAt DEF IInv, Legal, Idle, Syncs, SyncSteps, ApplySteps
    <3>3. QED
      BY <1>5, <3>1, <3>2
  <2>2. QED
    BY <1>4, <1>5, <2>1 DEF IInv, RowsInv
<1>8. PlanInv'
  <2>1. Calm' => Calm
    BY <1>4 DEF Calm
  <2>2. Calm => Agree' /\ (plan' # None => Only(plan)')
    <3>1. Calm => Agree /\ (plan # None => Only(plan))
      BY <1>1, DowngradeKnows
    <3>2. QED
      BY <1>4, <1>5, <3>1 DEF Agree, Only
  <2>3. WriterInv(k)'
    BY <1>1, <1>3 DEF WriterInv, At, Takes, Syncs
  <2>4. QED
    BY <1>1, <1>3, <2>1, <2>2, <2>3, DowngradeKnows, WriterFrame DEF IInv, Takes
<1>9. PurchaseInv' /\ CreditInv'
  BY <1>1, <1>3, <1>4, CreditFrame DEF IInv, Takes, credits, At
<1>10. QED
  BY <1>6, <1>7, <1>8, <1>9 DEF IInv

LEMMA DowngradeKeeps ==
  ASSUME IInv, NEW k \in Calls, Downgrade(k)
  PROVE  IInv'
<1>1. call[k].kind = "downgrade" /\ call[k].step = "local"
  BY DEF Downgrade, At
<1>2. Stops(k)
  BY Ended DEF IInv, Downgrade
<1>3. /\ UNCHANGED <<shopify, credits, purchase, overlapped, faults>>
      /\ freeRows' = 1 /\ plan' = None /\ incremental' = FALSE
      /\ row' = [s \in Subs |-> IF row[s] = "ACTIVE" THEN "CANCELED" ELSE row[s]]
  BY DEF Downgrade
<1>4. /\ row' \in [Subs -> {"NONE", "ACTIVE", "CANCELED"}]
      /\ \A s \in Subs : row'[s] # "ACTIVE" /\ (row'[s] # "NONE" => row[s] # "NONE")
  BY <1>3 DEF IInv, TypeOK
<1>5. Active' = {}
  BY <1>4 DEF Active
<1>6. TypeOK'
  BY <1>2, <1>3, <1>4 DEF IInv, TypeOK, Stops, Others, credits
<1>7. RowsInv'
  BY <1>2, <1>3, <1>4 DEF IInv, RowsInv, Stops, Others, Idle, Syncs
<1>8. PlanInv'
  <2>1. Calm' => Calm
    BY <1>3 DEF Calm
  <2>2. Agree' /\ plan' = None
    BY <1>3, <1>5 DEF Agree
  <2>3. WriterInv(k)'
    BY <1>2 DEF WriterInv, At, Stops, Idle, Syncs
  <2>4. QED
    BY <1>1, <1>2, <2>1, <2>2, <2>3, DowngradeKnows, WriterFrame DEF IInv, Stops
<1>9. PurchaseInv' /\ CreditInv'
  BY <1>1, <1>2, <1>3, CreditFrame DEF IInv, Stops, credits, At, Idle
<1>10. QED
  BY <1>6, <1>7, <1>8, <1>9 DEF IInv

-----------------------------------------------------------------------------
\* The bootstrap

LEMMA FindFreeKeeps ==
  ASSUME IInv, NEW k \in Calls, FindFree(k)
  PROVE  IInv'
<1>1. call[k].kind = "bootstrap" /\ call[k].step = "find"
  BY DEF FindFree, At
<1>2. UNCHANGED <<shopify, subscription, credits, purchase, overlapped, faults>>
  BY DEF FindFree
<1>3. CASE Ends(k)
  BY <1>1, <1>2, <1>3, Ended, StopsKeeps DEF IInv, At, Syncs
<1>4. CASE Step(k, "insert")
  <2>1. call[k].of = None
    BY <1>1, RowAt DEF IInv, Legal, Idle, Syncs
  <2>2. Takes(k, "insert", None)
    BY <1>1, <1>4, <2>1, Stepped DEF IInv, Legal
  <2>3. TypeOK'
    BY <1>2, <2>2 DEF IInv, TypeOK, Takes, Others, subscription, credits
  <2>4. RowsInv' /\ PlanInv'
    BY <1>1, <1>2, <2>2, PlanFrame DEF IInv, TypeOK, Takes, Writing, Writers, Syncs,
       subscription, Calm
  <2>5. PurchaseInv' /\ CreditInv'
    BY <1>1, <1>2, <2>2, CreditFrame DEF IInv, Takes, credits, At
  <2>6. QED
    BY <2>3, <2>4, <2>5 DEF IInv
<1>5. QED
  BY <1>3, <1>4 DEF FindFree

LEMMA InsertFreeKeeps ==
  ASSUME IInv, NEW k \in Calls, InsertFree(k)
  PROVE  IInv'
<1>1. call[k].kind = "bootstrap"
  BY DEF InsertFree, At
<1>2. Stops(k)
  BY Ended DEF IInv, InsertFree
<1>3. /\ UNCHANGED <<shopify, row, plan, incremental, credits, purchase, overlapped, faults>>
      /\ freeRows' = freeRows + 1
  BY DEF InsertFree
<1>4. TypeOK'
  BY <1>2, <1>3 DEF IInv, TypeOK, Stops, Others, credits
<1>5. RowsInv' /\ PlanInv'
  BY <1>1, <1>2, <1>3, PlanFrame DEF IInv, TypeOK, Stops, Idle, Writing, Writers, Syncs, Calm
<1>6. PurchaseInv' /\ CreditInv'
  BY <1>1, <1>2, <1>3, CreditFrame DEF IInv, Stops, Idle, credits, At
<1>7. QED
  BY <1>4, <1>5, <1>6 DEF IInv

-----------------------------------------------------------------------------
\* The packs

\* A request about a pack does not concern the plan.
LEMMA PackFrame ==
  ASSUME IInv, NEW k \in Calls, Others(k), call[k].kind \in {"none", "buy", "fulfil"},
         call'[k].kind \in {"none", "buy", "fulfil"},
         UNCHANGED <<shopify, subscription, overlapped, faults>>
  PROVE  RowsInv' /\ PlanInv'
BY PlanFrame DEF IInv, TypeOK, Writing, Writers, Syncs, Calm, subscription

LEMMA PackAt ==
  ASSUME TypeOK, NEW k \in Calls, call[k].kind \in {"buy", "fulfil"}
  PROVE  call[k].of \in Packs
BY RowAt DEF Legal, Idle, Syncs

LEMMA OfferKeeps ==
  ASSUME IInv, NEW k \in Calls, Offer(k)
  PROVE  IInv'
<1>1. call[k].kind = "buy" /\ call[k].step = "offer"
  BY DEF Offer, At
<1>2. PICK x \in Packs : x = call[k].of
  BY <1>1, PackAt DEF IInv
<1>3. UNCHANGED <<shopify, subscription, credits, overlapped, faults>>
  BY DEF Offer
<1>4. CASE Step(k, "record") /\ UNCHANGED purchase
  <2>1. Takes(k, "record", x)
    BY <1>1, <1>2, <1>4, Stepped DEF IInv, Legal
  <2>2. TypeOK'
    BY <1>3, <1>4, <2>1 DEF IInv, TypeOK, Takes, Others, subscription, credits
  <2>3. RowsInv' /\ PlanInv'
    BY <1>1, <1>3, <2>1, PackFrame DEF Takes
  <2>4. PurchaseInv'
    BY <1>1, <1>2, <1>4, <2>1 DEF IInv, PurchaseInv, Takes, Others, At
  <2>5. CreditInv'
    <3>1. \A j \in Calls : At(j, {"fulfil"}, "credit") =>
            At(j, {"fulfil"}, "credit")' /\ call'[j].of = call[j].of
      BY <1>1, <2>1 DEF At, Takes, Others
    <3>2. \A j \in Calls : At(j, {"scheduled"}, "flag")' => At(j, {"scheduled"}, "flag")
      BY <1>1, <2>1 DEF At, Takes, Others
    <3>3. QED
      BY <1>3, <1>4, <3>1, <3>2 DEF IInv, CreditInv, credits
  <2>6. QED
    BY <2>2, <2>3, <2>4, <2>5 DEF IInv
<1>5. CASE Ends(k) /\ purchase' = [purchase EXCEPT ![x].status = "FAILED"]
  <2>1. Stops(k)
    BY <1>5, Ended DEF IInv
  <2>2. /\ purchase' \in [Packs -> Purchases]
        /\ purchase'[x].status = "FAILED" /\ purchase'[x].external = purchase[x].external
        /\ \A p \in Packs \ {x} : purchase'[p] = purchase[p]
    BY <1>5 DEF IInv, TypeOK, Purchases
  <2>3. TypeOK'
    BY <1>3, <2>1, <2>2 DEF IInv, TypeOK, Stops, Others, subscription, credits
  <2>4. RowsInv' /\ PlanInv'
    BY <1>1, <1>3, <2>1, PackFrame DEF Stops, Idle
  <2>5. purchase[x].status = "PENDING" /\ ~purchase[x].external
    BY <1>1, <1>2 DEF IInv, PurchaseInv
  <2>6. \A j \in Calls : call[j].kind = "buy" /\ call[j].of = x => j = k
    BY <1>1, <1>2 DEF IInv, PurchaseInv
  <2>7. \A j \in Calls : call'[j].kind = "buy" => call'[j] = call[j] /\ call[j].of \in Packs \ {x}
    BY <2>1, <2>6, PackAt DEF Stops, Others, Idle, IInv
  <2>8. \A j \in Calls : call'[j].kind = "fulfil" =>
          call'[j] = call[j] /\ call[j].of \in Packs \ {x}
    BY <2>1, <2>5, PackAt DEF Stops, Others, Idle, IInv, PurchaseInv
  <2>9. PurchaseInv'
    <3>1. \A j \in Calls : call'[j].kind = "buy" =>
            purchase'[call'[j].of].status = "PENDING" /\ ~purchase'[call'[j].of].external
      BY <2>2, <2>7 DEF IInv, PurchaseInv
    <3>2. \A i, j \in Calls :
            call'[i].kind = "buy" /\ call'[j].kind = "buy" /\ call'[i].of = call'[j].of => i = j
      BY <2>7 DEF IInv, PurchaseInv
    <3>3. \A j \in Calls : call'[j].kind = "fulfil" =>
            /\ purchase'[call'[j].of].external
            /\ call'[j].step = "credit" => purchase'[call'[j].of].status = "PURCHASED"
      BY <2>2, <2>8 DEF IInv, PurchaseInv, At
    <3>4. QED
      BY <2>2, <2>5, <3>1, <3>2, <3>3 DEF IInv, PurchaseInv, At
  <2>10. CreditInv'
    <3>1. \A j \in Calls : At(j, {"fulfil"}, "credit") =>
            At(j, {"fulfil"}, "credit")' /\ call'[j].of = call[j].of
      BY <1>1, <2>1 DEF At, Stops, Others
    <3>2. \A j \in Calls : At(j, {"scheduled"}, "flag")' => At(j, {"scheduled"}, "flag")
      BY <2>1 DEF At, Stops, Others, Idle
    <3>3. \A p \in Packs : purchase'[p].status = "PURCHASED" <=> purchase[p].status = "PURCHASED"
      BY <2>2, <2>5
    <3>4. QED
      BY <1>3, <3>1, <3>2, <3>3 DEF IInv, CreditInv, credits
  <2>11. QED
    BY <2>3, <2>4, <2>9, <2>10 DEF IInv
<1>6. QED
  BY <1>2, <1>4, <1>5 DEF Offer

LEMMA RecordKeeps ==
  ASSUME IInv, NEW k \in Calls, Record(k)
  PROVE  IInv'
<1>1. call[k].kind = "buy" /\ call[k].step = "record"
  BY DEF Record, At
<1>2. PICK x \in Packs : x = call[k].of
  BY <1>1, PackAt DEF IInv
<1>3. Stops(k)
  BY Ended DEF IInv, Record
<1>4. /\ UNCHANGED <<shopify, subscription, credits, overlapped, faults>>
      /\ purchase' = [purchase EXCEPT ![x].external = TRUE]
  BY <1>2 DEF Record
<1>5. /\ purchase' \in [Packs -> Purchases]
      /\ purchase'[x].status = purchase[x].status /\ purchase'[x].external
      /\ \A p \in Packs \ {x} : purchase'[p] = purchase[p]
  <2>1. ASSUME NEW b \in BOOLEAN, NEW f, f = [purchase EXCEPT ![x].external = b]
        PROVE  /\ f \in [Packs -> Purchases]
               /\ f[x].status = purchase[x].status /\ f[x].external = b
               /\ \A p \in Packs \ {x} : f[p] = purchase[p]
    BY <2>1 DEF IInv, TypeOK, Purchases
  <2>2. QED
    BY <1>4, <2>1
<1>6. TypeOK'
  BY <1>3, <1>4, <1>5 DEF IInv, TypeOK, Stops, Others, subscription, credits
<1>7. RowsInv' /\ PlanInv'
  BY <1>1, <1>3, <1>4, PackFrame DEF Stops, Idle
<1>8. purchase[x].status = "PENDING"
  BY <1>1, <1>2 DEF IInv, PurchaseInv
<1>9. \A j \in Calls : call'[j].kind = "buy" => call'[j] = call[j] /\ call[j].of \in Packs \ {x}
  BY <1>1, <1>2, <1>3, PackAt DEF Stops, Others, Idle, IInv, PurchaseInv
<1>10. \A j \in Calls : call'[j].kind = "fulfil" => call'[j] = call[j] /\ call[j].of \in Packs
  BY <1>3, PackAt DEF Stops, Others, Idle, IInv
<1>11. PurchaseInv'
  <2>1. \A j \in Calls : call'[j].kind = "buy" =>
          purchase'[call'[j].of].status = "PENDING" /\ ~purchase'[call'[j].of].external
    BY <1>5, <1>9 DEF IInv, PurchaseInv
  <2>2. \A i, j \in Calls :
          call'[i].kind = "buy" /\ call'[j].kind = "buy" /\ call'[i].of = call'[j].of => i = j
    BY <1>9 DEF IInv, PurchaseInv
  <2>3. \A j \in Calls : call'[j].kind = "fulfil" =>
          /\ purchase'[call'[j].of].external
          /\ call'[j].step = "credit" => purchase'[call'[j].of].status = "PURCHASED"
    BY <1>5, <1>10 DEF IInv, PurchaseInv, At
  <2>4. QED
    BY <1>5, <1>8, <2>1, <2>2, <2>3 DEF IInv, PurchaseInv, At
<1>12. CreditInv'
  <2>1. \A j \in Calls : At(j, {"fulfil"}, "credit") =>
          At(j, {"fulfil"}, "credit")' /\ call'[j].of = call[j].of
    BY <1>1, <1>3 DEF At, Stops, Others
  <2>2. \A j \in Calls : At(j, {"scheduled"}, "flag")' => At(j, {"scheduled"}, "flag")
    BY <1>3 DEF At, Stops, Others, Idle
  <2>3. \A p \in Packs : purchase'[p].status = purchase[p].status
    BY <1>5
  <2>4. QED
    BY <1>4, <2>1, <2>2, <2>3 DEF IInv, CreditInv, credits
<1>13. QED
  BY <1>6, <1>7, <1>11, <1>12 DEF IInv

LEMMA CheckKeeps ==
  ASSUME IInv, NEW k \in Calls, Check(k)
  PROVE  IInv'
<1>1. call[k].kind = "fulfil" /\ call[k].step = "check"
  BY DEF Check, At
<1>2. UNCHANGED <<shopify, subscription, credits, purchase, overlapped, faults>>
  BY DEF Check
<1>3. CASE Ends(k)
  BY <1>1, <1>2, <1>3, Ended, StopsKeeps DEF IInv, At, Syncs
<1>4. CASE Step(k, "mark")
  <2>1. PICK x \in Packs : x = call[k].of
    BY <1>1, PackAt DEF IInv
  <2>2. Takes(k, "mark", x)
    BY <1>1, <1>4, <2>1, Stepped DEF IInv, Legal
  <2>3. TypeOK'
    BY <1>2, <2>2 DEF IInv, TypeOK, Takes, Others, subscription, credits
  <2>4. RowsInv' /\ PlanInv'
    BY <1>1, <1>2, <2>2, PackFrame DEF Takes
  <2>5. PurchaseInv'
    BY <1>1, <1>2, <2>1, <2>2 DEF IInv, PurchaseInv, Takes, Others, At
  <2>6. CreditInv'
    <3>1. \A j \in Calls : At(j, {"fulfil"}, "credit") =>
            At(j, {"fulfil"}, "credit")' /\ call'[j].of = call[j].of
      BY <1>1, <2>2 DEF At, Takes, Others
    <3>2. \A j \in Calls : At(j, {"scheduled"}, "flag")' => At(j, {"scheduled"}, "flag")
      BY <1>1, <2>2 DEF At, Takes, Others
    <3>3. QED
      BY <1>2, <3>1, <3>2 DEF IInv, CreditInv, credits
  <2>7. QED
    BY <2>3, <2>4, <2>5, <2>6 DEF IInv
<1>5. QED
  BY <1>3, <1>4 DEF Check

LEMMA MarkKeeps ==
  ASSUME IInv, NEW k \in Calls, Mark(k)
  PROVE  IInv'
<1>1. call[k].kind = "fulfil" /\ call[k].step = "mark"
  BY DEF Mark, At
<1>2. PICK x \in Packs : x = call[k].of
  BY <1>1, PackAt DEF IInv
<1>3. Takes(k, "credit", x)
  BY <1>1, <1>2, Stepped DEF IInv, Legal, Mark
<1>4. /\ UNCHANGED <<shopify, subscription, credits, overlapped, faults>>
      /\ purchase' = [purchase EXCEPT ![x] = [purchase[x] EXCEPT !.status = "PURCHASED"]]
  BY <1>2 DEF Mark, Fulfilled
<1>5. /\ purchase' \in [Packs -> Purchases]
      /\ purchase'[x].status = "PURCHASED" /\ purchase'[x].external = purchase[x].external
      /\ \A p \in Packs \ {x} : purchase'[p] = purchase[p]
  BY <1>4 DEF IInv, TypeOK, Purchases
<1>6. TypeOK'
  BY <1>3, <1>4, <1>5 DEF IInv, TypeOK, Takes, Others, subscription, credits
<1>7. RowsInv' /\ PlanInv'
  BY <1>1, <1>3, <1>4, PackFrame DEF Takes
<1>8. purchase[x].external
  BY <1>1, <1>2 DEF IInv, PurchaseInv
<1>9. \A j \in Calls : call'[j].kind = "buy" => call'[j] = call[j] /\ call[j].of \in Packs \ {x}
  BY <1>1, <1>3, <1>8, PackAt DEF Takes, Others, IInv, PurchaseInv
<1>10. \A j \in Calls \ {k} : call'[j].kind = "fulfil" => call'[j] = call[j] /\ call[j].of \in Packs
  BY <1>3, PackAt DEF Takes, Others, IInv
<1>11. PurchaseInv'
  <2>1. \A j \in Calls : call'[j].kind = "buy" =>
          purchase'[call'[j].of].status = "PENDING" /\ ~purchase'[call'[j].of].external
    BY <1>5, <1>9 DEF IInv, PurchaseInv
  <2>2. \A i, j \in Calls :
          call'[i].kind = "buy" /\ call'[j].kind = "buy" /\ call'[i].of = call'[j].of => i = j
    BY <1>9 DEF IInv, PurchaseInv
  <2>3. \A j \in Calls : call'[j].kind = "fulfil" =>
          /\ purchase'[call'[j].of].external
          /\ call'[j].step = "credit" => purchase'[call'[j].of].status = "PURCHASED"
    <3>1. purchase'[call'[k].of].external /\ purchase'[call'[k].of].status = "PURCHASED"
      BY <1>3, <1>5, <1>8 DEF Takes
    <3>2. \A j \in Calls \ {k} : call'[j].kind = "fulfil" =>
            /\ purchase'[call'[j].of].external
            /\ call'[j].step = "credit" => purchase'[call'[j].of].status = "PURCHASED"
      <4>1. \A p \in Packs : /\ purchase[p].external => purchase'[p].external
                             /\ purchase[p].status = "PURCHASED" => purchase'[p].status = "PURCHASED"
        BY <1>5
      <4>2. \A j \in Calls : call[j].kind = "fulfil" => purchase[call[j].of].external
        BY DEF IInv, PurchaseInv
      <4>3. \A j \in Calls : call[j].kind = "fulfil" /\ call[j].step = "credit" =>
              purchase[call[j].of].status = "PURCHASED"
        BY DEF IInv, PurchaseInv, At
      <4>4. SUFFICES ASSUME NEW j \in Calls \ {k}, call'[j].kind = "fulfil"
                     PROVE  /\ purchase'[call'[j].of].external
                            /\ call'[j].step = "credit" => purchase'[call'[j].of].status = "PURCHASED"
        OBVIOUS
      <4>5. call'[j] = call[j]
        BY <1>10, <4>4
      <4>6. PICK q \in Packs : q = call[j].of
        BY <1>10, <4>4
      <4>7. purchase[q].external /\ (call[j].step = "credit" => purchase[q].status = "PURCHASED")
        BY <4>2, <4>3, <4>4, <4>5, <4>6
      <4>8. purchase'[q].external /\ (call[j].step = "credit" => purchase'[q].status = "PURCHASED")
        BY <4>1, <4>7
      <4>9. QED
        BY <4>5, <4>6, <4>8
    <3>3. QED
      BY <3>1, <3>2
  <2>4. QED
    BY ZenonT(60), <1>5, <1>8, <2>1, <2>2, <2>3 DEF IInv, PurchaseInv, At
<1>12. CreditInv'
  <2>1. \A j \in Calls : At(j, {"fulfil"}, "credit") =>
          At(j, {"fulfil"}, "credit")' /\ call'[j].of = call[j].of
    BY <1>1, <1>3 DEF At, Takes, Others
  <2>2. \A j \in Calls : At(j, {"scheduled"}, "flag")' => At(j, {"scheduled"}, "flag")
    BY <1>1, <1>3 DEF At, Takes, Others
  <2>3. At(k, {"fulfil"}, "credit")' /\ call'[k].of = x
    BY <1>1, <1>3 DEF At, Takes
  <2>4. QED
    BY <1>4, <1>5, <2>1, <2>2, <2>3 DEF IInv, CreditInv, credits
<1>13. QED
  BY <1>6, <1>7, <1>11, <1>12 DEF IInv

LEMMA CreditKeeps ==
  ASSUME IInv, NEW k \in Calls, Credit(k)
  PROVE  IInv'
<1>1. call[k].kind = "fulfil" /\ call[k].step = "credit"
  BY DEF Credit, At
<1>2. PICK x \in Packs : x = call[k].of
  BY <1>1, PackAt DEF IInv
<1>3. Stops(k)
  BY Ended DEF IInv, Credit
<1>4. /\ UNCHANGED <<shopify, subscription, bonus, purchase, overlapped, faults>>
      /\ buckets' = buckets \cup {Pack(x)}
  BY <1>2 DEF Credit, Pack
<1>5. TypeOK'
  BY <1>3, <1>4 DEF IInv, TypeOK, Stops, Others, subscription, Buckets, Pack
<1>6. RowsInv' /\ PlanInv'
  BY <1>1, <1>3, <1>4, PackFrame DEF Stops, Idle
<1>7. purchase[x].status = "PURCHASED"
  BY <1>1, <1>2 DEF IInv, PurchaseInv, At
<1>8. PurchaseInv'
  BY <1>3, <1>4 DEF IInv, PurchaseInv, Stops, Others, At, Idle
<1>9. CreditInv'
  <2>1. \A p \in Packs : Pack(p) = Pack(x) => p = x
    BY DEF Pack
  <2>2. \A j \in Calls \ {k} : At(j, {"fulfil"}, "credit") =>
          At(j, {"fulfil"}, "credit")' /\ call'[j].of = call[j].of
    BY <1>3 DEF At, Stops, Others
  <2>3. \A j \in Calls : At(j, {"scheduled"}, "flag")' => At(j, {"scheduled"}, "flag")
    BY <1>3 DEF At, Stops, Others, Idle
  <2>4. \A p \in Packs : Pack(p) \in buckets' => purchase'[p].status = "PURCHASED"
    BY <1>4, <1>7, <2>1 DEF IInv, CreditInv
  <2>5. ASSUME NEW p \in Packs, purchase'[p].status = "PURCHASED", faults' = 0
        PROVE  \/ Pack(p) \in buckets'
               \/ \E j \in Calls : At(j, {"fulfil"}, "credit")' /\ call'[j].of = p
    <3>1. CASE p = x
      BY <1>4, <3>1
    <3>2. CASE p # x
      <4>1. Pack(p) \in buckets \/ \E j \in Calls : At(j, {"fulfil"}, "credit") /\ call[j].of = p
        BY <1>4, <2>5 DEF IInv, CreditInv
      <4>2. QED
        BY <1>2, <1>4, <2>2, <3>2, <4>1
    <3>3. QED
      BY <3>1, <3>2
  <2>6. QED
    BY <1>4, <2>3, <2>4, <2>5 DEF IInv, CreditInv
<1>10. QED
  BY <1>5, <1>6, <1>8, <1>9 DEF IInv

-----------------------------------------------------------------------------
\* The beginnings and the end of a request, and the merchant's approval

LEMMA FailsKeeps ==
  ASSUME IInv, NEW k \in Calls, Fails(k)
  PROVE  IInv'
<1>1. Stops(k)
  BY Ended DEF IInv, Fails
<1>2. UNCHANGED <<shopify, subscription, credits, purchase, overlapped>> /\ Active' = Active
  BY DEF Fails, subscription, Active
<1>3. faults' \in 0 .. MaxFaults /\ faults' # 0
  BY BillingAssumption DEF Fails, IInv, TypeOK
<1>4. TypeOK'
  BY <1>1, <1>2, <1>3 DEF IInv, TypeOK, Stops, Others, subscription, credits
<1>5. RowsInv'
  BY <1>1, <1>2 DEF IInv, RowsInv, Stops, Others, Idle, Syncs, subscription
<1>6. PlanInv'
  BY <1>3 DEF PlanInv, Calm
<1>7. PurchaseInv'
  BY <1>1, <1>2 DEF IInv, PurchaseInv, Stops, Others, At, Idle
<1>8. CreditInv'
  <2>1. \A j \in Calls : At(j, {"scheduled"}, "flag")' => At(j, {"scheduled"}, "flag")
    BY <1>1 DEF At, Stops, Others, Idle
  <2>2. QED
    BY <1>2, <1>3, <2>1 DEF IInv, CreditInv, credits
<1>9. QED
  BY <1>4, <1>5, <1>6, <1>7, <1>8 DEF IInv

\* A writer that begins beside another one makes them overlap.
LEMMA WriterBegins ==
  ASSUME IInv, NEW k \in Calls, NEW kind \in Writers, Begin(k, kind, "query", None),
         UNCHANGED <<shopify, subscription, credits, purchase, faults>>
  PROVE  IInv'
<1>1. Starts(k, kind, "query", None) /\ call[k] = Idle
  BY Begun DEF IInv, Legal, Writers
<1>2. overlapped' = (overlapped \/ \E j \in Calls : Writing(j))
  BY DEF Begin
<1>3. overlapped' \in BOOLEAN
  BY <1>2
<1>4. TypeOK'
  BY <1>1, <1>3 DEF IInv, TypeOK, Starts, Others, subscription, credits
<1>5. UNCHANGED <<shopify, row, plan, incremental, freeRows, faults>> /\ Active' = Active
  BY DEF subscription, Active
<1>6. RowsInv'
  BY <1>1, <1>5 DEF IInv, RowsInv, Starts, Others, SyncSteps
<1>7. ASSUME Calm'
      PROVE  Calm /\ \A j \in Calls : ~Writing(j)
  BY <1>2, <1>5, <1>7 DEF Calm, IInv, TypeOK
<1>8. PlanInv'
  <2>1. ASSUME Calm', NEW j \in Calls \ {k}
        PROVE  ~Writing(j)' /\ WriterInv(j)'
    BY <1>1, <1>7, <2>1 DEF Starts, Others, Writing, WriterInv, At, Writers
  <2>2. WriterInv(k)'
    BY <1>1 DEF Starts, WriterInv, At, SyncSteps, ApplySteps
  <2>3. Calm' => Agree' /\ (plan' # None => Only(plan)')
    <3>1. Calm' => Agree /\ (plan # None => Only(plan))
      BY <1>7 DEF IInv, PlanInv, At, Writing, Writers
    <3>2. QED
      BY <1>5, <3>1 DEF Agree, Only
  <2>4. QED
    BY <2>1, <2>2, <2>3 DEF PlanInv
<1>9. PurchaseInv' /\ CreditInv'
  BY <1>1, CreditFrame DEF IInv, Starts, Idle, At, Writers, Syncs, credits
<1>10. QED
  BY <1>4, <1>6, <1>8, <1>9 DEF IInv

LEMMA BeginsKeep ==
  ASSUME IInv, NEW k \in Calls, BeginSync(k) \/ BeginDowngrade(k)
  PROVE  IInv'
<1>1. PICK kind \in Writers : Begin(k, kind, "query", None)
  BY DEF BeginSync, BeginDowngrade, Writers, Syncs
<1>2. UNCHANGED <<shopify, subscription, credits, purchase, faults>>
  BY DEF BeginSync, BeginDowngrade
<1>3. QED
  BY <1>1, <1>2, WriterBegins

\* A request that is no writer's begins.
LEMMA RequestBegins ==
  ASSUME IInv, NEW k \in Calls, NEW kind \in {"bootstrap", "buy", "fulfil"}, NEW s, NEW x,
         Begin(k, kind, s, x), Legal(kind, s, x),
         UNCHANGED <<shopify, subscription, credits, faults>>, purchase' \in [Packs -> Purchases]
  PROVE  TypeOK' /\ RowsInv' /\ PlanInv'
<1>1. Starts(k, kind, s, x) /\ call[k] = Idle
  BY Begun DEF IInv
<1>2. overlapped' = overlapped
  BY DEF Begin, IInv, TypeOK, Writers, Syncs
<1>3. TypeOK'
  BY <1>1, <1>2 DEF IInv, TypeOK, Starts, Others, subscription, credits
<1>4. RowsInv' /\ PlanInv'
  BY <1>1, <1>2, PlanFrame DEF IInv, TypeOK, Starts, Idle, Writing, Writers,
     Syncs, Calm, subscription
<1>5. QED
  BY <1>3, <1>4

LEMMA BeginBootstrapKeeps ==
  ASSUME IInv, NEW k \in Calls, BeginBootstrap(k)
  PROVE  IInv'
<1>1. Begin(k, "bootstrap", "find", None) /\ Legal("bootstrap", "find", None)
  BY DEF BeginBootstrap, Legal
<1>2. UNCHANGED <<shopify, subscription, credits, purchase, faults>>
  BY DEF BeginBootstrap
<1>3. Starts(k, "bootstrap", "find", None) /\ call[k] = Idle
  BY <1>1, Begun DEF IInv
<1>4. TypeOK' /\ RowsInv' /\ PlanInv'
  BY <1>1, <1>2, RequestBegins DEF IInv, TypeOK
<1>5. PurchaseInv' /\ CreditInv'
  BY <1>2, <1>3, CreditFrame DEF IInv, Starts, Idle, At, credits
<1>6. QED
  BY <1>4, <1>5 DEF IInv

LEMMA BeginBuyKeeps ==
  ASSUME IInv, NEW k \in Calls, NEW p \in Packs, BeginBuy(k, p)
  PROVE  IInv'
<1>1. Begin(k, "buy", "offer", p) /\ Legal("buy", "offer", p)
  BY DEF BeginBuy, Legal
<1>2. UNCHANGED <<shopify, subscription, credits, faults>>
  BY DEF BeginBuy
<1>3. Starts(k, "buy", "offer", p) /\ call[k] = Idle
  BY <1>1, Begun DEF IInv
<1>4. /\ purchase' \in [Packs -> Purchases]
      /\ purchase'[p].status = "PENDING" /\ purchase'[p].external = purchase[p].external
      /\ \A q \in Packs \ {p} : purchase'[q] = purchase[q]
  BY DEF BeginBuy, IInv, TypeOK, Purchases
<1>5. TypeOK' /\ RowsInv' /\ PlanInv'
  BY <1>1, <1>2, <1>4, RequestBegins
<1>6. purchase[p].status = "NONE" /\ ~purchase[p].external
  BY DEF BeginBuy, IInv, PurchaseInv
<1>7. \A j \in Calls \ {k} : call[j].kind = "buy" => call[j].of \in Packs \ {p}
  BY <1>6, PackAt DEF IInv, PurchaseInv
<1>8. \A j \in Calls \ {k} : call[j].kind = "fulfil" => call[j].of \in Packs \ {p}
  BY <1>6, PackAt DEF IInv, PurchaseInv
<1>9. \A j \in Calls \ {k} : call'[j] = call[j]
  BY <1>3 DEF Starts, Others
<1>10. call'[k].kind = "buy" /\ call'[k].of = p
  BY <1>3 DEF Starts
<1>11. PurchaseInv'
  <2>1. \A j \in Calls : call'[j].kind = "buy" =>
          purchase'[call'[j].of].status = "PENDING" /\ ~purchase'[call'[j].of].external
    BY <1>4, <1>6, <1>7, <1>9, <1>10 DEF IInv, PurchaseInv
  <2>2. \A i, j \in Calls :
          call'[i].kind = "buy" /\ call'[j].kind = "buy" /\ call'[i].of = call'[j].of => i = j
    BY <1>7, <1>9, <1>10 DEF IInv, PurchaseInv
  <2>3. \A j \in Calls : call'[j].kind = "fulfil" =>
          /\ purchase'[call'[j].of].external
          /\ call'[j].step = "credit" => purchase'[call'[j].of].status = "PURCHASED"
    BY <1>4, <1>8, <1>9, <1>10 DEF IInv, PurchaseInv, At
  <2>4. QED
    BY <1>4, <1>6, <2>1, <2>2, <2>3 DEF IInv, PurchaseInv, At
<1>12. CreditInv'
  <2>1. \A j \in Calls : At(j, {"fulfil"}, "credit") =>
          At(j, {"fulfil"}, "credit")' /\ call'[j].of = call[j].of
    BY <1>3 DEF At, Starts, Others, Idle
  <2>2. \A j \in Calls : At(j, {"scheduled"}, "flag")' => At(j, {"scheduled"}, "flag")
    BY <1>3 DEF At, Starts, Others
  <2>3. \A q \in Packs : purchase'[q].status = "PURCHASED" <=> purchase[q].status = "PURCHASED"
    BY <1>4, <1>6
  <2>4. QED
    BY <1>2, <2>1, <2>2, <2>3 DEF IInv, CreditInv, credits
<1>13. QED
  BY <1>5, <1>11, <1>12 DEF IInv

LEMMA BeginFulfilKeeps ==
  ASSUME IInv, NEW k \in Calls, NEW p \in Packs, BeginFulfil(k, p)
  PROVE  IInv'
<1>1. Begin(k, "fulfil", "check", p) /\ Legal("fulfil", "check", p)
  BY DEF BeginFulfil, Legal
<1>2. UNCHANGED <<shopify, subscription, credits, purchase, faults>> /\ purchase[p].external
  BY DEF BeginFulfil
<1>3. Starts(k, "fulfil", "check", p) /\ call[k] = Idle
  BY <1>1, Begun DEF IInv
<1>4. TypeOK' /\ RowsInv' /\ PlanInv'
  BY <1>1, <1>2, RequestBegins DEF IInv, TypeOK
<1>5. PurchaseInv'
  BY <1>2, <1>3 DEF IInv, PurchaseInv, Starts, Others, At
<1>6. CreditInv'
  <2>1. \A j \in Calls : At(j, {"fulfil"}, "credit") =>
          At(j, {"fulfil"}, "credit")' /\ call'[j].of = call[j].of
    BY <1>3 DEF At, Starts, Others, Idle
  <2>2. \A j \in Calls : At(j, {"scheduled"}, "flag")' => At(j, {"scheduled"}, "flag")
    BY <1>3 DEF At, Starts, Others
  <2>3. QED
    BY <1>2, <2>1, <2>2 DEF IInv, CreditInv, credits
<1>7. QED
  BY <1>4, <1>5, <1>6 DEF IInv

LEMMA ApproveKeeps ==
  ASSUME IInv, NEW x \in Subs, Approve(x)
  PROVE  IInv'
<1>1. shopify[x] = "NONE"
  BY DEF Approve
<1>2. /\ UNCHANGED <<row, freeRows, plan, incremental, credits, purchase, call, overlapped,
                   faults>>
      /\ Active' = Active
  BY DEF Approve, subscription, Active
<1>3. shopify' = [r \in Subs |-> IF r = x THEN "ACTIVE"
                                 ELSE IF shopify[r] = "ACTIVE" THEN "CANCELLED" ELSE shopify[r]]
  BY DEF Approve
<1>4. /\ shopify' \in [Subs -> {"NONE", "ACTIVE", "CANCELLED"}]
      /\ \A s \in Subs : shopify'[s] = "ACTIVE" <=> s = x
      /\ \A s \in Subs : shopify[s] # "NONE" => shopify'[s] # "NONE"
  BY <1>3 DEF IInv, TypeOK
<1>5. row[x] = "NONE"
  BY <1>1 DEF IInv, RowsInv, TypeOK
<1>6. TypeOK'
  BY <1>2, <1>4 DEF IInv, TypeOK, credits
<1>7. RowsInv'
  <2>1. \A j \in Calls : call[j].kind \in Syncs /\ call[j].step \in SyncSteps => call[j].of \in Subs
    BY RowAt DEF IInv, Legal, Idle, Syncs, SyncSteps, ApplySteps
  <2>2. QED
    BY <1>2, <1>4, <2>1 DEF IInv, RowsInv
<1>8. \A s : Only(s) => Only(s)'
  BY <1>2, <1>4, <1>5 DEF Only
<1>9. PlanInv'
  <2>1. ASSUME Calm'
        PROVE  /\ Calm
               /\ \A j, k \in Calls : Writing(j)' /\ Writing(k)' => j = k
               /\ (\A k \in Calls : ~At(k, Syncs, "shop")') => Agree'
    BY <1>2, <2>1 DEF Calm, IInv, PlanInv, Writing, At, Agree
  <2>2. ASSUME Calm'
        PROVE  plan' # None => Only(plan)'
    <3>1. plan # None => Only(plan)
      BY <2>1, <2>2 DEF IInv, PlanInv
    <3>2. QED
      BY <1>2, <1>4, <1>5, <3>1 DEF Only
  <2>3. ASSUME Calm', NEW j \in Calls
        PROVE  WriterInv(j)'
    <3>1. WriterInv(j)
      BY <2>1, <2>3 DEF IInv, PlanInv
    <3>2. call[j].kind \in Syncs /\ call[j].step \in SyncSteps => Only(call[j].of)'
      BY <1>2, <1>4, <1>5, <3>1 DEF WriterInv, Only
    <3>3. QED
      BY <1>2, <3>1, <3>2 DEF WriterInv, At, Only
  <2>4. QED
    BY <2>1, <2>2, <2>3 DEF PlanInv
<1>10. PurchaseInv' /\ CreditInv'
  BY <1>2 DEF IInv, PurchaseInv, CreditInv, At, credits
<1>11. QED
  BY <1>6, <1>7, <1>9, <1>10 DEF IInv

-----------------------------------------------------------------------------
LEMMA NextKeeps ==
  ASSUME IInv, [Next]_vars
  PROVE  IInv'
<1>1. ASSUME NEW s \in Subs, Approve(s)
      PROVE  IInv'
  BY <1>1, ApproveKeeps
<1>2. ASSUME NEW k \in Calls, CallStep(k)
      PROVE  IInv'
  BY <1>2, QueryKeeps, LookupKeeps, UpdateKeeps, SetShopKeeps, CreateKeeps, GrantWelcomeKeeps,
     FlagWelcomeKeeps, EnableKeeps, QueryDowngradeKeeps, CancelKeeps, DowngradeKeeps,
     FindFreeKeeps, InsertFreeKeeps, OfferKeeps, RecordKeeps, CheckKeeps, MarkKeeps, CreditKeeps
     DEF CallStep
<1>3. ASSUME NEW k \in Calls, Fails(k)
      PROVE  IInv'
  BY <1>3, FailsKeeps
<1>4. ASSUME NEW k \in Calls, BeginSync(k) \/ BeginDowngrade(k) \/ BeginBootstrap(k)
      PROVE  IInv'
  BY <1>4, BeginsKeep, BeginBootstrapKeeps
<1>5. ASSUME NEW k \in Calls, NEW p \in Packs, BeginBuy(k, p) \/ BeginFulfil(k, p)
      PROVE  IInv'
  BY <1>5, BeginBuyKeeps, BeginFulfilKeeps
<1>6. CASE UNCHANGED vars
  BY <1>6 DEF vars, subscription, credits, IInv, TypeOK, RowsInv, PlanInv, PurchaseInv, CreditInv,
     Active, Agree, Only, WriterInv, Calm, At, Writing
<1>7. Reloads \subseteq Calls /\ Requests \subseteq Calls
  BY BillingAssumption DEF Calls
<1>8. QED
  BY <1>1, <1>2, <1>3, <1>4, <1>5, <1>6, <1>7 DEF Next

\* The invariant holds in every state of every behaviour.
THEOREM Invariant == Spec => []IInv
<1>1. Init => IInv
  <2>1. SUFFICES ASSUME Init
                 PROVE  IInv
    OBVIOUS
  <2>2. Idle \in CallRows /\ 0 \in 0 .. MaxFaults
    BY BillingAssumption DEF CallRows
  <2>3. TypeOK
    <3>1. [status |-> "NONE", external |-> FALSE] \in Purchases
      <4>1. \A b \in BOOLEAN : [status |-> "NONE", external |-> b] \in Purchases
        BY DEF Purchases
      <4>2. QED
        BY <4>1
    <3>2. QED
      BY <2>1, <2>2, <3>1 DEF Init, TypeOK
  <2>4. \A k \in Calls : call[k].kind = "none" /\ ~Writing(k)
    BY <2>1 DEF Init, Idle, Writing, Writers, Syncs
  <2>5. Active = {} /\ (\A s \in Subs : row[s] = "NONE" /\ shopify[s] = "NONE")
    BY <2>1 DEF Init, Active
  <2>6. RowsInv
    BY <2>1, <2>4, <2>5 DEF RowsInv, Init, Syncs
  <2>7. PlanInv
    BY <2>1, <2>4, <2>5 DEF PlanInv, Init, Agree, WriterInv, At, Syncs
  <2>8. PurchaseInv /\ CreditInv
    BY <2>1, <2>4 DEF PurchaseInv, CreditInv, Init, At
  <2>9. QED
    BY <2>3, <2>6, <2>7, <2>8 DEF IInv
<1>2. IInv /\ [Next]_vars => IInv'
  BY NextKeeps
<1>3. QED
  BY <1>1, <1>2, PTL DEF Spec

\* The types of the variables
THEOREM TypeCorrect == Spec => []TypeOK
<1>1. IInv => TypeOK
  BY DEF IInv
<1>2. QED
  BY Invariant, <1>1, PTL

\* The shop's plan, its incremental scan and its active rows agree whenever nobody is
\* between writing the one and the other, unless a writer failed or two of them met.
THEOREM PlanMatchesRows == Spec => []PlanIsSubscribed
<1>1. IInv => PlanIsSubscribed
  <2>1. SUFFICES ASSUME IInv
                 PROVE  PlanIsSubscribed
    OBVIOUS
  <2>2. freeRows > 0 \/ Active # {}
    BY <2>1 DEF IInv, RowsInv
  <2>3. faults = 0 /\ ~overlapped /\ (\A k \in Calls : ~Writing(k)) => Agree
    BY <2>1 DEF IInv, PlanInv, Calm, At, Writing, Writers
  <2>4. QED
    BY <2>2, <2>3 DEF PlanIsSubscribed, Active, Agree
<1>2. QED
  BY Invariant, <1>1, PTL

\* What the rows say was granted was granted: a pack is credited exactly when its purchase
\* is PURCHASED, but for a callback between the two or dead there, and the bonus is not
\* marked before it is there.
THEOREM CreditedAsRecorded == Spec => []CreditedIffRecorded
<1>1. IInv => CreditedIffRecorded
  BY DEF IInv, CreditInv, CreditedIffRecorded, Pack, First
<1>2. QED
  BY Invariant, <1>1, PTL
=============================================================================
