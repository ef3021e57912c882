# Verification project for alttext-magic

TLA+ models of alttext-magic, a Shopify app that finds images without alternative text,
generates texts with a model and writes them back. Modelled is what depends on the order in
which transactions, jobs, webhooks, requests and answers happen: the accounting of credits, the
locks, the scans, the generation, the writeback, the billing, the life of an installation, and
the pages that follow all this. TLC checks every part on small instances. TLAPS proves, for
every instance, all the safety properties that the passing runs check, and that the credit tables
implement the account the rest of the system relies on. Paths
below are relative to the repository root; everything is per shop, as every table and key in the code is.

## 1. The system

A React Router server (`app/`, `server/`) takes requests from the embedded app and from
Shopify webhooks, writes PostgreSQL through Prisma, and enqueues BullMQ jobs (Redis). A worker
process (`worker/index.ts`) runs the jobs with several workers per queue; jobs are retried
when they throw and redelivered when their worker dies. Nothing else coordinates the two
processes than rows, unique keys, row locks, a few Redis keys and the queues.

| component | state | operations | module |
|---|---|---|---|
| credit accounting (`server/modules/billing/credit/`, `generation-credit.service.ts`) | `credit_bucket`, `credit_reservation`, `credit_reservation_line`, `credit_ledger` | grant, reserve, consume / release one, release unused, release all, consume all | `CreditLedger` |
| reservation reaper (`reservation-reaper.processor.ts`) | none of its own | select expired ACTIVE reservations, release them one by one | `CreditLedger` |
| shop operation lock (`operation-lock.service.ts`, `lockReaper.ts`) | one row of `shop_operation_lock` | acquire / refresh / take over, release by owner, release by type, heartbeat, two cleaners | `LockRow`, `OperationLock` |
| writeback lock (`writeback-lock.service.ts`) | a Redis key with a TTL | SET NX PX, compare-and-delete | `OperationLock` |
| AI generation (`api.generation.start.tsx`, `generate-alt.processor.ts`, `generation-batch.service.ts`) | `generation_batch`, `alt_candidate.status`, `alt_draft`, jobs | start and its rollback, one job per candidate, batch completion | `Generation` |
| writeback (`writeback.service.ts`, `writeback.processor.ts`), decorative marks | `job_batch`, `job_item`, `alt_candidate.status`, audit log | start, one job per candidate, batch completion, mark and unmark | `Writeback` |
| catalog scan (`server/modules/scan/catalog/`) | scan job, tasks, attempts, bulk slots | submit, webhook, parse, derive, publish, timeout sweep, stop | `ScanPipeline` |
| scan results (parsers, `derive.service.ts`) | staging and result tables | flush, merge, choose what is published | `ScanResults` |
| published catalog (`publish.service.ts`, `productConvergence.ts`, `collectionConvergence.ts`) | targets, usages, candidates, group projections | publish a slice, converge one product or collection, move a candidate | `Catalog` |
| continuous scan (`server/modules/scan/continuous/`) | `webhook_event`, debounce key, delayed jobs, fingerprints | receive, debounce, pass the gates, converge | `ContinuousScan` |
| billing (`server/modules/billing/*.ts`) | subscriptions, the shop's plan, overage packs, bonus | plan change, callback, webhook, synchronisation, bootstrap, purchase and fulfilment of a pack | `Billing` |
| monthly free grant (`free-monthly-grant.service.ts`) | buckets of the month | daily job over all FREE shops | `MonthlyGrant` |
| installation, webhooks of the shop, deletion (`webhooks/`, `gdprDelete.ts`) | `shops`, `Session`, `webhook_events`, the shop's rows | authenticate, receive, uninstall, redact, delete table after table | `Installation` |
| progress and SSE, pages of the embedded app (`hooks/`, `routes/app.*.tsx`, `*sse.service.ts`) | progress hashes, streams, state of the pages | follow a generation, a scan, a writeback; edit, mark, list | `GenerationPage`, `ScanPage`, `ReviewBatches`, `ReviewDrafts`, `CandidateList` |
| cleanup jobs, AI gateway, Shopify clients, auth, dashboards, history | - | single statements, output or I/O | not modelled (section 6) |

What is hard in it:

- transactions that read before they lock (`createReservation`, `resolveOneCredit`, the
  convergences, the derive jobs, the marks), so that only a unique key or a second look separates two;
- work made of several transactions (a generation start, `markGenerated`, a plan change) that
  throws or dies between two of them, is retried, and skips what it finds already done;
- two lock systems, each start handler reading one and taking the other;
- locks that expire under their owner (no worker sends heartbeats), are released by type and not
  by owner, and are swept by cleaners with a constant of their own;
- jobs that run before the handler that enqueued them has finished, webhooks that arrive before
  the answer of the call they are about, late answers for an attempt that has been given up;
- a text that is read from Shopify, written later and recorded later still, while the merchant
  edits or marks the same image and the key that keeps a second writeback out expires;
- a scan without a conductor: each job reads the rows, writes them and enqueues the next, and
  any of them may be the one that finds every task finished;
- two sources for one catalog, a full scan that publishes what it read a while ago and the jobs
  that follow single changes;
- a page that asks, is told by a stream and asks again, while answers overtake one another.

`PROJECT.json` lists the hazards one by one, each at its line with the properties that cover it.

What makes each component correct: no credit is created, lost or settled twice, and no closed
reservation holds any; a lock is not taken from an operation before it ends or the lock
expires; a batch is charged only for what it generated, at most once, completes once, and
finishes; everything that was taken at a start that failed is given back; a writeback
overwrites no text of the merchant's that it could have seen, records what it wrote and nothing
else, and counts every item once; of a resource type at most one attempt is alive, what is
published was parsed and derived whole, an undisturbed scan ends by itself and no step of it
releases its lock before; the catalog shows an image where it is used and nowhere else, and never goes back to older
images while locks last; the shop's plan is the one subscribed to, and what was paid for is
credited once; a shop that is deleted is deleted whole; a page shows what the server has, and sees the end of
what it follows.

## 2. Modules

| module | lines of code it models | notes |
|---|---|---|
| `Totals` | - | the sum of a function, as a cardinality: no recursion, so that it can be proved about |
| `CreditPlan` | `consumption-order.ts`, `planReservationLines` | which buckets a reservation draws, as a set of allowed plans |
| `CreditAccount` | what the credit tables promise | abstract specification: available credits and one row per batch |
| `CreditLedger` | every transaction on the four credit tables | implements `CreditAccount`; reads-before-locks are separate actions |
| `LockRow` | `operation-lock.service.ts`, `lockReaper.ts` | the lock row and what each function makes of it, as operators |
| `OperationLock` | the three heavy operations and both locks | scans, generations and writebacks as far as their locks go |
| `Generation` | a generation from request to batch end | uses `CreditAccount` (INSTANCE) and `LockRow` (EXTENDS) |
| `Writeback` | a writeback from request to batch end, the merchant and the decorative marks | uses neither lock module: the key is a variable of its own |
| `ScanPipeline` | a full scan from the rows of its start to its publication | the order of its jobs; what they do to the data is in `ScanResults` |
| `Catalog` | result rows to catalog: publication, convergence, candidates, groups | publishes any content; which one is for `ScanResults` |
| `ScanResults` | result file to staging to result rows, up to what is published | the data of `ScanPipeline`'s jobs |
| `ContinuousScan`, `Installation`, `Inbound` | webhooks of products; webhooks of the shop; both, with `ScanResults` and `Catalog` | what reaches the app from Shopify and where it goes; the four share no state |
| `Billing`, `MonthlyGrant`, `ShopAccount` | subscriptions and packs; the daily grant; both | the grants themselves are `Grant` of `CreditLedger` |
| `GenerationPage`, `ScanPage`, `ReviewBatches`, `ReviewDrafts`, `CandidateList`, `AppPages` | the pages, their hooks and the server's end of their streams; the tab that shows one of them | a tab that leaves a page drops its state |
| `MC*` | - | instances for TLC: concrete buckets, windows, owner ids, symmetry |
| `*Proofs` | - | theorems about the module of that name |

`Inbound`, `ShopAccount` and `AppPages` put parts side by side that share no state:
a variable (`subject`, `page`) says which one is looked at, and the others stand still
(`Subjects` says which of `Inbound`'s a run has).
Their state spaces add up instead of multiplying, and nothing is lost by it.

### CreditLedger

`bucket`, `reservation`, `line` and `ledger` are the tables; `call[p]` is a transaction that
has read and not yet locked; `reaping` the reservations a reaper run has selected. A bucket is
named by its (type, cycle key), which `grantCreditBucket` makes unique. `createReservation` is
`BeginReserve` (no reservation found, `now` read, `SELECT ... FOR UPDATE` takes its snapshot) and
`CommitReserve` / `AbortReserve` (locks granted, the rows read again and filtered, unique key
on the batch). `resolveOneCredit` is `BeginResolve` (no ledger row with the key) and
`CommitResolve` / `AbortResolve` (reservation locked, unique key on the ledger row). The
other transactions lock their reservation first and are one action each. The ledger's
`balanceAfter`, reasons and metadata are left out. `createdAt`, the order among the lines of a
reservation and the last tie-break among buckets, is left open (any order).

### OperationLock

Scans, generations and writebacks are "idle", "checked" (the other lock was read), "running",
"publishing" (a scan whose publish job is enqueued) and "ended". `lease[o]` is a history
variable: the expiry its last acquisition or heartbeat promised the operation, which the code
returns to it. An operation counts as running (`InLease`) only while that expiry is ahead.
A lock whose `now` was read before it waited for the row lock is treated as read when granted.

### Generation

A start request goes through `start[b]`: created, reserved, locked, started, or back through
unlocking, releasing, deleting (the rollback), or it dies. A job goes through `job[b][c].step`:
waiting, checking, drafting, settling, counting, unusing, unlocking, closing, done or dead:
each is the transaction `processGenerateAltJob` runs next. `Throw` is what an exception does
there (caught: the candidate is marked failed unless it is terminal; not caught: the job is
retried while it has attempts; the calls of the model are written down in the `catch`, which may
throw in its turn: `Escapes`), `JobCrashes` what a dead worker does (BullMQ redelivers a
stalled job once). `Decide` is the whole of the truth check, the model call and the first
transaction after it. The credit account is the abstract one, which `CreditLedger` implements.

`StartFails` is an exception of the handler, after which the rollback runs; `RollbackFails` an
exception inside the rollback, which skips a step, or the death of the server. `spoiled` is
history: the batches with one of the latter. Only these are excepted by `RefusedLeavesNothing`,
with what the rollback cannot do: once a job has settled its credit the reservation is
PARTIALLY_CONSUMED, and `releaseReservation` refuses it.

### Writeback

A start request goes through `start[b]` as in `Generation`: the key is read, the candidates are
validated (`members[b]`), the key is set (`SET NX`), the batch and its items are created in one
transaction, the jobs are enqueued one by one; an exception goes back through `RollbackKey` and
`RollbackBatch`. A job goes through `job[b][c].step`, the call or transaction it does next:
`LoadCandidate`, `Claim`, `TruthCheck` (the second read of the text from Shopify), then
`MarkSkipped`, or `Mutate` followed by `MarkWritten` or `MarkFailed`, then `ReadBatch`,
`CloseBatch` and `Unlock`, the three steps of `finalizeBatchIfComplete`. `JobThrows` retries a
job while it has attempts; after the last, the handler of "failed" events in `worker/index.ts`
takes over at "failing" (`last`), and what it throws itself ends there. `JobCrashes` is a dead
worker (BullMQ redelivers a stalled job once).
`Fill` is the merchant who types a text in the Shopify admin, and `BeginMark`, `BeginUnmark`,
`CommitMark` the two decorative marks, whose transactions read the candidate without a lock.

What is abstracted: a text is empty, the merchant's or the app's; the expiry of the key has no
clock, it may happen at any time; a merchant only fills empty texts; one mark transaction is
open per candidate; a job that is over keeps none of its fields. The SCAN lock that a start also
reads is in `OperationLock`. `kept` and `marked` are history: the candidates that were filled
while no job was between its check and its mutation, and those ever marked decorative.

### ScanPipeline

`job`, `task` and `attempt` are the three tables; `step[p]` says how far each process is: the
scan-start job, a webhook, a parse and a derive job for every attempt, the publish job, the stop
request. A submission reserves the next attempt (`task` PENDING to RUNNING, a row of `attempt`)
and waits for Shopify in `flight`, under the bulk slot (`slot`); the answer and the webhook of
the same bulk operation may come in either order. Whoever ends a task calls
`finalizeScanJobIfTerminal`, whose read and conditional update are one step (`Finalize`). A
worker that finds nothing to do, dies or throws is bounded by `MaxFaults`; the queues retry at
least three times, so with at most two faults no job runs out of attempts. `seen` records two
things a property excepts: "unnoticed", a scan that ended in a submission, after which nobody
enqueues the publication (`scan-start.service.ts:202`), and "revived", a task whose failed
submission was answered after all (`bulk-submit.service.ts:148`). `kept` says that no step of
this scan has released the SCAN lock: how long the lock lives by itself (30 minutes, no
heartbeat), and who else may release what is of its type, is `OperationLock`'s, and what becomes
of a scan that outlives it `ContinuousScan`'s. What a job does to the data
is reduced to the number of the attempt it was computed from (`result`, `published`).

### ScanResults and Catalog

`ScanResults` follows the rows of a result file through the flushes of the stream parser, the
staging tables and the derive jobs to the rows that are published. Two derive jobs run at a time
(`worker/index.ts:167`), and those of PRODUCT_MEDIA and FILES merge into the same rows: reading
and writing are two actions. One text stands for every field that is merged by the same rule;
in one file an image has one text; lines that cannot be read are skipped, as the code does; an
`add` that throws has not enqueued.

`Catalog` has targets, usages, candidates and group projections as one record (`published`, in
`Inbound` `shown`). A transaction writes the slices of its owners one after the other (`Slices`),
in an order that matters to the candidates: one that an earlier slice takes for gone forgets that
its writeback has failed. A
transaction is `Begin`, what it had read of the others' commits, and `Commit`, what it writes:
PostgreSQL runs it READ COMMITTED, and the images it upserts are locked in between. `outdated` is
history: the targets whose presence was computed from rows another transaction replaced
meanwhile. Collections and articles have one target each (`Covers`); of those that are gone an
article keeps its text, a collection does not.

A request about a decorative mark is a transaction too, `Ask` (`Mark`, `Unmark`) and `Decide`:
`getCandidateForUpdate` locks nothing in spite of its name, and the status that follows from what
it read is written by id later. `overwritten` is history: the targets that a publication or a
convergence changed in between, so that an unmark then offered what is gone or filled, and those a
generation job recorded as filled when their candidate had moved on; the next transaction on the
target puts it right.
Publication does not sweep the usages of products that the scan did not see (Spec 4.3.7 A), nor
of the library for an empty result of FILES (`publish.service.ts:296`). The constraint
`OneTarget` of the run looks at the image or the cover, not both: no transaction relates them;
`OneRequest` has one request about a mark at a time, beside one other transaction.

### ContinuousScan

The images of one product have versions, and webhook v tells of version v. `route[e]` is the
receipt of a webhook (recorded, key set, job added), `key` the debounce key, `debounce` the
delayed job, `product` the product job with its gates, its read of Shopify and its convergence.
`Receive` routes by the form of the webhook (`Destination`): the topics of
`webhook-event.service.ts:24` are debounced; any other spelling goes to the queue of the other
webhooks, whose dispatcher (`Process`) has nothing for it and marks it PROCESSED; one without a
resource or a known shop stays PENDING.

`scan[k]` is a full scan that publishes what it read when it began, and whether it still holds the
SCAN lock: the lock may run out under it, or be released by the retried publication of another
(`LockLost`, `ScanUnlocks`), and then `isOperationRunning` lets jobs and further scans pass. Time is
left out but for the one relation that matters: the key lives as long as the job is delayed, and
is set before. The plan and scope gates are one step with `markProcessing`; `tryAcquire` is one
step. `seen` is history: that a scan started while a job was past the lock gate ("raced"), that
somebody passed the lock of a scan that had lost it and was still to publish ("outlived"), and
that a scan has overtaken the fingerprint. The job of a collection has the same steps.

### Installation, MonthlyGrant

`Installation` has the records of one domain: the `shops` row with its id, the session, the
tables that cascade from the row as one, and `ai_model_call`, which does not. `hook` and `event`
are Shopify's deliveries and their rows (a topic with a route of its own, or `/webhooks`);
`queued`, `kept` and `deletion` are the deletion jobs, which go through `Tables` in order and
pass over a table that fails. `busy` is a generation that still writes. `missed` is history: the
shops for which an exception or a writer beside the deletion left something. CUSTOMERS_REDACT
stands for both customers topics; a batch of 1000 rows is one statement.

Two constants say where the deployment decides: `Routed`, the topics that come to a route of their
own, and `ColonsAccepted`, whether BullMQ takes the id of the deletion job. By the repository's own
files (`shopify.app.development.toml:14-21`, `continuous-scan.queue.ts:21`) they are empty and
FALSE, and the deletion is never queued (`ShopRedacted` shows the first). `Inbound` runs with the
values the routes and `gdpr-delete.queue.ts:50` are written for, so that there is a deletion to look
at; that it is whole is proved for all values.

`MonthlyGrant` is the daily job: it reads the FREE shops, reads the buckets they have, and grants
one by one, while shops arrive, change their plan, leave, and the month ends.

### Billing

`shopify` is what Shopify has, `row`, `freeRows`, `plan` and `incremental` the local rows,
`purchase` and `buckets` the packs and their credits. `call[c]` is a request, or the scheduled
synchronisation (`Worker`), with the step it does next; each step is one transaction or one
call. `overlapped` is history: two writers of rows and plan met, or one died between the two,
after which the properties about the plan say nothing. Only the scheduled batch applies the
credits of a change (Specs 4.9:54-57 has the callback do it). Left out: `applyDowngradeToFree`
for a FREE change, which no caller makes.

### The pages

`GenerationPage` has the flow's phase, its requests by batch, the connection of the hook, the
server's stream with the snapshot it opens with, and the workers' publications (a hash and a
channel, one step). `ScanPage` has the stream over the hash, the poll of the rows, and the scan
as far as it changes either. `ReviewBatches` has the requests for a batch's details, by who asks,
and the stream of its counts. `ReviewDrafts` has one image: what the page shows before the server
has it, and what a writeback takes. `CandidateList` has the pages of the list, the cursor, the
observer and the requests that may be on their way when the filter changes.

Left out of them: React's batching (an effect runs at once), events of a connection that was
aborted, events that only move a bar, the order of the list, the panel of usages; typing and
leaving a field are one step. A selection is a batch, generated once at most. A scan is
followed by one mount of the page; a rescan is another.

## 3. Runs

| run | question | bounds |
|---|---|---|
| `CreditLedger` | do all interleavings on one reservation keep buckets, lines and ledger in agreement; is the abstract account implemented; does an untouched reservation end | 1 batch, 2 buckets (one may expire), 2 candidates, 2 open transactions, amounts 1-2, clock 0-2 |
| `OperationLock` | can anybody take the row from a generation or the key from a writeback; do the cleaners end what is dead | 2 scans with one batch id, 1 generation, 2 writebacks, lifetimes 1, clock 0-2, 2 publish attempts |
| `GenerationFaults` | who pays, and what a refused request leaves behind, when the lock expires under a batch, transactions throw or workers die | 2 batches on 1 candidate, 2 credits, 2 attempts, 2 faults, clock 0-1 |
| `GenerationOneBatch` | does a batch end once; is every generation charged; does a start that throws beside its first jobs leave nothing; does an undisturbed batch finish | 1 batch, 2 candidates, 2 attempts, 2 faults, clock 0-1 |
| `Writeback` | is every item counted once, with the right status at the end; is no text of the merchant's lost and every written one audited; does a batch finish | 1 batch, 2 candidates of which the merchant touches 1, 2 attempts, 2 faults |
| `ScanPipeline` | is at most one attempt of a task alive; was what is published parsed; does an undisturbed scan complete; does no step of it release the lock early; does every scan end | 2 types, one retry of one of them, 2 slots, 1 fault |
| `Catalog` | is what is published what was read; does the catalog show an image where it is used, its candidate only while it is there, its groups as its usages are | 3 types, 1 text, 2 attempts, flushes of 2, 1 edit, 1 fault; 1 image of 2 products and the library, 1 cover, 2 open transactions, one of which may be a request about a mark |
| `Inbound` | does a settled event show in the catalog, and the catalog never go back; does every job end; is a deleted shop gone whole | 2 changes, webhooks of 3 forms, 2 full scans, 2 tries at the lock gate; 2 authentications, 2 webhooks with routes of their own; 1 fault |
| `ShopAccount` | is the plan the one subscribed to; is credited what is recorded as paid; does the plan follow Shopify; does every FREE shop get its month | 2 subscriptions, 1 pack, 2 requests of which one only reloads; 2 shops, 2 months, 3 moves; 1 fault |
| `AppPages` | does the generation flow follow its batch and come to a summary; is what the pages show real; do they see the end; is the list whole | 2 batches of 2 jobs, 2 clicks; 1 scan with 2 publish attempts; 2 texts, 3 acts; 3 rows of 2 images, pages of 1, 2 acts; 1-2 faults a page |

`FlowFollowsBatch` stands for `GenerationPage`'s `SummaryIsFinal` and `ConfirmedIsStarted`,
`ShownIsReal` for `ScanPage`'s `ShownEndIsReal` and `ReviewDrafts`' `ShownCounts`, `EndIsShown` for
`ScanPage`'s `EndIsShown` and `ReviewBatches`' `EndIsTold`.

The bounds are the smallest at which the races exist: two transactions that read before they
lock, two buckets so that one reservation has two lines, a clock that passes one expiry, two
operations of each kind on a lock, one retry (two attempts, where the code has three; a third
only repeats what the second may do), two items of one batch where its end is the question, two
batches on one candidate where the race for it is, two resource types of which one is tried
twice, two versions of a product and two scans so that an older one may arrive later. Candidates
and batches are symmetric where no liveness property is checked.

Two runs find that the code does not do what the repository says:

| run | property | what TLC shows |
|---|---|---|
| `ContinuousLost` | `ReceivedIsSettled` | the debounce key has expired when the delayed job reads it, and the event stays PENDING for ever (`webhook-event.service.ts:160`) |
| `ShopRedacted` | `RedactedIsDeleted` | shop/redact is sent to `/webhooks`, where nothing is done for it: answered 200, marked PROCESSED, not deleted (`webhook-process.service.ts:127`) |

Fairness assumes that a process that is not interrupted goes on, and nothing of who may stop:

- `CreditLedger`, `OperationLock`: time passes and the repeatable reaper jobs go on.
- `Generation`, `Writeback`: a handler that is not interrupted goes on, and BullMQ delivers
  every waiting job to a worker that goes on with it (`StartStep`, `JobStep`).
- `ScanPipeline`: `Progress`, one disjunction: some job, answer or sweep that can go on does.
- `ContinuousScan`, `MonthlyGrant`: the product job, the daily job (a retry is another run).
- `Billing`: the scheduled synchronisation begins and goes on.
- The pages: requests are answered, streams deliver, the hooks reconnect; a request takes less
  than the 5 s between two polls (`ScanPage`), the merchant scrolls on (`CandidateList`).

Faults, expiry and what merchants do are never fair. No lock or queue starves another step of
these, so weak fairness is enough.

CHECK_DEADLOCK is FALSE throughout: with the clock at its bound and all work done, the
instances stop. Each property has a mutant: an operator beside the one it replaces, commented
as such, that makes TLC find the property violated (`PROJECT.json`, "mutants").

### What does not hold

Statements one would expect, and that the models refute or were shaped not to promise. No run is
spent on them beside the two above; each is a hazard of `PROJECT.json` or an exception that the
property beside it names.

Locks and starts. `ScanExcludesWriteback`: both start handlers pass their check before either
locks (`writeback-lock.service.ts:12-15`). `NoGenerationBesideScan`: a retried publish job
releases the next scan's lock by type (`publish-scan.processor.ts:102`, Specs 4.2.4). A generation
and a writeback never look at each other's lock.

Generation. `NotStuckGenerating`: a candidate is set GENERATING after its job has failed
(`api.generation.start.tsx:157`). `StartedFinishes`: of two requests for one candidate the
second may take the lock after the first has finished; its batch has nothing to do and stays
IN_PROGRESS (`:111`), and `finalizeTimedOutBatches` has no caller. A consume that throws is never
made up for (`generate-alt.processor.ts:120`, so `GeneratedIsCharged` is stated without
faults). A start that fails after one of its jobs has settled leaves the rest of its reservation
held (`credit-reservation.service.ts:433`). Reaped reservations are RELEASED, never EXPIRED (`reservation-reaper.processor.ts:27`).

Writeback. A worker that dies between the mutation and `markWritten` leaves a text without an
audit row, which the redelivered job takes for the merchant's (so `WrittenIsAudited` is stated
without faults).

Scan. `SucceededIsPublished`: a scan that ends in a submission is not published
(`scan-start.service.ts:202`, `:216`, `:332`; Spec 4.3.7). That a non-empty text always wins the
merge (`derive.service.ts:9`): two derive jobs may overlap. That presence is usage
(`productConvergence.ts:258`, `docs/Specs/8` line 12): two transactions may overlap. With
fewer bulk slots than tasks a task would be left PENDING; the code has five for four types
(`bulk-slot-manager.service.ts:10`), and `UndisturbedCompletes` says so.

Catalog. An unmark that a publication or a convergence passes offers an image that is gone or has
a text, and a mark hides one that was just written (`decorative-mark.server.ts:323`, `:363`). A
full scan that takes longer than its lock lives is not seen by the jobs that come later, nor by the
next scan, and may put older images over theirs (`operation-lock.service.ts:33`). A webhook whose
topic is spelt PRODUCTS_UPDATE, as `tests/webhook-idempotency.e2e.ts:243` has it, is PROCESSED by a
dispatcher that has nothing for it (`webhook-process.service.ts:127`).

Shop and billing. Simultaneous plan changes may leave the plan of a superseded subscription; a
writer that dies between the rows and the shop leaves the two apart; a pack that was marked and
not credited is paid for and lost; fulfilment does not check the payment; authentication adds an
ACTIVE FREE row to a paid shop. A webhook whose event is stored and whose handler fails is not
taken up again; `gdpr-delete.queue.ts:50` has a job id with a colon, which
`continuous-scan.queue.ts:21` says BullMQ refuses (`ColonsAccepted`); after the deletion the
foreign key refuses webhooks of the shop (500); a shop installed again is deleted by the job
that waited, and marked as left by a late webhook; a session stored while the job is between
`Session` and `shops` stays. A manual grant keeps its job id, so that later ones are ignored.

Pages. Overlapping preflights push GENERATING back to CONFIRMING. The phase "done" is stored
before anything is published (`derive-scan.processor.ts:177`), and the first failed attempt to
publish shows failure for good; an answer slower than 5 s is starved by the polls; an event
missed during a reconnection is not made up for (`progress-publisher.ts:257`). A save under way
when a writeback is confirmed is not in it; an edit saved while its batch runs is accepted and
never written; two quick toggles may arrive out of order; a reload beside a save shows the old
text; a late answer of an older batch's details turns the stream off. The list loses or keeps
rows when a request is under way across a change of the filter, stops scrolling when the new
first page ends where the old did, and keeps the old rows when the first page fails.

## 4. Proofs

Everything below holds for every value of the constants that the named assumptions allow. Each
component has one inductive invariant `IInv` (Init implies it, each step keeps it: one lemma per
action, over lemmas on what an action can move), from which the theorems follow.

`CreditLedgerProofs` (`LedgerAssumption`: finitely many buckets and batches). It first proves
what the accounting needs of sums: their type, the sum after one entry changes, zero sums, the
sum of a sum of functions - by bijections between sets of units rather than by induction. `IInv
= TypeOK /\ Books /\ StatusMatchesAmounts`. `Books` is conservation per bucket, lines never
settled beyond what they reserved, buckets against lines, reservations against lines. No part is
inductive alone: `TypeOK` needs the lines to bound a bucket's `reserved` from below, the
reservation's counters are only kept because it is settled by what the lines hold, and
`releaseReservation` sets counters without looking at them, which is right only because an
ACTIVE reservation is untouched. `LedgerInv` adds that no key is written twice, because the
state in which it would be written is left for good; so the rows replay to the balances
(`LedgerCorrect`). With it every transaction is a step or a stutter of `CreditAccount`, where
the available credits are the sum of what the buckets have left (`Implements`): the refinement
is proved, not only checked.

`OperationLockProofs` (`LockRowAssumption`: the heartbeat timeout is not below the lock's
lifetime; `OperationAssumption`: a generation's batch id is its own). `IInv` strengthens the two
leases by the lifetime of a running row, the type that fits an owner and the agreement of lease
and expiry.

`GenerationProofs` (`GenerationAssumption`). Two arguments. Ownership, which no fault disturbs:
a batch owns the candidates it generated, drafted or was charged for, and no two own the same;
that gives `ChargedForGenerated`. Counting, without faults: a batch in progress has not seen all
its outcomes, it is closed by the job that counts the last one, and its reservation covers
exactly what its jobs have not settled yet; that gives `EndsOnce` and `GeneratedIsCharged`.
`RefusedLeavesNothing` is neither: as long as the rollback of a batch was not disturbed, each of
its steps finds what the handler knows it took, and what it gave back nobody takes again in the
batch's name, whatever threw before.

`WritebackProofs` (`WritebackAssumption`). The counters need that no item exists before its
batch is created and that a job closes a batch with a status it computed; the merchant's texts that
no job is about to write over a kept one, because it got there by a check that found the text
empty; what is recorded that a job about to record has seen or written a text. `ClosingInv` then
says that who closes a batch has read it complete, and that nothing moves a complete batch's
counters (`ClosedFits`).

`ScanPipelineProofs` (`PipelineAssumption`: at most two faults, below the queues' three
attempts). The core is that a task is PENDING only while none of its attempts is alive: then
whoever reserves the next attempt is alone with it, the answer of a submission meets the attempt
it was made for, and a parse job works on the task's latest attempt. From it `OneAttemptLives`,
`ResultsAreParsed`, `RunningKeepsLock`, and the action properties `DerivesLatest` (a derive job
never meets an attempt that is not the latest) and `DerivedIsFinal`. `Completes` rests on a
second invariant, `CompletionInv`: something is under way for every task that is not finished,
and somebody will look when the last one is. Proving it showed that the property needs as many
slots as tasks: with fewer, whoever finds its submissions refused does not submit what waits for
their slots. The antecedent was added to `UndisturbedCompletes`; the code satisfies it.

`InboundProofs` has four invariants, one for each subject; a subject that is not looked at keeps
its own because its variables stand still.

- `ContinuousScan` (`ContinuousAssumption`). Unless a scan starts while a product job is past its
  lock gate, or somebody passes the lock after a scan that is still to publish has lost it, a job at
  work and the scans exclude each other (`Exclusive`), so what either has read is not older than the
  catalog: it never goes back (`CatalogGoesForward`). A lock that is lost and passed by nobody
  disturbs nothing of this. The fingerprint is that of the catalog unless a scan
  has overtaken it (`Settled`), so a job that finds it unchanged may leave; an event that was routed
  elsewhere is told apart by its route (`SettledEventShows`).
- `Installation`. The tables are emptied in one order, the shop's row last; what the deletion has
  behind it stays empty unless somebody writes beside it or the table failed, and without the
  row nobody writes (`DeletionIsWhole`).
- `ScanResults` (`ResultsAssumption`). A derive job begins when the parse job of its type's last
  attempt has flushed its whole file, and what it wrote is out of files read whole; publication
  begins when all have ended. So what is published is all that the last attempts' files use
  (`PublicationIsRead`). While the two types that merge into the same rows did not overlap, a row
  that one of them read is the row it writes over, so a text gives way to a text only
  (`NonEmptyIsKeptAlone`).
- `Catalog` (`ResultsAssumption`: finitely many products). The three properties are inductive
  together, once covers and outdated targets are said to be grouped right too, no target is used
  before it has a candidate, and a request about a mark that is still open, and would offer its
  target, has read that it is there and empty, unless it was in doubt (`CatalogInv`, `AskedRight`): so if
  the target is still what it was when the request writes, it may be offered. The work is a commit: after the slices of some of
  its owners (`Sliced`), what they touched is right with respect to the usages the transaction
  knows of, and nothing else has changed. After the last, an image that it touched is right with
  respect to what is published, unless one of these usages has changed since it looked, which
  makes it outdated. As a transaction has any number of owners this is an induction along their
  order, which the library's theorems do not give to these provers: `FromZero` is one over a set
  of numbers, by its least element, and `Begins` the existence of the recursive function. That
  gives `UsagesDecide`, `OfferedIsThere`, `ListFollowsUsages`, and `PublicationTypes`.

`BillingProofs` (`BillingAssumption`). As long as no two writers have met and none has died, at
most one is at work, and what it has read is still so. Beside the plan's subscription no row is
of one that is active in Shopify, because Shopify never revives a subscription and has one at a
time: so a row that is taken up again is the plan's (`PlanMatchesRows`). A purchase under way is
PENDING and its own request's, and what is PURCHASED stays so (`CreditedAsRecorded`).

`AppPagesProofs` (`AppPagesAssumption`) has an invariant for three of the pages.

- `ScanInv`, the progress of a scan. The row leaves RUNNING once and for all, so a phase that was
  true when it was stored, sent or served is still true when it is shown, however late it comes;
  the hash, the stream's wire, the answer under way and the page each carry that.
- `CandidatesInv`, a generation. A batch's row counts the jobs that are past counting, each once
  (a cardinality), so the job that reaches the number of jobs is the last: the row is final from
  then on, and what a job has read of an end, the hash or the wire of the stream is that final
  row. With the stream belonging to the batch that the flow follows, the summary is of it
  (`FlowFollowsItsBatch`). What the merchant confirmed is started because as long as no two
  preflights were asked for at once, one request at a time exists and it is about the last
  selection; the history variable is needed, since the code pushes the flow about otherwise.
- `DraftsInv`, the review page. What it shows is the draft or the edit of the one save under way,
  with the text to go back to being the draft's; the mark likewise with its one toggle; a list
  under way is the only thing under way. The dialog that confirms a writeback covers the page
  until the start is answered, so that what was promised is still the draft when the server
  reads it. With `ScanInv` that gives `PagesShowWhatIs`.

What remains model-checked is everything about liveness, which together with ENABLED is out of
the prover's reach. All invariants and action properties that the passing runs check are theorems.

There is no RECURSIVE operator in this project.

## 5. Bounds that are assumptions

`ScanPipeline` assumes at most two faults and `ContinuousScan` at most one, because the queues
give a job three attempts (a stall twice is a failure): with more, a job may run out of them,
which those models do not have. All other bounds are free in the theorems.

## 6. Not modelled

Cleanup jobs (single statements that delete by age), the AI gateway and its providers (external
answers of `Generation`), the Shopify clients and the rate limiter (external answers of
`ScanPipeline`, `ContinuousScan` and `Writeback`), authentication itself, dashboards and history
(read-only). `finalizeTimedOutBatches` and `applyDowngradeToFree` are called by nothing that
reaches them. Prisma's transaction timeouts and deadlock errors are exceptions like any other.

## 7. Plan

All parts of the plan are modelled, and the safety properties that the runs check are proved.
What is left: the type invariants of the pages as theorems, and jobs that run out of attempts in
`ScanPipeline` and `ContinuousScan`, with which the bounds of section 5 could go.
