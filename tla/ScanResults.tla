---------------------------- MODULE ScanResults ----------------------------
(***************************************************************************)
(* What a full scan reads, from Shopify's result files to the rows that    *)
(* are published: the stream parser and its flushes into the staging       *)
(* tables, the derive jobs that turn the staging rows of an attempt into   *)
(* the scan's result rows, and publication's choice among these.           *)
(*                                                                         *)
(* ScanPipeline says when these jobs run; here is what they do to the      *)
(* data.  Two derive jobs run at a time, and those of PRODUCT_MEDIA and    *)
(* FILES write the same target rows: each reads the rows that are there,   *)
(* merges its own and writes them in a transaction of its own.             *)
(*                                                                         *)
(* The alternative text stands for every field that is merged (preview,    *)
(* title and handle of the product go by the same rule).                   *)
(***************************************************************************)
EXTENDS Naturals, FiniteSets

CONSTANTS Types,        \* resource types the scan was started for
          Images, Products,
          Covers,       \* the collections, or articles, of the shop
          Texts,
          Null,         \* no text
          NoImage,      \* a cover that has no image at all
          Library,      \* the user of an image in the file library
          MaxAttempts,  \* maxParseAttempts
          FlushSize,    \* rows in a flush (500)
          MaxEdits,     \* bound on what the merchant does during the scan
          MaxFaults     \* bound on exceptions

FileTypes == {"PRODUCT_MEDIA", "FILES"}
CoverTypes == {"COLLECTION_IMAGE", "ARTICLE_IMAGE"}

VARIABLES text,       \* the shop: image or cover -> its alternative text
          users,      \* the shop: which product shows which image
          file,       \* type -> attempt -> rows of Shopify's result file
          staged,     \* type -> attempt -> rows in the staging table
          attempt,    \* type -> attempt -> status of its row
          task,       \* type -> status of its scan_task row, and currentAttemptNo
          derive,     \* type -> its derive job: step, and the targets it has merged
          target,     \* scan_result_target: image or cover -> its text, or Absent
          usage,      \* scan_result_usage
          published,  \* what publication took from the two tables
          edits, faults,
          raced       \* two derive jobs overlapped (history)

shop == <<text, users, edits>>
results == <<target, usage>>
vars == <<shop, file, staged, attempt, task, derive, results, published, faults, raced>>

Ids == Images \cup Covers
Absent == "absent"       \* no row
Nos == 1 .. MaxAttempts
Rows == [of : Ids, user : Products \cup {Library}, text : Texts \cup {Null, NoImage}]
Unpublished == [types |-> {}, texts |-> {}, usages |-> {}]

Current(t) == task[t].current
Fault == faults < MaxFaults /\ faults' = faults + 1
SetAttempt(t, s) == attempt' = [attempt EXCEPT ![t][Current(t)] = s]
SetTask(t, s) == task' = [task EXCEPT ![t].status = s]
DeriveTo(t, s) == derive' = [derive EXCEPT ![t].step = s]

Init == /\ text \in [Ids -> Texts \cup {Null}]
        /\ users \in SUBSET (Images \X Products)
        /\ file = [t \in Types |-> [n \in Nos |-> {}]]
        /\ staged = [t \in Types |-> [n \in Nos |-> {}]]
        /\ attempt = [t \in Types |-> [n \in Nos |-> IF n = 1 THEN "RUNNING" ELSE "NONE"]]
        /\ task = [t \in Types |-> [status |-> "RUNNING", current |-> 1]]
        /\ derive = [t \in Types |-> [step |-> "none", targets |-> {}]]
        /\ target = [x \in Ids |-> Absent]
        /\ usage = {}
        /\ published = Unpublished
        /\ edits = 0 /\ faults = 0 /\ raced = FALSE

-----------------------------------------------------------------------------
\* The merchant goes on working; a bulk operation reads the shop when it runs.

Edit ==
  /\ edits < MaxEdits
  /\ edits' = edits + 1
  /\ \/ \E x \in Images, s \in Texts \cup {Null} :
          s # text[x] /\ text' = [text EXCEPT ![x] = s] /\ UNCHANGED users
     \/ \E x \in Covers, s \in {Null, NoImage} :
          s # text[x] /\ text' = [text EXCEPT ![x] = s] /\ UNCHANGED users
     \/ \E u \in Images \X Products :
          users' = (users \ {u}) \cup ({u} \ users) /\ UNCHANGED text
  /\ UNCHANGED <<file, staged, attempt, task, derive, results, published, faults, raced>>

Row(x, u) == [of |-> x, user |-> u, text |-> text[x]]

\* What the query of the type lists
Snapshot(t) ==
  CASE t = "PRODUCT_MEDIA" -> {Row(u[1], u[2]) : u \in users}
    [] t = "FILES" -> {Row(x, Library) : x \in Images}
    [] OTHER -> {Row(x, Library) : x \in Covers}

BulkCompletes(t) ==
  /\ attempt[t][Current(t)] = "RUNNING"
  /\ file' = [file EXCEPT ![t][Current(t)] = Snapshot(t)]
  /\ SetAttempt(t, "READY_TO_PARSE")
  /\ UNCHANGED <<shop, staged, task, derive, results, published, faults, raced>>

-----------------------------------------------------------------------------
\* The parse job

ParseStarts(t) ==
  /\ attempt[t][Current(t)] = "READY_TO_PARSE"
  /\ SetAttempt(t, "PARSING")
  /\ UNCHANGED <<shop, file, staged, task, derive, results, published, faults, raced>>

Rest(t) == file[t][Current(t)] \ staged[t][Current(t)]

\* A batch is flushed when it is full, and when the stream ends; the attempt's id
\* keeps its rows apart from those of an attempt that failed half-way.
Flush(t) ==
  /\ attempt[t][Current(t)] = "PARSING"
  /\ \E B \in SUBSET Rest(t) :
       /\ Cardinality(B) = FlushSize \/ (B = Rest(t) /\ Cardinality(B) \in 1 .. FlushSize)
       /\ staged' = [staged EXCEPT ![t][Current(t)] = @ \cup B]
  /\ UNCHANGED <<shop, file, attempt, task, derive, results, published, faults, raced>>

\* Mutant of StreamEnds: what is left when the stream ends is not flushed.
EndsUnflushed(t) == Cardinality(Rest(t)) < FlushSize

StreamEnds(t) == Rest(t) = {}

ParseSucceeds(t) ==
  /\ attempt[t][Current(t)] = "PARSING"
  /\ StreamEnds(t)
  /\ SetAttempt(t, "SUCCESS")
  /\ DeriveTo(t, "waiting")
  /\ UNCHANGED <<shop, file, staged, task, results, published, faults, raced>>

\* A row no parser takes (a file without its image, a GID that is none) is fatal; a
\* download that fails is worth another bulk operation, if one is left.
ParseFails(t) ==
  /\ attempt[t][Current(t)] = "PARSING"
  /\ Fault
  /\ \/ /\ Current(t) < MaxAttempts
        /\ attempt' = [attempt EXCEPT ![t][Current(t)] = "FAILED", ![t][Current(t) + 1] = "RUNNING"]
        /\ task' = [task EXCEPT ![t].current = @ + 1]
     \/ SetAttempt(t, "FAILED") /\ SetTask(t, "FAILED")
  /\ UNCHANGED <<shop, file, staged, derive, results, published, raced>>

-----------------------------------------------------------------------------
\* The derive job (deriveAndPersistScanResults)

Input(t) == staged[t][Current(t)]

\* An article without an image is no target; a collection without one is.
Targeted(t, r) == t = "ARTICLE_IMAGE" => r.text # NoImage

\* Mutant of Merge: the text read last wins, be it empty.
IncomingWins(existing, incoming) == incoming

Merge(existing, incoming) == IF incoming # Null THEN incoming
                             ELSE IF existing # Absent THEN existing ELSE Null

\* The rows of an image are merged one by one, in the order of its products; in one
\* file they all have the same text.
Merged(t, x) ==
  LET r == CHOOSE r \in Input(t) : r.of = x
  IN  CASE t \in FileTypes -> Merge(target[x], r.text)
        [] r.text = NoImage -> Null
        [] OTHER -> r.text

Targets(t) == {<<r.of, Merged(t, r.of)>> : r \in {r \in Input(t) : Targeted(t, r)}}

Usages(t, R) == IF t \in FileTypes THEN {<<t, r.of, r.user>> : r \in R} ELSE {}

DeriveReads(t) ==
  /\ derive[t].step = "waiting"
  /\ derive' = [derive EXCEPT ![t] = [step |-> "read", targets |-> Targets(t)]]
  /\ UNCHANGED <<shop, file, staged, attempt, task, results, published, faults, raced>>

Persisted(t) == [x \in Ids |-> IF \E d \in derive[t].targets : d[1] = x
                               THEN (CHOOSE d \in derive[t].targets : d[1] = x)[2]
                               ELSE target[x]]

\* persistDerivedResults: one transaction; nothing that was there is removed.
DerivePersists(t) ==
  /\ derive[t].step = "read"
  /\ target' = Persisted(t)
  /\ usage' = usage \cup Usages(t, Input(t))
  /\ derive' = [derive EXCEPT ![t] = [step |-> "persisted", targets |-> {}]]
  /\ raced' = (raced \/ \E o \in Types \ {t} : derive[o].step = "read" /\ {t, o} = FileTypes)
  /\ UNCHANGED <<shop, file, staged, attempt, task, published, faults>>

DeriveEnds(t) ==
  /\ derive[t].step = "persisted"
  /\ SetTask(t, "SUCCESS")
  /\ DeriveTo(t, "done")
  /\ UNCHANGED <<shop, file, staged, attempt, results, published, faults, raced>>

\* An exception, before or after the rows are written, fails the task; the queue
\* runs the job again.
DeriveFails(t) ==
  /\ derive[t].step \in {"waiting", "read", "persisted"}
  /\ Fault
  /\ SetTask(t, "FAILED")
  /\ derive' = [derive EXCEPT ![t] = [step |-> "waiting", targets |-> {}]]
  /\ UNCHANGED <<shop, file, staged, attempt, results, published, raced>>

-----------------------------------------------------------------------------
\* Publication (publishScanResult), once every task has ended

Won == {t \in Types : task[t].status = "SUCCESS"}

\* The usages of the types that succeeded are read, and of all the targets those
\* that one of these uses, or the covers'.  A usage without its target is
\* dropped.
Publish ==
  /\ published = Unpublished
  /\ Won # {} /\ \A t \in Types : task[t].status # "RUNNING"
  /\ LET U == {u \in usage : u[1] \in Won /\ target[u[2]] # Absent}
         X == {u[2] : u \in U} \cup {x \in Covers : Won \cap CoverTypes # {} /\ target[x] # Absent}
     IN  published' = [types |-> Won, usages |-> U, texts |-> {<<x, target[x]>> : x \in X}]
  /\ UNCHANGED <<shop, file, staged, attempt, task, derive, results, faults, raced>>

Next == \/ Edit \/ Publish
        \/ \E t \in Types : \/ BulkCompletes(t)
                            \/ ParseStarts(t) \/ Flush(t) \/ ParseSucceeds(t) \/ ParseFails(t)
                            \/ DeriveReads(t) \/ DerivePersists(t) \/ DeriveEnds(t) \/ DeriveFails(t)

Spec == Init /\ [][Next]_vars

-----------------------------------------------------------------------------
\* Properties

TypeOK == /\ text \in [Ids -> Texts \cup {Null, NoImage}] /\ users \subseteq Images \X Products
          /\ file \in [Types -> [Nos -> SUBSET Rows]]
          /\ staged \in [Types -> [Nos -> SUBSET Rows]]
          /\ attempt \in [Types -> [Nos -> {"NONE", "RUNNING", "READY_TO_PARSE", "PARSING",
                                            "SUCCESS", "FAILED"}]]
          /\ task \in [Types -> [status : {"RUNNING", "SUCCESS", "FAILED"}, current : Nos]]
          /\ derive \in [Types -> [step : {"none", "waiting", "read", "persisted", "done"},
                                   targets : SUBSET (Ids \X (Texts \cup {Null}))]]
          /\ target \in [Ids -> Texts \cup {Null, Absent}]
          /\ usage \subseteq FileTypes \X Images \X (Products \cup {Library})
          /\ published.types \subseteq Types
          /\ edits \in 0 .. MaxEdits /\ faults \in 0 .. MaxFaults /\ raced \in BOOLEAN

\* What is published is what the scan has read.  The usages are those in the result
\* files of the types that succeeded, all of them and no others: none that only an
\* attempt had staged that failed half-way, none of a type that failed after its
\* results were written, none dropped because a row was missing.  A text is in the
\* result file of a task's last attempt: an earlier one, staged in part, leaves no
\* text behind that the merchant has changed since.
PublishedIsRead ==
  /\ published.usages =
       UNION {Usages(t, file[t][Current(t)]) : t \in published.types \cap FileTypes}
  /\ \A d \in published.texts :
       d[2] \in Texts =>
         \E t \in Types : \E r \in file[t][Current(t)] : r.of = d[1] /\ r.text = d[2]

Files(x) == {r \in UNION {file[t][Current(t)] : t \in published.types} : r.of = x}

\* An image that some result file shows with a text is published with a text
\* ("non-empty first", derive.service.ts:9), whichever of the two derive jobs
\* comes last.  (It does not hold: the one that read before the other wrote may
\* write its empty text over the other's.)
NonEmptyWins ==
  \A d \in published.texts :
    d[1] \in Images /\ d[2] = Null => \A r \in Files(d[1]) : r.text = Null

\* It is so unless the two derive jobs overlapped between reading and writing.
NonEmptyWinsAlone == ~raced => NonEmptyWins
=============================================================================
