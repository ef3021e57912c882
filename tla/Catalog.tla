------------------------------ MODULE Catalog ------------------------------
(***************************************************************************)
(* The published catalog of one shop: image targets, the usages that say   *)
(* where an image appears, the candidates that follow from them, and the   *)
(* groups of the review list.  Full scans publish into it slice by slice   *)
(* (publish.service.ts), continuous-scan jobs converge one product or      *)
(* collection (productConvergence.ts, collectionConvergence.ts), and       *)
(* generation, writeback and decorative marks move the candidates on.      *)
(*                                                                         *)
(* PostgreSQL runs these transactions READ COMMITTED: one that replaces    *)
(* the usages of its owners computes who is still present from what it had *)
(* committed by others when it looked, and writes that later.  A           *)
(* transaction is therefore two actions, Begin (up to that reading) and    *)
(* Commit; the rows of the images it has upserted are locked in between.   *)
(* The requests that mark an image as decorative, or take the mark back,   *)
(* are transactions as well: they read the candidate and its target, which *)
(* nobody keeps from changing, and then write what follows from that.      *)
(***************************************************************************)
EXTENDS Naturals, FiniteSets

CONSTANTS Images,     \* media images: targets of the plane FILE_ALT
          Covers,     \* collection and article images: one target each
          Products,
          Library,    \* the owner of usages of type FILE
          Txs         \* bound: transactions open at one time

Owners == Products \cup {Library}
Targets == Images \cup Covers

VARIABLES published,  \* the rows of targets, usages, candidates and projections
          drafts,     \* targets with a draft that has not expired
          marks,      \* targets with an active decorative mark
          skipped,    \* targets a generation job is about to record as filled
          tx,         \* transaction -> what it has to write, or Idle
          asked,      \* transaction -> the request about a mark that it is, or NoRequest
          outdated,   \* history: images whose last update was computed from old usages
          overwritten \* history: targets that changed under one who then wrote

vars == <<published, drafts, marks, skipped, tx, asked, outdated, overwritten>>
work == <<drafts, marks, skipped>>
stale == <<outdated, overwritten>>

-----------------------------------------------------------------------------
Generatable == {"MISSING", "GENERATION_FAILED_RETRYABLE"}
Generating == Generatable \cup {"GENERATING"}
Writable == {"GENERATED", "WRITEBACK_FAILED_RETRYABLE"}
Workable == Generating \cup Writable
CandidateStatuses == Workable \cup {"NONE", "NOT_FOUND", "RESOLVED", "WRITTEN",
                                    "SKIPPED_ALREADY_FILLED", "DECORATIVE_SKIPPED"}
Presence == {"NONE", "PRESENT", "NOT_FOUND"}
TargetRows == [present : Presence, empty : BOOLEAN]
Groups == {"PRODUCT_MEDIA", "FILES", "SELF"}
Catalogs == [target : [Targets -> TargetRows],
             usage : [Images -> [Owners -> Presence]],
             candidate : [Targets -> CandidateStatuses],
             groups : [Targets -> SUBSET Groups]]

\* What a full scan, or the media of one product, say of the owners it read
Contents == [job : Owners, owners : SUBSET Owners, media : [Owners -> SUBSET Images],
             covers : SUBSET Covers, allCovers : BOOLEAN, filled : SUBSET Targets]
Idle == [open |-> FALSE]
Opened(content, sees) == [open |-> TRUE, content |-> content, sees |-> sees]

\* A request marks or unmarks a target: the status that follows from what it has read,
\* NONE to leave it, and what it took the target to be if it is going to offer it
Unsure == [present |-> "UNKNOWN", empty |-> TRUE]
Requests == [open : {TRUE}, of : Targets, to : CandidateStatuses, was : TargetRows \cup {Unsure}]
NoRequest == [open |-> FALSE]

Init == /\ published = [target |-> [x \in Targets |-> [present |-> "NONE", empty |-> TRUE]],
                        usage |-> [i \in Images |-> [o \in Owners |-> "NONE"]],
                        candidate |-> [x \in Targets |-> "NONE"],
                        groups |-> [x \in Targets |-> {}]]
        /\ drafts = {} /\ marks = {} /\ skipped = {}
        /\ tx = [w \in Txs |-> Idle] /\ asked = [w \in Txs |-> NoRequest]
        /\ outdated = {} /\ overwritten = {}

-----------------------------------------------------------------------------
\* The candidate and the groups that follow from a target

\* Mutant of NextStatus: the presence of the target is not looked at.
PresentStatus(c, x) ==
  CASE ~c.target[x].empty -> "RESOLVED"
    [] x \in marks -> "DECORATIVE_SKIPPED"
    [] x \in drafts -> "GENERATED"
    [] OTHER -> "MISSING"

NextStatus(c, x) ==
  IF c.target[x].present = "NOT_FOUND" THEN "NOT_FOUND"
  ELSE IF ~c.target[x].empty THEN "RESOLVED"
  ELSE IF x \in marks THEN "DECORATIVE_SKIPPED"
  ELSE IF x \in drafts
       THEN IF c.candidate[x] = "WRITEBACK_FAILED_RETRYABLE" THEN c.candidate[x] ELSE "GENERATED"
  ELSE IF c.candidate[x] = "GENERATION_FAILED_RETRYABLE" THEN c.candidate[x] ELSE "MISSING"

UsedBy(c, x, S) == \E o \in S : c.usage[x][o] = "PRESENT"

\* rebuildTargetProjections: usages decide for an image, the target for a cover.
NextGroups(c, x) ==
  IF x \in Images
  THEN {g \in {"PRODUCT_MEDIA", "FILES"} :
          UsedBy(c, x, IF g = "FILES" THEN {Library} ELSE Products)}
  ELSE IF c.target[x].present = "PRESENT" THEN {"SELF"} ELSE {}

\* Mutant of Recompute: groups are only added to.
RecomputeAdding(c, S) ==
  [c EXCEPT !.candidate = [x \in Targets |-> IF x \in S THEN NextStatus(c, x) ELSE @[x]],
            !.groups = [x \in Targets |-> IF x \in S THEN @[x] \cup NextGroups(c, x) ELSE @[x]]]

Recompute(c, S) ==
  [c EXCEPT !.candidate = [x \in Targets |-> IF x \in S THEN NextStatus(c, x) ELSE @[x]],
            !.groups = [x \in Targets |-> IF x \in S THEN NextGroups(c, x) ELSE @[x]]]

-----------------------------------------------------------------------------
\* The slice of one owner: a product, or the file library

\* The images a transaction finds with the owner, or has found when it looked
Touched(t, o) == t.content.media[o] \cup {i \in Images : t.sees[i][o] # "NONE"}

TouchedBy(t) == UNION {Touched(t, o) : o \in t.content.owners}

\* The usages it writes (and holds the rows of)
Rows(t) == IF t.open
           THEN UNION {Touched(t, o) \X {o} : o \in t.content.owners}
           ELSE {}

\* Of the other usages it knows what was committed when it looked.
View(c, t, i, o) == (IF <<i, o>> \in Rows(t) THEN c.usage ELSE t.sees)[i][o]

\* Mutant of StillUsed: only usages by products count.
UsedByProduct(c, t, i) == \E o \in Products : View(c, t, i, o) = "PRESENT"

\* An image is present while any usage of it is.
StillUsed(c, t, i) == \E o \in Owners : View(c, t, i, o) = "PRESENT"

\* What the owner shows is upserted, what it showed before and does not show now
\* is swept, and the targets of both, their candidates and groups follow.
Converge(c, t, o) ==
  LET media == t.content.media[o]
      touched == Touched(t, o)
      used == [c EXCEPT !.usage = [i \in Images |->
                 IF i \in touched
                 THEN [@[i] EXCEPT ![o] = IF i \in media THEN "PRESENT" ELSE "NOT_FOUND"]
                 ELSE @[i]]]
      found == [used EXCEPT !.target = [x \in Targets |->
                 IF x \in touched
                 THEN [present |-> IF StillUsed(used, t, x) THEN "PRESENT" ELSE "NOT_FOUND",
                       empty |-> IF x \in media THEN x \notin t.content.filled ELSE @[x].empty]
                 ELSE @[x]]]
  IN Recompute(found, touched)

\* Collection and article images, of which some are there and the others are not
\* (any more); the text of an article that is gone is left as it was.
ConvergeCovers(c, covers, there, filled, articles) ==
  Recompute([c EXCEPT !.target = [x \in Targets |->
               IF x \in covers
               THEN [present |-> IF x \in there THEN "PRESENT" ELSE "NOT_FOUND",
                     empty |-> IF x \in articles \ there THEN @[x].empty
                               ELSE x \notin there \cap filled]
               ELSE @[x]]],
            covers)

-----------------------------------------------------------------------------
\* Transactions

\* Images whose target row the transaction has upserted, and so locked
Locked(t) == IF t.open THEN UNION {t.content.media[o] : o \in t.content.owners} ELSE {}

LockedBy(S) == UNION {Locked(tx[v]) : v \in S}

Free(w) == ~tx[w].open /\ ~asked[w].open

\* There is one job of a product at a time, and one scan that is published.
Begin(w, content) ==
  /\ \A v \in Txs : tx[v].open => tx[v].content.job # content.job
  /\ LET t == Opened(content, published.usage)
     IN /\ Locked(t) \cap LockedBy(Txs \ {w}) = {}
        /\ \A v \in Txs : Rows(t) \cap Rows(tx[v]) = {}
        /\ tx' = [tx EXCEPT ![w] = t]
  /\ UNCHANGED <<published, work, asked, stale>>

\* processContinuousScanProductJob: the product's media, read from Shopify
BeginProduct(w) ==
  /\ Free(w)
  /\ \E p \in Products, media \in SUBSET Images : \E filled \in SUBSET media :
       Begin(w, [job |-> p, owners |-> {p}, media |-> [o \in Owners |-> IF o = p THEN media ELSE {}],
                 covers |-> {}, allCovers |-> FALSE, filled |-> filled])

\* publishScanResult: of the products those the scan has images of, the file
\* library if it has any, and all collections or articles, if their task succeeded.
BeginPublish(w) ==
  /\ Free(w)
  /\ \E media \in [Owners -> SUBSET Images], allCovers \in BOOLEAN :
     \E covers \in SUBSET (IF allCovers THEN Covers ELSE {}) :
     \E filled \in SUBSET ((UNION {media[o] : o \in Owners}) \cup covers) :
       Begin(w, [job |-> Library, owners |-> {o \in Owners : media[o] # {}}, media |-> media,
                 covers |-> covers, allCovers |-> allCovers, filled |-> filled])

\* Every owner has its turn; the products come in the order of the rows, files last.
Orders(owners) ==
  {s \in [1 .. Cardinality(owners) -> owners] :
     /\ \A o \in owners : \E k \in DOMAIN s : s[k] = o
     /\ \A k \in DOMAIN s : s[k] = Library => k = Cardinality(owners)}

\* The catalog after the slice of each owner
Slices(c, t, order) ==
  LET after[k \in 0 .. Cardinality(t.content.owners)] ==
        IF k = 0 THEN c ELSE Converge(after[k - 1], t, order[k])
  IN after

ConvergeAll(c, t, order) == Slices(c, t, order)[Cardinality(t.content.owners)]

\* Every cover that is published or was found is brought up to date, an article if it
\* was published ever.
CoversOf(c, content, articles) ==
  IF content.allCovers
  THEN content.covers \cup {x \in Covers : c.target[x].present = "PRESENT"}
                      \cup {x \in articles : c.target[x].present # "NONE"}
  ELSE {}

PublishCovers(c, content, articles) ==
  ConvergeCovers(c, CoversOf(c, content, articles), content.covers, content.filled, articles)

\* The images whose presence it decides from usages another has changed since
Outdated(t) == {i \in TouchedBy(t) :
                  \E o \in Owners : View(published, t, i, o) # published.usage[i][o]}

Commit(w) ==
  /\ tx[w].open
  /\ TouchedBy(tx[w]) \cap LockedBy(Txs \ {w}) = {}
  /\ \E order \in Orders(tx[w].content.owners) :
     \E articles \in SUBSET (IF tx[w].content.allCovers THEN Covers ELSE {}) :
       published' = PublishCovers(ConvergeAll(published, tx[w], order), tx[w].content, articles)
  /\ outdated' = (outdated \ TouchedBy(tx[w])) \cup Outdated(tx[w])
  /\ overwritten' =
       overwritten \ (TouchedBy(tx[w]) \cup CoversOf(published, tx[w].content, {}))
  /\ tx' = [tx EXCEPT ![w] = Idle]
  /\ UNCHANGED <<work, asked>>

\* A transaction throws, or is the victim of a deadlock; the job runs again.
Abort(w) ==
  /\ tx[w].open
  /\ tx' = [tx EXCEPT ![w] = Idle]
  /\ UNCHANGED <<published, work, asked, stale>>

\* processContinuousScanCollectionJob: one target, one upsert.
ConvergeCollection(x) ==
  /\ \E there \in SUBSET {x} : \E filled \in SUBSET there :
       published' = ConvergeCovers(published, {x}, there, filled, {})
  /\ overwritten' = overwritten \ {x}
  /\ UNCHANGED <<work, tx, asked, outdated>>

-----------------------------------------------------------------------------
\* Those who work on the candidates

SetStatus(x, s) == published' = [published EXCEPT !.candidate[x] = s]
SetFilled(x, s) == published' = [published EXCEPT !.candidate[x] = s, !.target[x].empty = FALSE]

\* The start of a generation
StartGeneration(x) ==
  /\ published.candidate[x] \in Generatable
  /\ SetStatus(x, "GENERATING")
  /\ UNCHANGED <<work, tx, asked, stale>>

\* A generation job ends with a draft, with an error, or with an image that has an
\* alt text by now.
Generate(x) ==
  /\ published.candidate[x] \in Generating
  /\ \/ SetStatus(x, "GENERATED") /\ drafts' = drafts \cup {x} /\ UNCHANGED skipped
     \/ SetStatus(x, "GENERATION_FAILED_RETRYABLE") /\ UNCHANGED <<drafts, skipped>>
     \/ SetStatus(x, "SKIPPED_ALREADY_FILLED") /\ skipped' = skipped \cup {x} /\ UNCHANGED drafts
  /\ UNCHANGED <<marks, tx, asked, stale>>

\* That goes into the target by a statement of its own, whatever the candidate is
\* by then.
RecordFilled(x) ==
  /\ x \in skipped \ LockedBy(Txs)
  /\ skipped' = skipped \ {x}
  /\ published' = [published EXCEPT !.target[x].empty = FALSE]
  /\ overwritten' = IF published.candidate[x] = "SKIPPED_ALREADY_FILLED" THEN overwritten
                    ELSE overwritten \cup {x}
  /\ UNCHANGED <<drafts, marks, tx, asked, outdated>>

\* A writeback job ends; when it has written, the candidate may have changed.
Write(x) ==
  /\ \/ published.candidate[x] \in Writable /\ SetStatus(x, "WRITEBACK_FAILED_RETRYABLE")
     \/ /\ x \notin LockedBy(Txs)
        /\ \/ published.candidate[x] \in Writable /\ SetFilled(x, "RESOLVED")
           \/ x \in drafts /\ SetFilled(x, "WRITTEN")
  /\ UNCHANGED <<work, tx, asked, stale>>

DraftExpires(x) ==
  /\ x \in drafts
  /\ drafts' = drafts \ {x}
  /\ UNCHANGED <<published, marks, skipped, tx, asked, stale>>

-----------------------------------------------------------------------------
\* The decorative marks

\* getCandidateForUpdate, which locks nothing: of what the review list shows.  A request
\* that throws is one that was not made.
Ask(w, x, to) ==
  /\ Free(w)
  /\ published.groups[x] # {}
  /\ asked' = [asked EXCEPT ![w] =
       [open |-> TRUE, of |-> x, to |-> to,
        was |-> IF to \in Workable /\ x \notin outdated THEN published.target[x] ELSE Unsure]]
  /\ UNCHANGED <<published, work, tx, stale>>

\* assertCanMark
Mark(w, x) ==
  /\ \/ published.candidate[x] = "DECORATIVE_SKIPPED"
     \/ published.target[x].empty /\ published.candidate[x] \in Workable \ {"GENERATING"}
  /\ Ask(w, x, "DECORATIVE_SKIPPED")

\* restoreStatusAfterUnmark, of a candidate that is marked
Unmark(w, x) ==
  Ask(w, x,
      IF x \notin marks /\ published.candidate[x] # "DECORATIVE_SKIPPED" THEN "NONE"
      ELSE IF ~published.target[x].empty THEN "RESOLVED"
      ELSE IF x \in drafts THEN "GENERATED"
      ELSE IF published.candidate[x] = "GENERATION_FAILED_RETRYABLE"
           THEN published.candidate[x] ELSE "MISSING")

\* The mark and the candidate are written, whatever they are by then.
Decide(w) ==
  LET q == asked[w]
  IN  /\ q.open
      /\ marks' = IF q.to = "DECORATIVE_SKIPPED" THEN marks \cup {q.of} ELSE marks \ {q.of}
      /\ IF q.to = "NONE" THEN UNCHANGED published ELSE SetStatus(q.of, q.to)
      /\ overwritten' = IF q.to \in Workable /\ published.target[q.of] # q.was
                        THEN overwritten \cup {q.of} ELSE overwritten
      /\ asked' = [asked EXCEPT ![w] = NoRequest]
      /\ UNCHANGED <<drafts, skipped, tx, outdated>>

Next == \/ \E w \in Txs : BeginProduct(w) \/ BeginPublish(w) \/ Commit(w) \/ Abort(w)
        \/ \E x \in Covers : ConvergeCollection(x)
        \/ \E x \in Targets : \/ StartGeneration(x) \/ Generate(x) \/ RecordFilled(x) \/ Write(x)
                              \/ DraftExpires(x)
        \/ \E w \in Txs : Decide(w) \/ \E x \in Targets : Mark(w, x) \/ Unmark(w, x)

Spec == Init /\ [][Next]_vars
-----------------------------------------------------------------------------
\* Properties

TypeOK == /\ published \in Catalogs
          /\ drafts \subseteq Targets /\ marks \subseteq Targets /\ skipped \subseteq Targets
          /\ \A w \in Txs : tx[w].open => tx[w].content \in Contents
          /\ asked \in [Txs -> Requests \cup {NoRequest}]
          /\ outdated \subseteq Images /\ overwritten \subseteq Targets
          /\ \A x \in Targets : published.candidate[x] = "NONE"
                               <=> published.target[x].present = "NONE"

\* The usages decide whether an image exists: its target is present exactly when
\* some usage is, whichever slices were published, swept or converged - unless
\* the last transaction on it worked with usages another had replaced.
PresentIffUsed ==
  \A i \in Images \ outdated :
    (published.target[i].present = "PRESENT") <=> UsedBy(published, i, Owners)

\* Nothing is offered for generation or writeback that is gone or has an alt text:
\* scans, jobs and marks that change a candidate leave it in step with its target - but
\* for a target that changed between the reading and the writing of an unmark (or was in
\* doubt when it read), and one that a generation job records as filled when its candidate
\* has moved on.
WorkableIsThere ==
  \A x \in Targets \ overwritten : published.candidate[x] \in Workable =>
    published.target[x].present = "PRESENT" /\ published.target[x].empty

\* The review list shows an image as a product's exactly while a product uses it,
\* and as a file while the library does, whatever ran at the same time.
GroupsFollowUsages ==
  \A i \in Images : published.groups[i] = NextGroups(published, i)
=============================================================================
