--------------------------- MODULE AppPagesProofs ---------------------------
(***************************************************************************)
(* What the pages of the app show, for every set of batches, jobs and      *)
(* texts and every bound: the end of a scan (ScanInv), a generation and    *)
(* its batch (CandidatesInv), and the text of a draft (DraftsInv).  Each   *)
(* of the three pages keeps its own invariant, and the others' by leaving  *)
(* their variables alone.                                                  *)
(***************************************************************************)
EXTENDS AppPages, FiniteSetTheorems, TLAPS

-----------------------------------------------------------------------------
\* The progress of a scan.  The row leaves RUNNING once and for all, so that what
\* was true when a phase was stored, sent or served remains so.

\* A phase tells no more than the row r.
Tells(p, r) == (p = "done" => r = "SUCCESS") /\ (p = "failed" => r # "RUNNING")

\* ... and so does an answer.
TellsRow(a, r) == Tells(a.phase, r) /\ (a.row \in {"SUCCESS", "FAILED"} => a.row = r)

\* The scan's side ...
StoredInv ==
  /\ scanRow \in {"RUNNING", "SUCCESS", "FAILED"}
  /\ publish # "none" => scanRow = "SUCCESS"
  /\ scanHash \in Scan!Phases /\ owed \in Scan!Phases
  /\ Tells(scanHash, scanRow) /\ Tells(owed, scanRow)

\* ... and what the page has of it, or will
SeenInv ==
  /\ Tells(scanShown, scanRow) /\ TellsRow(list, scanRow) /\ TellsRow(answer, scanRow)
  /\ scanWire \in Seq(Scan!Phases \cup {"unknown", "close"})
  /\ \A i \in 1 .. Len(scanWire) : Tells(scanWire[i], scanRow)

ScanInv == StoredInv /\ SeenInv

\* How the row of a scan may change
RowKept == scanRow' = scanRow \/ scanRow = "RUNNING"

LEMMA ScanInit == Init => ScanInv
<1>1. SUFFICES ASSUME Init PROVE ScanInv
  OBVIOUS
<1>2. StoredInv
  BY <1>1 DEF Init, Scan!Init, StoredInv, Tells, Scan!Phases
<1>3. scanWire = <<>> /\ Len(scanWire) = 0
  BY <1>1 DEF Init, Scan!Init
<1>4. SeenInv
  BY <1>1, <1>3 DEF Init, Scan!Init, SeenInv, Tells, TellsRow, Scan!Phases, Scan!NoAnswer
<1>5. QED
  BY <1>2, <1>4 DEF ScanInv

\* What a phase or an answer told, it still tells.
LEMMA TellsKept ==
  ASSUME RowKept, scanRow \in {"RUNNING", "SUCCESS", "FAILED"}
  PROVE /\ \A p : Tells(p, scanRow) => Tells(p, scanRow')
        /\ \A a : TellsRow(a, scanRow) => TellsRow(a, scanRow')
BY DEF RowKept, Tells, TellsRow

\* A step of the scan's side leaves the page's alone.
LEMMA SeenKept ==
  ASSUME ScanInv, RowKept, UNCHANGED <<scanShown, list, answer, scanWire>>
  PROVE SeenInv'
<1>1. scanRow \in {"RUNNING", "SUCCESS", "FAILED"}
  BY DEF ScanInv, StoredInv
<1>2. QED
  BY <1>1, TellsKept DEF ScanInv, SeenInv

LEMMA ScanStepKeeps ==
  ASSUME ScanInv, Scan!ScanStep
  PROVE ScanInv'
<1>1. /\ Tells(scanHash, scanRow) /\ Tells(owed, scanRow)
      /\ scanRow \in {"RUNNING", "SUCCESS", "FAILED"}
      /\ (publish # "none" => scanRow = "SUCCESS")
      /\ scanHash \in Scan!Phases /\ owed \in Scan!Phases
  BY DEF ScanInv, StoredInv
<1>2. RowKept
  BY DEF Scan!ScanStep, RowKept, Scan!Begin, Scan!StorePhase, Scan!Finish, Scan!StoreEnd,
         Scan!PublishBegins, Scan!PublishEnds, Scan!Sweep, Scan!KeyLost
<1>3. UNCHANGED <<scanShown, list, answer, scanWire>>
  BY DEF Scan!ScanStep, Scan!Begin, Scan!StorePhase, Scan!Finish, Scan!StoreEnd,
         Scan!PublishBegins, Scan!PublishEnds, Scan!Sweep, Scan!KeyLost, Scan!link, Scan!query
<1>4. SeenInv'
  BY <1>2, <1>3, SeenKept
<1>5. StoredInv'
  <2>1. CASE Scan!Begin
    BY <2>1, <1>1 DEF Scan!Begin, StoredInv, Tells, Scan!Phases
  <2>2. CASE Scan!StorePhase
    BY <2>2, <1>1 DEF Scan!StorePhase, StoredInv, Tells, Scan!Phases
  <2>3. CASE Scan!Finish
    BY <2>3, <1>1 DEF Scan!Finish, StoredInv, Tells, Scan!Phases
  <2>4. CASE Scan!StoreEnd
    BY <2>4, <1>1 DEF Scan!StoreEnd, StoredInv, Tells, Scan!Phases
  <2>5. CASE Scan!PublishBegins
    BY <2>5, <1>1 DEF Scan!PublishBegins, StoredInv, Tells, Scan!Phases
  <2>6. CASE Scan!PublishEnds
    BY <2>6, <1>1 DEF Scan!PublishEnds, StoredInv, Tells, Scan!Phases
  <2>7. CASE Scan!Sweep
    BY <2>7, <1>1 DEF Scan!Sweep, StoredInv, Tells, Scan!Phases
  <2>8. CASE Scan!KeyLost
    BY <2>8, <1>1 DEF Scan!KeyLost, StoredInv, Tells, Scan!Phases
  <2>9. QED
    BY <2>1, <2>2, <2>3, <2>4, <2>5, <2>6, <2>7, <2>8 DEF Scan!ScanStep
<1>6. QED
  BY <1>4, <1>5 DEF ScanInv

\* Requests for the list: what is served is what the row and the hash are then.
LEMMA AsksKeep ==
  ASSUME ScanInv,
         Scan!Poll \/ Scan!FinalRefresh \/ Scan!StopAnswered \/ Scan!FetchFails
           \/ Scan!Serve \/ Scan!Answer
  PROVE ScanInv'
<1>1. Scan!NoAnswer.phase = "none" /\ Scan!NoAnswer.row = "NONE"
  BY DEF Scan!NoAnswer
<1>2. TellsRow(Scan!NoAnswer, scanRow)
  BY <1>1 DEF TellsRow, Tells
<1>3. UNCHANGED <<scanRow, publish, scanHash, owed, scanShown, scanWire>>
  BY DEF Scan!Poll, Scan!FinalRefresh, Scan!StopAnswered, Scan!FetchFails, Scan!Serve,
         Scan!Answer, Scan!scan, Scan!link
<1>4. list' \in {list, answer} /\ answer' \in {answer, Scan!NoAnswer,
                                   [row |-> scanRow, begun |-> begun, phase |-> scanHash]}
  BY DEF Scan!Poll, Scan!FinalRefresh, Scan!StopAnswered, Scan!FetchFails, Scan!Serve,
         Scan!Answer, Scan!Ask
<1>5. TellsRow([row |-> scanRow, begun |-> begun, phase |-> scanHash], scanRow)
  BY DEF ScanInv, StoredInv, TellsRow
<1>6. TellsRow(list', scanRow) /\ TellsRow(answer', scanRow)
  BY <1>2, <1>4, <1>5 DEF ScanInv, SeenInv
<1>7. QED
  BY <1>3, <1>6 DEF ScanInv, StoredInv, SeenInv

\* Nothing but the stream moves, and what is on its way to the page comes from the
\* hash or tells nothing.
LEMMA StreamKeeps ==
  ASSUME ScanInv,
         Scan!Open \/ Scan!Reconnect \/ Scan!Breaks \/ Scan!PollHash \/ Scan!Handle
  PROVE ScanInv'
<1> DEFINE Events == Scan!Phases \cup {"unknown", "close"}
<1>1. UNCHANGED <<scanRow, publish, scanHash, owed, list, answer>>
  BY DEF Scan!Open, Scan!Reconnect, Scan!Breaks, Scan!PollHash, Scan!Handle, Scan!scan,
         Scan!query
<1>2. scanWire \in Seq(Events) /\ \A i \in 1 .. Len(scanWire) : Tells(scanWire[i], scanRow)
  BY DEF ScanInv, SeenInv
<1>3. /\ scanWire' \in Seq(Events) /\ \A i \in 1 .. Len(scanWire') : Tells(scanWire'[i], scanRow)
      /\ Tells(scanShown', scanRow)
  <2>1. CASE UNCHANGED <<scanShown, scanWire>>
    BY <2>1, <1>2 DEF ScanInv, SeenInv
  <2>2. CASE scanWire' = <<>> /\ scanShown' = scanShown
    <3>1. Len(scanWire') = 0 /\ scanWire' \in Seq(Events)
      BY <2>2
    <3>2. QED
      BY <2>2, <3>1 DEF ScanInv, SeenInv
  <2>3. CASE Scan!PollHash
    <3>1. PICK p : /\ p \in Events /\ Tells(p, scanRow)
                   /\ scanWire' = <<p>> \/ scanWire' = <<p, "close">>
      <4> DEFINE p == IF scanHash = "none" THEN "unknown" ELSE scanHash
      <4>1. p \in Events /\ Tells(p, scanRow)
        BY DEF ScanInv, StoredInv, Tells
      <4>2. scanWire' = <<p>> \/ scanWire' = <<p, "close">>
        BY <2>3 DEF Scan!PollHash
      <4>3. QED
        BY <4>1, <4>2
    <3>2. Tells("close", scanRow)
      BY DEF Tells
    <3>3. scanShown' = scanShown
      BY <2>3 DEF Scan!PollHash
    <3>4. scanWire' \in Seq(Events)
      BY <3>1
    <3>5. \A i \in 1 .. Len(scanWire') : Tells(scanWire'[i], scanRow)
      BY <3>1, <3>2
    <3>6. QED
      BY <3>3, <3>4, <3>5 DEF ScanInv, SeenInv
  <2>4. CASE Scan!Handle
    <3>1. scanWire # <<>>
      BY <2>4 DEF Scan!Handle
    <3>2. Len(scanWire) \in Nat /\ Len(scanWire) > 0
      BY <3>1, <1>2
    <3>3. Tells(Head(scanWire), scanRow)
      BY <3>1, <3>2, <1>2
    <3>4. scanShown' \in {scanShown, Head(scanWire)}
      BY <2>4 DEF Scan!Handle
    <3>5. scanWire' = <<>> \/ scanWire' = Tail(scanWire)
      BY <2>4 DEF Scan!Handle
    <3>6. /\ Tail(scanWire) \in Seq(Events)
          /\ \A i \in 1 .. Len(Tail(scanWire)) : Tail(scanWire)[i] = scanWire[i + 1]
          /\ Len(Tail(scanWire)) = Len(scanWire) - 1
      BY <3>1, <1>2
    <3>7. \A i \in 1 .. Len(Tail(scanWire)) : Tells(Tail(scanWire)[i], scanRow)
      BY <3>2, <3>6, <1>2
    <3>8. CASE scanWire' = <<>>
      <4>1. Len(scanWire') = 0 /\ scanWire' \in Seq(Events)
        BY <3>8
      <4>2. QED
        BY <4>1, <3>3, <3>4 DEF ScanInv, SeenInv
    <3>9. QED
      BY <3>3, <3>4, <3>5, <3>6, <3>7, <3>8 DEF ScanInv, SeenInv
  <2>5. QED
    BY <2>1, <2>2, <2>3, <2>4 DEF Scan!Open, Scan!Reconnect, Scan!Breaks
<1>4. StoredInv'
  BY <1>1 DEF ScanInv, StoredInv
<1>5. SeenInv'
  BY <1>1, <1>3 DEF ScanInv, SeenInv
<1>6. QED
  BY <1>4, <1>5 DEF ScanInv

\* The merchant stops a scan that has not begun: its row is RUNNING then.
LEMMA StopKeeps ==
  ASSUME ScanInv, Scan!Stop \/ Scan!StopServed
  PROVE ScanInv'
<1>1. UNCHANGED <<scanShown, list, answer, scanWire, publish, scanHash>>
  BY DEF Scan!Stop, Scan!StopServed, Scan!scan, Scan!link, Scan!query
<1>2. \/ UNCHANGED <<scanRow, owed>>
      \/ scanRow = "RUNNING" /\ scanRow' = "FAILED" /\ owed' = "failed"
  BY DEF Scan!Stop, Scan!StopServed, Scan!scan
<1>3. RowKept
  BY <1>2 DEF RowKept
<1>4. SeenInv'
  BY <1>1, <1>3, SeenKept
<1>5. StoredInv'
  BY <1>1, <1>2 DEF ScanInv, StoredInv, Tells, Scan!Phases
<1>6. QED
  BY <1>4, <1>5 DEF ScanInv

LEMMA ScanFrame ==
  ASSUME ScanInv, UNCHANGED scanVars
  PROVE ScanInv'
BY DEF scanVars, ScanInv, StoredInv, SeenInv

LEMMA ScanNext ==
  ASSUME ScanInv, [Next]_vars
  PROVE ScanInv'
<1>1. CASE UNCHANGED scanVars
  BY <1>1, ScanFrame
<1>2. CASE Scan!Next
  BY <1>2, ScanStepKeeps, AsksKeep, StreamKeeps, StopKeeps DEF Scan!Next, Scan!PageStep
<1>3. QED
  BY <1>1, <1>2 DEF Next, vars

\* What is stored, on its way or shown of a scan's end is its end.
THEOREM ScanInvariant == Spec => []ScanInv
<1>1. Init => ScanInv
  BY ScanInit
<1>2. ScanInv /\ [Next]_vars => ScanInv'
  BY ScanNext
<1>3. QED
  BY <1>1, <1>2, PTL DEF Spec

LEMMA ScanEndIsReal == ScanInv => Scan!ShownEndIsReal
BY DEF ScanInv, SeenInv, TellsRow, Tells, Scan!ShownEndIsReal, Scan!IsTerminal,
       Scan!HasError, Scan!Phase, Scan!TerminalPhase

-----------------------------------------------------------------------------
\* A generation and its batch.  A batch counts each of its jobs once, so that it is
\* over once, and what was read or stored of its end is its end from then on.

Counted(b) == {j \in Jobs : job[b][j] \notin {"absent", "generating"}}

Over(b) == generationRow[b].status \in Candidates!Terminal

JobSteps == {"absent", "generating", "reading", "publishing", "over"}

GenerationTypes ==
  /\ generationRow \in [Batches -> Candidates!Rows]
  /\ generationHash \in [Batches -> Candidates!Rows]
  /\ job \in [Batches -> [Jobs -> JobSteps]]
  /\ read \in [Batches -> [Jobs -> Candidates!Rows]]
  /\ starting \in [Batches -> {"no", "sent", "made", "answered"}]
  /\ asked \in [Batches -> Nat]
  /\ chosen \in Batches \cup {None} /\ started \in Batches \cup {None}

\* A batch that is over has counted all its jobs; what the hash and the jobs have
\* read of its end is its end.
BatchFits(b) ==
  /\ starting[b] \in {"no", "sent"} =>
       generationRow[b].status = "NONE" /\ \A j \in Jobs : job[b][j] = "absent"
  /\ generationRow[b].done = Cardinality(Counted(b))
  /\ Over(b) => Counted(b) = Jobs
  /\ generationHash[b].status \in Candidates!Terminal => generationHash[b] = generationRow[b]
  /\ \A j \in Jobs : read[b][j].status \in Candidates!Terminal => read[b][j] = generationRow[b]

\* The page hears of the batch it follows only, and only while it follows one.
StreamFits ==
  /\ phase \in {"GENERATING", "SUMMARY"} => started \in Batches
  /\ phase # "GENERATING" => conn = "off" /\ stream = "none" /\ wire = <<>>
  /\ \/ wire = <<>> \/ wire = <<Candidates!Close>>
     \/ Over(started) /\ wire = <<Candidates!Completed(generationRow[started]), Candidates!Close>>
  /\ phase = "SUMMARY" => summary = generationRow[started] /\ Over(started)

\* One preflight, then one start, of what was chosen last
FlowFits ==
  /\ \A b \in Batches :
       /\ asked[b] > 0 => phase = "PREFLIGHT_LOADING" /\ chosen = b /\ asked[b] = 1
       /\ starting[b] \in {"sent", "made"} => phase = "STARTING" /\ chosen = b
  /\ phase = "CONFIRMING" => preflight = chosen
  /\ phase = "GENERATING" => started = chosen

CandidatesInv ==
  /\ GenerationTypes /\ StreamFits
  /\ \A b \in Batches : BatchFits(b)
  /\ ~preflightsOverlapped => FlowFits

\* No step changes the row of a batch that is over.
OversKept == \A b \in Batches : Over(b) => generationRow'[b] = generationRow[b]

LEMMA JobsFact == IsFiniteSet(Jobs) /\ Jobs # {} /\ None \notin Batches
BY AppPagesAssumption

LEMMA CountedFact ==
  \A b : /\ IsFiniteSet(Counted(b)) /\ Cardinality(Counted(b)) \in Nat
         /\ Cardinality(Counted(b)) <= Cardinality(Jobs)
         /\ Cardinality(Counted(b)) = Cardinality(Jobs) <=> Counted(b) = Jobs
<1>1. SUFFICES ASSUME NEW b
               PROVE /\ IsFiniteSet(Counted(b)) /\ Cardinality(Counted(b)) \in Nat
                     /\ Cardinality(Counted(b)) <= Cardinality(Jobs)
                     /\ Cardinality(Counted(b)) = Cardinality(Jobs) <=> Counted(b) = Jobs
  OBVIOUS
<1>2. Counted(b) \in SUBSET Jobs
  BY DEF Counted
<1>3. QED
  BY <1>2, JobsFact, FS_Subset, FS_CardinalityType

\* The pages count as this module does.
LEMMA SameCardinality == \A S : Candidates!Cardinality(S) = Cardinality(S)
BY DEF Candidates!Cardinality, Cardinality

LEMMA NoRow == /\ Candidates!Row("NONE", 0) \in Candidates!Rows
               /\ Candidates!Row("NONE", 0).status \notin Candidates!Terminal
               /\ Candidates!Row("NONE", 0).status = "NONE" /\ Candidates!Row("NONE", 0).done = 0
<1>1. Cardinality(Jobs) \in Nat
  BY JobsFact, FS_CardinalityType
<1>2. QED
  BY <1>1, SameCardinality DEF Candidates!Row, Candidates!Rows, Candidates!Terminal

LEMMA CandidatesInit == Init => CandidatesInv
<1>1. SUFFICES ASSUME Init PROVE CandidatesInv
  OBVIOUS
<1>2. Candidates!Init
  BY <1>1 DEF Init
<1>3. GenerationTypes
  BY <1>2, NoRow DEF Candidates!Init, GenerationTypes, JobSteps
<1>4. StreamFits
  BY <1>2 DEF Candidates!Init, StreamFits
<1>5. ASSUME NEW b \in Batches PROVE BatchFits(b)
  <2>1. /\ generationRow[b] = Candidates!Row("NONE", 0)
        /\ generationHash[b] = Candidates!Row("NONE", 0)
        /\ \A j \in Jobs : job[b][j] = "absent" /\ read[b][j] = Candidates!Row("NONE", 0)
    BY <1>2 DEF Candidates!Init
  <2>2. Counted(b) = {}
    BY <2>1 DEF Counted
  <2>3. Cardinality(Counted(b)) = 0
    BY <2>2, FS_EmptySet
  <2>4. QED
    BY <2>1, <2>3, NoRow DEF BatchFits, Over
<1>6. FlowFits
  BY <1>2 DEF Candidates!Init, FlowFits
<1>7. QED
  BY <1>3, <1>4, <1>5, <1>6 DEF CandidatesInv

-----------------------------------------------------------------------------
\* Steps of the page and of its requests, which leave the batch's jobs alone

\* A batch fits as it did, where no request but one not served is taken back.
LEMMA BatchesFrame ==
  ASSUME CandidatesInv, UNCHANGED <<generationRow, generationHash, job, read>>,
         \A b \in Batches : starting'[b] \in {"no", "sent"} => starting[b] \in {"no", "sent"}
  PROVE (\A b \in Batches : BatchFits(b))' /\ OversKept
<1>1. ASSUME NEW b \in Batches PROVE BatchFits(b)'
  <2>1. BatchFits(b) /\ Counted(b)' = Counted(b) /\ Over(b)' = Over(b)
    BY DEF CandidatesInv, Counted, Over
  <2>2. QED
    BY <2>1 DEF BatchFits
<1>2. OversKept
  BY DEF OversKept
<1>3. QED
  BY <1>1, <1>2

\* What the page shows and hears still fits a batch that is over.
LEMMA StreamFrame ==
  ASSUME CandidatesInv, OversKept, UNCHANGED <<phase, started, summary, conn, stream, wire>>
  PROVE StreamFits'
<1>1. CASE Over(started)
  <2>1. StreamFits
    BY DEF CandidatesInv
  <2>2. CASE started \in Batches
    <3>1. generationRow'[started] = generationRow[started] /\ Over(started)'
      BY <1>1, <2>2 DEF OversKept, Over
    <3>2. QED
      BY <1>1, <2>1, <3>1 DEF StreamFits
  <2>3. CASE started \notin Batches
    <3>1. wire = <<>> /\ phase \notin {"GENERATING", "SUMMARY"}
      BY <2>1, <2>3 DEF StreamFits
    <3>2. QED
      BY <2>1, <3>1 DEF StreamFits
  <2>4. QED
    BY <2>2, <2>3
<1>2. CASE ~Over(started)
  BY <1>2 DEF CandidatesInv, StreamFits
<1>3. QED
  BY <1>1, <1>2

\* The flow goes on, but not to the summary: a batch that is not followed any more
\* is not heard of.
LEMMA FlowStream ==
  ASSUME CandidatesInv, NEW p \in Candidates!Phases, p # "SUMMARY",
         NEW b \in Batches \cup {None}, p = "GENERATING" => b \in Batches,
         Candidates!FlowTo(p, b), generationRow' = generationRow
  PROVE StreamFits'
<1>1. phase' = p /\ started' = b
  BY DEF Candidates!FlowTo
<1>2. StreamFits /\ None \notin Batches
  BY JobsFact DEF CandidatesInv
<1>3. CASE /\ Candidates!Followed(p, b) = Candidates!Followed(phase, started)
           /\ UNCHANGED <<conn, stream, wire>>
  <2>1. CASE p = "GENERATING"
    <3>1. phase = "GENERATING" /\ started = b
      BY <1>2, <1>3, <2>1 DEF Candidates!Followed
    <3>2. QED
      BY <1>1, <1>2, <1>3, <2>1, <3>1 DEF StreamFits, Over
  <2>2. CASE p # "GENERATING"
    <3>1. phase # "GENERATING"
      BY <1>2, <1>3, <2>2 DEF Candidates!Followed, StreamFits
    <3>2. QED
      BY <1>1, <1>2, <1>3, <2>2, <3>1 DEF StreamFits
  <2>3. QED
    BY <2>1, <2>2
<1>4. CASE /\ conn' = IF Candidates!Followed(p, b) = None THEN "off" ELSE "opening"
           /\ stream' = "none" /\ wire' = <<>>
  BY <1>1, <1>4 DEF StreamFits, Candidates!Followed
<1>5. QED
  BY <1>3, <1>4 DEF Candidates!FlowTo, Candidates!link

\* The stream opens, breaks and is opened again; only its snapshot has an end to tell,
\* which is the hash's.
LEMMA StreamStepsKeep ==
  ASSUME CandidatesInv,
         Candidates!Open \/ Candidates!Reconnect \/ Candidates!Subscribe
           \/ Candidates!OpenFails \/ Candidates!Breaks \/ Candidates!StreamFails
  PROVE CandidatesInv'
<1>1. UNCHANGED <<generationRow, generationHash, job, read, phase, chosen, asked, preflight,
                  starting, started, summary, preflightsOverlapped>>
  BY DEF Candidates!Open, Candidates!Reconnect, Candidates!Subscribe, Candidates!OpenFails,
         Candidates!Breaks, Candidates!StreamFails, Candidates!rows, Candidates!requests
<1>2. GenerationTypes' /\ (~preflightsOverlapped => FlowFits)'
  BY <1>1 DEF CandidatesInv, GenerationTypes, FlowFits
<1>3. (\A b \in Batches : BatchFits(b))'
  BY <1>1, BatchesFrame
<1>4. StreamFits
  BY DEF CandidatesInv
<1>5. phase = "GENERATING" /\ started \in Batches
  <2>1. conn # "off" \/ stream # "none"
    BY DEF Candidates!Open, Candidates!Reconnect, Candidates!Subscribe, Candidates!OpenFails,
           Candidates!Breaks, Candidates!StreamFails
  <2>2. QED
    BY <2>1, <1>4 DEF StreamFits
<1>6. \/ wire' \in {wire, <<>>, <<Candidates!Close>>}
      \/ /\ generationHash[started].status \in Candidates!Terminal
         /\ wire' = <<Candidates!Completed(generationHash[started]), Candidates!Close>>
  BY DEF Candidates!Open, Candidates!Reconnect, Candidates!Subscribe, Candidates!OpenFails,
         Candidates!Breaks, Candidates!StreamFails
<1>7. generationHash[started].status \in Candidates!Terminal =>
        generationHash[started] = generationRow[started] /\ Over(started)
  BY <1>5 DEF CandidatesInv, BatchFits, Over
<1>8. Over(started)' = Over(started)
  BY <1>1 DEF Over
<1>9. \/ wire' = <<>> \/ wire' = <<Candidates!Close>>
      \/ /\ Over(started)
         /\ wire' = <<Candidates!Completed(generationRow[started]), Candidates!Close>>
  BY <1>4, <1>6, <1>7 DEF StreamFits
<1>10. StreamFits'
  BY <1>1, <1>5, <1>8, <1>9 DEF StreamFits
<1>11. QED
  BY <1>2, <1>3, <1>10 DEF CandidatesInv

\* The completed event is of the batch that is followed, and has its end.
LEMMA HandleKeeps ==
  ASSUME CandidatesInv, Candidates!Handle
  PROVE CandidatesInv'
<1>1. UNCHANGED <<generationRow, generationHash, job, read, chosen, asked, preflight, starting,
                  preflightsOverlapped>>
  BY DEF Candidates!Handle, Candidates!rows, Candidates!requests
<1>2. started' = started
  BY DEF Candidates!Handle, Candidates!FlowTo
<1>3. (\A b \in Batches : BatchFits(b))'
  BY <1>1, BatchesFrame
<1>4. StreamFits /\ None \notin Batches
  BY JobsFact DEF CandidatesInv
<1>5. phase = "GENERATING" /\ started \in Batches
  BY <1>4 DEF Candidates!Handle, StreamFits
<1>6. Over(started)' = Over(started)
  BY <1>1, <1>2 DEF Over
<1>7. CASE Head(wire).event = "generation_completed" /\ summary' = Head(wire).data
           /\ Candidates!FlowTo("SUMMARY", started)
  <2>1. wire = <<Candidates!Completed(generationRow[started]), Candidates!Close>> /\ Over(started)
    <3>1. wire # <<Candidates!Close>>
      BY <1>7 DEF Candidates!Close
    <3>2. QED
      BY <1>4, <3>1 DEF StreamFits, Candidates!Handle
  <2>2. summary' = generationRow[started]
    BY <2>1, <1>7 DEF Candidates!Completed
  <2>3. phase' = "SUMMARY" /\ conn' = "off" /\ stream' = "none" /\ wire' = <<>>
    BY <1>5, <1>4, <1>7 DEF Candidates!FlowTo, Candidates!Followed
  <2>4. StreamFits'
    BY <1>1, <1>2, <1>5, <1>6, <2>1, <2>2, <2>3 DEF StreamFits
  <2>5. (~preflightsOverlapped => FlowFits)'
    BY <1>1, <1>5, <2>3 DEF CandidatesInv, FlowFits
  <2>6. QED
    BY <1>1, <1>2, <1>3, <2>4, <2>5 DEF CandidatesInv, GenerationTypes
<1>8. CASE wire' = <<>> /\ UNCHANGED <<phase, started, summary, stream>>
  <2>1. StreamFits'
    BY <1>5, <1>8 DEF StreamFits
  <2>2. (~preflightsOverlapped => FlowFits)'
    BY <1>1, <1>8 DEF CandidatesInv, FlowFits
  <2>3. QED
    BY <1>1, <1>2, <1>3, <2>1, <2>2 DEF CandidatesInv, GenerationTypes
<1>9. QED
  BY <1>7, <1>8 DEF Candidates!Handle

\* A batch is asked about, confirmed and started once the flow has left the one before.
LEMMA GenerateKeeps ==
  ASSUME CandidatesInv, NEW b \in Batches, Candidates!Generate(b)
  PROVE CandidatesInv'
<1>1. UNCHANGED <<generationRow, generationHash, job, read, starting>>
  BY DEF Candidates!Generate, Candidates!rows
<1>2. phase' = "PREFLIGHT_LOADING" /\ started' = started /\ chosen' = b
  BY DEF Candidates!Generate, Candidates!FlowTo
<1>3. (\A a \in Batches : BatchFits(a))'
  BY <1>1, BatchesFrame
<1>4. StreamFits'
  BY <1>1, FlowStream DEF Candidates!Generate, Candidates!Phases, CandidatesInv, GenerationTypes
<1>5. asked' = [asked EXCEPT ![b] = asked[b] + 1] /\ asked \in [Batches -> Nat]
  BY DEF Candidates!Generate, CandidatesInv, GenerationTypes
<1>6. GenerationTypes'
  BY <1>1, <1>2, <1>5 DEF CandidatesInv, GenerationTypes
<1>7. ASSUME ~preflightsOverlapped' PROVE FlowFits'
  <2>1. FlowFits /\ \A a \in Batches : ~(asked[a] > 0)
    BY <1>7 DEF CandidatesInv, Candidates!Generate
  <2>2. \A a \in Batches : asked'[a] = IF a = b THEN 1 ELSE 0
    BY <1>5, <2>1
  <2>3. \A a \in Batches : starting'[a] \notin {"sent", "made"}
    BY <1>1, <2>1 DEF FlowFits, Candidates!Generate, Candidates!Clickable
  <2>4. QED
    BY <1>2, <2>2, <2>3 DEF FlowFits
<1>8. QED
  BY <1>3, <1>4, <1>6, <1>7 DEF CandidatesInv

LEMMA PreflightKeeps ==
  ASSUME CandidatesInv, NEW b \in Batches,
         Candidates!Preflight(b) \/ Candidates!PreflightFails(b)
  PROVE CandidatesInv'
<1>1. UNCHANGED <<generationRow, generationHash, job, read, starting, chosen,
                  preflightsOverlapped>>
  BY DEF Candidates!Preflight, Candidates!PreflightFails, Candidates!rows
<1>2. PICK p \in {"CONFIRMING", "IDLE"} :
        Candidates!FlowTo(p, started) /\ (p = "CONFIRMING" => preflight' = b)
  BY DEF Candidates!Preflight, Candidates!PreflightFails
<1>3. phase' = p /\ started' = started
  BY <1>2 DEF Candidates!FlowTo
<1>4. (\A a \in Batches : BatchFits(a))'
  BY <1>1, BatchesFrame
<1>5. StreamFits'
  BY <1>1, <1>2, FlowStream DEF Candidates!Phases, CandidatesInv, GenerationTypes
<1>6. asked[b] > 0 /\ asked' = [asked EXCEPT ![b] = asked[b] - 1] /\ asked \in [Batches -> Nat]
  BY DEF Candidates!Preflight, Candidates!PreflightFails, CandidatesInv, GenerationTypes
<1>7. GenerationTypes'
  BY <1>1, <1>3, <1>6 DEF CandidatesInv, GenerationTypes
<1>8. ASSUME ~preflightsOverlapped' PROVE FlowFits'
  <2>1. FlowFits
    BY <1>1, <1>8 DEF CandidatesInv
  <2>2. phase = "PREFLIGHT_LOADING" /\ chosen = b
    BY <1>6, <2>1 DEF FlowFits
  <2>3. \A a \in Batches : ~(asked'[a] > 0)
    BY <1>6, <2>1, <2>2 DEF FlowFits
  <2>4. \A a \in Batches : starting'[a] \notin {"sent", "made"}
    BY <1>1, <2>1, <2>2 DEF FlowFits
  <2>5. QED
    BY <1>1, <1>2, <1>3, <2>2, <2>3, <2>4 DEF FlowFits
<1>9. QED
  BY <1>4, <1>5, <1>7, <1>8 DEF CandidatesInv

\* What is confirmed is what the preflight was of, and what was chosen last.
LEMMA DialogKeeps ==
  ASSUME CandidatesInv, Candidates!Cancel \/ Candidates!Confirm
  PROVE CandidatesInv'
<1>1. UNCHANGED <<generationRow, generationHash, job, read, chosen, asked, preflightsOverlapped>>
  BY DEF Candidates!Cancel, Candidates!Confirm, Candidates!rows
<1>2. phase = "CONFIRMING"
  BY DEF Candidates!Cancel, Candidates!Confirm
<1>3. \/ /\ Candidates!FlowTo("IDLE", started) /\ starting' = starting
      \/ /\ Candidates!FlowTo("STARTING", started)
         /\ chosen # None /\ starting[chosen] = "no"
         /\ starting' = [starting EXCEPT ![chosen] = "sent"]
  BY DEF Candidates!Cancel, Candidates!Confirm
<1>4. PICK p \in {"IDLE", "STARTING"} : Candidates!FlowTo(p, started)
  BY <1>3
<1>5. phase' = p /\ started' = started
  BY <1>4 DEF Candidates!FlowTo
<1>6. StreamFits'
  BY <1>1, <1>4, FlowStream DEF Candidates!Phases, CandidatesInv, GenerationTypes
<1>7. starting \in [Batches -> {"no", "sent", "made", "answered"}] /\ chosen \in Batches \cup {None}
  BY DEF CandidatesInv, GenerationTypes
<1>8. GenerationTypes'
  BY <1>1, <1>3, <1>5, <1>7 DEF CandidatesInv, GenerationTypes
<1>9. \A b \in Batches : starting'[b] \in {"no", "sent"} => starting[b] \in {"no", "sent"}
  BY <1>3, <1>7
<1>10. (\A b \in Batches : BatchFits(b))'
  BY <1>1, <1>9, BatchesFrame
<1>11. ASSUME ~preflightsOverlapped' PROVE FlowFits'
  <2>1. FlowFits
    BY <1>1, <1>11 DEF CandidatesInv
  <2>2. \A a \in Batches : ~(asked'[a] > 0) /\ starting[a] \notin {"sent", "made"}
    BY <1>1, <1>2, <2>1 DEF FlowFits
  <2>3. CASE Candidates!FlowTo("IDLE", started) /\ starting' = starting
    <3>1. phase' = "IDLE"
      BY <2>3 DEF Candidates!FlowTo
    <3>2. QED
      BY <2>2, <2>3, <3>1 DEF FlowFits
  <2>4. CASE Candidates!FlowTo("STARTING", started)
             /\ starting' = [starting EXCEPT ![chosen] = "sent"]
    <3>1. phase' = "STARTING"
      BY <2>4 DEF Candidates!FlowTo
    <3>2. \A a \in Batches : starting'[a] \in {"sent", "made"} => a = chosen
      BY <1>7, <2>2, <2>4
    <3>3. QED
      BY <1>1, <2>2, <3>1, <3>2 DEF FlowFits
  <2>5. QED
    BY <1>3, <2>3, <2>4
<1>12. QED
  BY <1>6, <1>8, <1>10, <1>11 DEF CandidatesInv

\* The start is of the batch that was chosen, and the flow follows that one.
LEMMA StartAnswersKeep ==
  ASSUME CandidatesInv, NEW b \in Batches, Candidates!Started(b) \/ Candidates!Refused(b)
  PROVE CandidatesInv'
<1>1. UNCHANGED <<generationRow, generationHash, job, read, chosen, asked, preflight,
                  preflightsOverlapped>>
  BY DEF Candidates!Started, Candidates!Refused, Candidates!rows
<1>2. starting[b] \in {"sent", "made"}
  BY DEF Candidates!Started, Candidates!Refused
<1>3. \/ /\ Candidates!FlowTo("IDLE", started)
         /\ starting' = [starting EXCEPT ![b] = "no"] /\ starting[b] = "sent"
      \/ /\ Candidates!FlowTo("GENERATING", b)
         /\ starting' = [starting EXCEPT ![b] = "answered"]
  BY DEF Candidates!Started, Candidates!Refused
<1>4. \/ phase' = "IDLE" /\ started' = started
      \/ phase' = "GENERATING" /\ started' = b
  BY <1>3 DEF Candidates!FlowTo
<1>5. /\ starting \in [Batches -> {"no", "sent", "made", "answered"}]
      /\ started \in Batches \cup {None}
  BY DEF CandidatesInv, GenerationTypes
<1>6. StreamFits'
  BY <1>1, <1>3, <1>5, FlowStream DEF Candidates!Phases
<1>7. GenerationTypes'
  BY <1>1, <1>3, <1>4, <1>5 DEF CandidatesInv, GenerationTypes
<1>8. \A a \in Batches : starting'[a] \in {"no", "sent"} => starting[a] \in {"no", "sent"}
  BY <1>3, <1>5
<1>9. (\A a \in Batches : BatchFits(a))'
  BY <1>1, <1>8, BatchesFrame
<1>10. ASSUME ~preflightsOverlapped' PROVE FlowFits'
  <2>1. FlowFits
    BY <1>1, <1>10 DEF CandidatesInv
  <2>2. phase = "STARTING" /\ chosen = b
    BY <1>2, <2>1 DEF FlowFits
  <2>3. \A a \in Batches : ~(asked'[a] > 0)
    BY <1>1, <2>1, <2>2 DEF FlowFits
  <2>4. \A a \in Batches : starting'[a] \notin {"sent", "made"}
    BY <1>3, <1>5, <2>1, <2>2 DEF FlowFits
  <2>5. QED
    BY <1>1, <1>4, <2>2, <2>3, <2>4 DEF FlowFits
<1>11. QED
  BY <1>6, <1>7, <1>9, <1>10 DEF CandidatesInv

LEMMA CloseSummaryKeeps ==
  ASSUME CandidatesInv, Candidates!CloseSummary
  PROVE CandidatesInv'
<1>1. UNCHANGED <<generationRow, generationHash, job, read, asked, starting,
                  preflightsOverlapped>>
  BY DEF Candidates!CloseSummary, Candidates!rows
<1>2. Candidates!FlowTo("IDLE", None) /\ phase = "SUMMARY" /\ chosen' = None
  BY DEF Candidates!CloseSummary
<1>3. phase' = "IDLE" /\ started' = None
  BY <1>2 DEF Candidates!FlowTo
<1>4. StreamFits'
  BY <1>1, <1>2, FlowStream DEF Candidates!Phases
<1>5. GenerationTypes'
  BY <1>1, <1>2, <1>3 DEF CandidatesInv, GenerationTypes
<1>6. (\A a \in Batches : BatchFits(a))'
  BY <1>1, BatchesFrame
<1>7. (~preflightsOverlapped => FlowFits)'
  BY <1>1, <1>2, <1>3 DEF CandidatesInv, FlowFits
<1>8. QED
  BY <1>4, <1>5, <1>6, <1>7 DEF CandidatesInv

-----------------------------------------------------------------------------
\* Steps of the workers and of the server, which leave the flow alone

\* The batches that a step is not about fit as they did.
LEMMA OtherBatch ==
  ASSUME CandidatesInv, NEW a \in Batches,
         generationRow'[a] = generationRow[a], generationHash'[a] = generationHash[a],
         job'[a] = job[a], read'[a] = read[a], starting'[a] = starting[a]
  PROVE BatchFits(a)'
<1>1. BatchFits(a) /\ Counted(a)' = Counted(a) /\ Over(a)' = Over(a)
  BY DEF CandidatesInv, Counted, Over
<1>2. QED
  BY <1>1 DEF BatchFits

\* What is known of the batch and of a job of it
LEMMA OfBatch ==
  ASSUME CandidatesInv, NEW b \in Batches
  PROVE /\ BatchFits(b)
        /\ generationRow[b] \in Candidates!Rows /\ generationHash[b] \in Candidates!Rows
        /\ job[b] \in [Jobs -> JobSteps] /\ read[b] \in [Jobs -> Candidates!Rows]
BY DEF CandidatesInv, GenerationTypes

\* The last job to be counted ends the batch, which has no end before.
LEMMA CountKeeps ==
  ASSUME CandidatesInv, NEW b \in Batches, NEW j \in Jobs, Candidates!Count(b, j)
  PROVE CandidatesInv'
<1> DEFINE n == generationRow[b].done + 1
<1>1. UNCHANGED <<generationHash, read, phase, chosen, asked, preflight, starting, started,
                  summary, conn, stream, wire, preflightsOverlapped>>
  BY DEF Candidates!Count, Candidates!requests, Candidates!link
<1>2. BatchFits(b) /\ generationRow[b] \in Candidates!Rows /\ job[b] \in [Jobs -> JobSteps]
  BY OfBatch
<1>3. job[b][j] = "generating" /\ job' = [job EXCEPT ![b][j] = "reading"]
  BY DEF Candidates!Count
<1>4. PICK s \in Candidates!FinalStatuses(n) :
        generationRow' = [generationRow EXCEPT ![b] = Candidates!Row(s, n)]
  BY DEF Candidates!Count
<1>5. GenerationTypes
  BY DEF CandidatesInv
<1>6. job'[b] = [job[b] EXCEPT ![j] = "reading"] /\ \A a \in Batches \ {b} : job'[a] = job[a]
  BY <1>3, <1>5 DEF GenerationTypes
<1>7. /\ generationRow'[b] = Candidates!Row(s, n)
      /\ \A a \in Batches \ {b} : generationRow'[a] = generationRow[a]
  BY <1>4, <1>5 DEF GenerationTypes
<1>8. Counted(b)' = Counted(b) \cup {j} /\ j \notin Counted(b)
  BY <1>2, <1>3, <1>6 DEF Counted
<1>9. Cardinality(Counted(b)') = n /\ n \in Nat
  <2>1. IsFiniteSet(Counted(b)) /\ Cardinality(Counted(b)) \in Nat
    BY CountedFact
  <2>2. Cardinality(Counted(b) \cup {j}) = Cardinality(Counted(b)) + 1
    BY <1>8, <2>1, FS_AddElement
  <2>3. generationRow[b].done = Cardinality(Counted(b))
    BY <1>2 DEF BatchFits
  <2>4. QED
    BY <1>8, <2>1, <2>2, <2>3
<1>10. Counted(b)' \in SUBSET Jobs
  BY DEF Counted
<1>11. n <= Cardinality(Jobs) /\ (n = Cardinality(Jobs) <=> Counted(b)' = Jobs)
       /\ Cardinality(Jobs) \in Nat
  BY <1>9, <1>10, JobsFact, FS_Subset, FS_CardinalityType
<1>12. /\ s \in {"IN_PROGRESS"} \cup Candidates!Terminal
       /\ s \in Candidates!Terminal => n = Cardinality(Jobs)
  BY <1>9, <1>11, SameCardinality DEF Candidates!FinalStatuses, Candidates!Terminal
<1>13. Candidates!Row(s, n) \in Candidates!Rows
  BY <1>9, <1>11, <1>12, SameCardinality DEF Candidates!Row, Candidates!Rows
<1>14. ~Over(b)
  BY <1>2, <1>8 DEF BatchFits
<1>15. starting[b] \notin {"no", "sent"}
  BY <1>2, <1>3 DEF BatchFits
<1>16. BatchFits(b)'
  <2>1. Over(b)' => Counted(b)' = Jobs
    BY <1>7, <1>11, <1>12 DEF Over, Candidates!Row
  <2>2. generationRow'[b].done = Cardinality(Counted(b)')
    BY <1>7, <1>9 DEF Candidates!Row
  <2>3. /\ generationHash[b].status \notin Candidates!Terminal
        /\ \A k \in Jobs : read[b][k].status \notin Candidates!Terminal
    BY <1>2, <1>14 DEF BatchFits, Over
  <2>4. QED
    BY <1>1, <1>15, <2>1, <2>2, <2>3 DEF BatchFits
<1>17. (\A a \in Batches : BatchFits(a))'
  BY <1>1, <1>6, <1>7, <1>16, OtherBatch
<1>18. OversKept
  BY <1>7, <1>14 DEF OversKept
<1>19. StreamFits'
  BY <1>1, <1>18, StreamFrame
<1>20. (~preflightsOverlapped => FlowFits)'
  BY <1>1 DEF CandidatesInv, FlowFits
<1>21. GenerationTypes'
  <2>1. generationRow' \in [Batches -> Candidates!Rows]
    BY <1>4, <1>5, <1>13 DEF GenerationTypes
  <2>2. job' \in [Batches -> [Jobs -> JobSteps]]
    BY <1>3, <1>5 DEF GenerationTypes, JobSteps
  <2>3. QED
    BY <1>1, <1>5, <2>1, <2>2 DEF GenerationTypes
<1>22. QED
  BY <1>17, <1>19, <1>20, <1>21 DEF CandidatesInv

\* A job reads the row, or runs again: nothing is counted.
LEMMA ReadKeeps ==
  ASSUME CandidatesInv, NEW b \in Batches, NEW j \in Jobs,
         Candidates!Read(b, j) \/ Candidates!JobRunsAgain(b, j)
  PROVE CandidatesInv'
<1>1. UNCHANGED <<generationRow, generationHash, phase, chosen, asked, preflight, starting,
                  started, summary, conn, stream, wire, preflightsOverlapped>>
  BY DEF Candidates!Read, Candidates!JobRunsAgain, Candidates!requests, Candidates!link
<1>2. BatchFits(b) /\ generationRow[b] \in Candidates!Rows /\ job[b] \in [Jobs -> JobSteps]
      /\ read[b] \in [Jobs -> Candidates!Rows]
  BY OfBatch
<1>3. PICK s \in {"reading", "publishing"} :
        job[b][j] \in {"reading", "publishing"} /\ job' = [job EXCEPT ![b][j] = s]
  BY DEF Candidates!Read, Candidates!JobRunsAgain
<1>4. read' = read \/ read' = [read EXCEPT ![b][j] = generationRow[b]]
  BY DEF Candidates!Read, Candidates!JobRunsAgain
<1>5. GenerationTypes
  BY DEF CandidatesInv
<1>6. job'[b] = [job[b] EXCEPT ![j] = s] /\ \A a \in Batches \ {b} : job'[a] = job[a]
  BY <1>3, <1>5 DEF GenerationTypes
<1>7. /\ read'[b] = read[b] \/ read'[b] = [read[b] EXCEPT ![j] = generationRow[b]]
      /\ \A a \in Batches \ {b} : read'[a] = read[a]
  BY <1>4, <1>5 DEF GenerationTypes
<1>8. Counted(b)' = Counted(b) /\ Over(b)' = Over(b)
  BY <1>1, <1>2, <1>3, <1>6 DEF Counted, Over
<1>9. starting[b] \notin {"no", "sent"}
  BY <1>2, <1>3 DEF BatchFits
<1>10. \A k \in Jobs : read'[b][k].status \in Candidates!Terminal => read'[b][k] = generationRow[b]
  BY <1>2, <1>7 DEF BatchFits
<1>11. BatchFits(b)'
  BY <1>1, <1>2, <1>8, <1>9, <1>10 DEF BatchFits
<1>12. (\A a \in Batches : BatchFits(a))'
  BY <1>1, <1>6, <1>7, <1>11, OtherBatch
<1>13. StreamFits'
  BY <1>1, StreamFrame DEF OversKept
<1>14. (~preflightsOverlapped => FlowFits)'
  BY <1>1 DEF CandidatesInv, FlowFits
<1>15. job' \in [Batches -> [Jobs -> JobSteps]] /\ read' \in [Batches -> [Jobs -> Candidates!Rows]]
  <2>1. job' \in [Batches -> [Jobs -> JobSteps]]
    BY <1>3, <1>5 DEF GenerationTypes, JobSteps
  <2>2. read' \in [Batches -> [Jobs -> Candidates!Rows]]
    <3>1. CASE read' = read
      BY <3>1, <1>5 DEF GenerationTypes
    <3>2. CASE read' = [read EXCEPT ![b][j] = generationRow[b]]
      <4>1. [read[b] EXCEPT ![j] = generationRow[b]] \in [Jobs -> Candidates!Rows]
        BY <1>2
      <4>2. read' = [read EXCEPT ![b] = [read[b] EXCEPT ![j] = generationRow[b]]]
        BY <3>2
      <4>3. QED
        BY <1>5, <4>1, <4>2 DEF GenerationTypes
    <3>3. QED
      BY <1>4, <3>1, <3>2
  <2>3. QED
    BY <2>1, <2>2
<1>16. GenerationTypes'
  BY <1>1, <1>5, <1>15 DEF GenerationTypes
<1>17. QED
  BY <1>12, <1>13, <1>14, <1>16 DEF CandidatesInv

\* What is published of an end is the end, and the page hears it of its batch only.
LEMMA PublishKeeps ==
  ASSUME CandidatesInv, NEW b \in Batches, NEW j \in Jobs, Candidates!Publish(b, j)
  PROVE CandidatesInv'
<1> DEFINE r == read[b][j]
<1>1. UNCHANGED <<generationRow, phase, chosen, asked, preflight, starting, started, summary,
                  conn, preflightsOverlapped>>
  BY DEF Candidates!Publish, Candidates!requests
<1>2. BatchFits(b) /\ generationRow[b] \in Candidates!Rows /\ job[b] \in [Jobs -> JobSteps]
      /\ read[b] \in [Jobs -> Candidates!Rows]
  BY OfBatch
<1>3. /\ job[b][j] = "publishing" /\ job' = [job EXCEPT ![b][j] = "over"]
      /\ generationHash' = [generationHash EXCEPT ![b] = r]
      /\ read' = [read EXCEPT ![b][j] = Candidates!Row("NONE", 0)]
  BY DEF Candidates!Publish
<1>4. \/ UNCHANGED <<wire, stream>>
      \/ /\ r.status \in Candidates!Terminal /\ Candidates!Followed(phase, started) = b
         /\ wire' = <<Candidates!Completed(r), Candidates!Close>> /\ stream' = "none"
  BY DEF Candidates!Publish
<1>5. GenerationTypes
  BY DEF CandidatesInv
<1>6. job'[b] = [job[b] EXCEPT ![j] = "over"] /\ \A a \in Batches \ {b} : job'[a] = job[a]
  BY <1>3, <1>5 DEF GenerationTypes
<1>7. /\ read'[b] = [read[b] EXCEPT ![j] = Candidates!Row("NONE", 0)]
      /\ \A a \in Batches \ {b} : read'[a] = read[a]
  BY <1>3, <1>5 DEF GenerationTypes
<1>8. generationHash'[b] = r /\ \A a \in Batches \ {b} : generationHash'[a] = generationHash[a]
  BY <1>3, <1>5 DEF GenerationTypes
<1>9. Counted(b)' = Counted(b) /\ Over(b)' = Over(b)
  BY <1>1, <1>2, <1>3, <1>6 DEF Counted, Over
<1>10. starting[b] \notin {"no", "sent"}
  BY <1>2, <1>3 DEF BatchFits
<1>11. r.status \in Candidates!Terminal => r = generationRow[b] /\ Over(b)
  BY <1>2 DEF BatchFits, Over
<1>12. \A k \in Jobs : read'[b][k].status \in Candidates!Terminal => read'[b][k] = generationRow[b]
  BY <1>2, <1>7, NoRow DEF BatchFits
<1>13. BatchFits(b)'
  BY <1>1, <1>2, <1>8, <1>9, <1>10, <1>11, <1>12 DEF BatchFits
<1>14. (\A a \in Batches : BatchFits(a))'
  BY <1>1, <1>6, <1>7, <1>8, <1>13, OtherBatch
<1>15. StreamFits'
  <2>1. CASE UNCHANGED <<wire, stream>>
    BY <2>1, <1>1, StreamFrame DEF OversKept
  <2>2. CASE /\ r.status \in Candidates!Terminal /\ Candidates!Followed(phase, started) = b
             /\ wire' = <<Candidates!Completed(r), Candidates!Close>> /\ stream' = "none"
    <3>1. phase = "GENERATING" /\ started = b
      BY <2>2, JobsFact DEF Candidates!Followed
    <3>2. r = generationRow[b] /\ Over(b)
      BY <2>2, <1>11
    <3>3. QED
      BY <1>1, <1>9, <2>2, <3>1, <3>2 DEF StreamFits, Over
  <2>3. QED
    BY <1>4, <2>1, <2>2
<1>16. (~preflightsOverlapped => FlowFits)'
  BY <1>1 DEF CandidatesInv, FlowFits
<1>17. GenerationTypes'
  <2>1. job' \in [Batches -> [Jobs -> JobSteps]]
    BY <1>3, <1>5 DEF GenerationTypes, JobSteps
  <2>2. read' \in [Batches -> [Jobs -> Candidates!Rows]]
    BY <1>3, <1>5, NoRow DEF GenerationTypes
  <2>3. generationHash' \in [Batches -> Candidates!Rows]
    BY <1>2, <1>3, <1>5 DEF GenerationTypes
  <2>4. QED
    BY <1>1, <1>5, <2>1, <2>2, <2>3 DEF GenerationTypes
<1>18. QED
  BY <1>14, <1>15, <1>16, <1>17 DEF CandidatesInv

\* The server starts a batch that has no row yet.
LEMMA StartKeeps ==
  ASSUME CandidatesInv, NEW b \in Batches, Candidates!Start(b)
  PROVE CandidatesInv'
<1>1. UNCHANGED <<read, phase, chosen, asked, preflight, started, summary, conn, stream, wire,
                  preflightsOverlapped>>
  BY DEF Candidates!Start, Candidates!link
<1>2. BatchFits(b) /\ generationRow[b] \in Candidates!Rows /\ read[b] \in [Jobs -> Candidates!Rows]
  BY OfBatch
<1>3. /\ starting[b] = "sent" /\ starting' = [starting EXCEPT ![b] = "made"]
      /\ generationRow' = [generationRow EXCEPT ![b] = Candidates!Row("IN_PROGRESS", 0)]
      /\ generationHash' = [generationHash EXCEPT ![b] = Candidates!Row("RUNNING", 0)]
      /\ job' = [job EXCEPT ![b] = [j \in Jobs |-> "generating"]]
  BY DEF Candidates!Start
<1>4. GenerationTypes
  BY DEF CandidatesInv
<1>5. Cardinality(Jobs) \in Nat
  BY JobsFact, FS_CardinalityType
<1>6. /\ Candidates!Row("IN_PROGRESS", 0) \in Candidates!Rows
      /\ Candidates!Row("IN_PROGRESS", 0).status \notin Candidates!Terminal
      /\ Candidates!Row("IN_PROGRESS", 0).done = 0
      /\ Candidates!Row("RUNNING", 0) \in Candidates!Rows
      /\ Candidates!Row("RUNNING", 0).status \notin Candidates!Terminal
  BY <1>5, SameCardinality DEF Candidates!Row, Candidates!Rows, Candidates!Terminal
<1>7. /\ generationRow'[b] = Candidates!Row("IN_PROGRESS", 0)
      /\ generationHash'[b] = Candidates!Row("RUNNING", 0)
      /\ job'[b] = [j \in Jobs |-> "generating"] /\ starting'[b] = "made"
  BY <1>3, <1>4 DEF GenerationTypes
<1>8. \A a \in Batches \ {b} :
        /\ generationRow'[a] = generationRow[a] /\ generationHash'[a] = generationHash[a]
        /\ job'[a] = job[a] /\ starting'[a] = starting[a]
  BY <1>3, <1>4 DEF GenerationTypes
<1>9. ~Over(b)
  BY <1>2, <1>3 DEF BatchFits, Over, Candidates!Terminal
<1>10. BatchFits(b)'
  <2>1. Counted(b)' = {}
    BY <1>7 DEF Counted
  <2>2. Cardinality(Counted(b)') = 0
    BY <2>1, FS_EmptySet
  <2>3. \A k \in Jobs : read[b][k].status \notin Candidates!Terminal
    BY <1>2, <1>9 DEF BatchFits, Over
  <2>4. QED
    BY <1>1, <1>6, <1>7, <2>2, <2>3 DEF BatchFits, Over
<1>11. (\A a \in Batches : BatchFits(a))'
  BY <1>1, <1>8, <1>10, OtherBatch
<1>12. OversKept
  BY <1>8, <1>9 DEF OversKept
<1>13. StreamFits'
  BY <1>1, <1>12, StreamFrame
<1>14. (~preflightsOverlapped => FlowFits)'
  <2>1. \A a \in Batches : starting'[a] \in {"sent", "made"} => starting[a] \in {"sent", "made"}
    BY <1>3, <1>8
  <2>2. QED
    BY <1>1, <2>1 DEF CandidatesInv, FlowFits
<1>15. GenerationTypes'
  <2>1. job' \in [Batches -> [Jobs -> JobSteps]]
    BY <1>3, <1>4 DEF GenerationTypes, JobSteps
  <2>2. QED
    BY <1>1, <1>3, <1>4, <1>6, <2>1 DEF GenerationTypes
<1>16. QED
  BY <1>11, <1>13, <1>14, <1>15 DEF CandidatesInv

LEMMA CandidatesFrame ==
  ASSUME CandidatesInv, UNCHANGED generationVars
  PROVE CandidatesInv'
<1>1. UNCHANGED <<generationRow, generationHash, job, read, phase, chosen, asked, preflight,
                  starting, started, summary, conn, stream, wire, preflightsOverlapped>>
  BY DEF generationVars
<1>2. (\A b \in Batches : BatchFits(b))'
  BY <1>1, OtherBatch
<1>3. QED
  BY <1>1, <1>2 DEF CandidatesInv, GenerationTypes, StreamFits, FlowFits, Over

LEMMA CandidatesNext ==
  ASSUME CandidatesInv, [Next]_vars
  PROVE CandidatesInv'
<1>1. CASE UNCHANGED generationVars
  BY <1>1, CandidatesFrame
<1>2. CASE Candidates!Next
  <2>1. CASE Candidates!StreamStep \/ Candidates!OpenFails \/ Candidates!Breaks
             \/ Candidates!StreamFails \/ Candidates!Cancel \/ Candidates!Confirm
             \/ Candidates!CloseSummary
    BY <2>1, StreamStepsKeep, HandleKeeps, DialogKeeps, CloseSummaryKeeps
    DEF Candidates!StreamStep
  <2>2. ASSUME NEW b \in Batches,
               \/ Candidates!Generate(b) \/ Candidates!Answer(b) \/ Candidates!PreflightFails(b)
        PROVE CandidatesInv'
    BY <2>2, GenerateKeeps, PreflightKeeps, StartKeeps, StartAnswersKeep DEF Candidates!Answer
  <2>3. ASSUME NEW b \in Batches, NEW j \in Jobs,
               Candidates!JobStep(b, j) \/ Candidates!JobRunsAgain(b, j)
        PROVE CandidatesInv'
    BY <2>3, CountKeeps, ReadKeeps, PublishKeeps DEF Candidates!JobStep
  <2>4. QED
    BY <1>2, <2>1, <2>2, <2>3 DEF Candidates!Next
<1>3. QED
  BY <1>1, <1>2 DEF Next, vars

\* A batch is over once, what is stored, read, on its way or shown of its end is its
\* end, and the flow starts what the merchant confirmed unless preflights overlapped.
THEOREM CandidatesInvariant == Spec => []CandidatesInv
<1>1. Init => CandidatesInv
  BY CandidatesInit
<1>2. CandidatesInv /\ [Next]_vars => CandidatesInv'
  BY CandidatesNext
<1>3. QED
  BY <1>1, <1>2, PTL DEF Spec

LEMMA FlowIsFollowed == CandidatesInv => FlowFollowsBatch
<1>1. SUFFICES ASSUME CandidatesInv PROVE FlowFollowsBatch
  OBVIOUS
<1>2. Candidates!SummaryIsFinal
  BY <1>1, JobsFact DEF CandidatesInv, StreamFits, Over, Candidates!SummaryIsFinal
<1>3. Candidates!ConfirmedIsStarted
  <2>1. SUFFICES ASSUME ~preflightsOverlapped
                 PROVE /\ phase = "CONFIRMING" => preflight = chosen
                       /\ phase = "GENERATING" => started = chosen
                       /\ phase \in {"STARTING", "GENERATING"} => \A b \in Batches : asked[b] = 0
    BY DEF Candidates!ConfirmedIsStarted
  <2>2. FlowFits /\ asked \in [Batches -> Nat]
    BY <1>1, <2>1 DEF CandidatesInv, GenerationTypes
  <2>3. QED
    BY <2>2 DEF FlowFits
<1>4. QED
  BY <1>2, <1>3 DEF FlowFollowsBatch

\* The summary is the final state of the batch that was started last, and what is
\* generated is what the merchant confirmed, for all the batches and jobs there are.
THEOREM FlowFollowsItsBatch == Spec => []FlowFollowsBatch
BY CandidatesInvariant, FlowIsFollowed, PTL

-----------------------------------------------------------------------------
\* The text and the mark of a draft.  As long as no answer may have overtaken another,
\* each change that the page shows too soon has the one request that explains it.

Saves == [step : {"none", "sent", "saved", "refused"}, to : Texts \cup {None},
          from : Texts \cup {None, Generated}]

Toggles == [id : Nat, to : BOOLEAN, step : {"sent", "made", "refused"}]

\* The page shows the draft, or the edit on its way, which it can take back.
SaveFits ==
  /\ save \in Saves /\ edited \in Texts \cup {None} /\ shown \in Texts \cup {Generated}
  /\ save.step = "none" => save = Drafts!NoSave /\ shown = Drafts!DisplayText(edited)
  /\ save.step \in {"sent", "refused"} =>
       shown = save.to /\ save.from = Drafts!DisplayText(edited)
  /\ save.step = "saved" => shown = save.to /\ edited = save.to
  /\ save.step # "none" => save.to \in Texts

\* ... and the mark, or the one toggle on its way.
ToggleFits ==
  /\ marked \in BOOLEAN /\ decorative \in BOOLEAN
  /\ \/ toggles = {} /\ decorative = marked
     \/ \E t \in Toggles :
          /\ toggles = {t} /\ decorative = t.to
          /\ t.step = "made" => marked = t.to
          /\ t.step # "made" => marked = ~t.to

\* A list is loaded when nothing else is under way, and has what the server has.
ReloadFits ==
  \/ reload = Drafts!NoList
  \/ /\ save = Drafts!NoSave /\ toggles = {}
     /\ \/ reload = [step |-> "sent", text |-> None, marked |-> FALSE]
        \/ reload = [step |-> "served", text |-> Drafts!DisplayText(edited), marked |-> marked]

\* Until a batch is made, what the merchant confirmed is the draft: the dialog covers
\* the page, and no edit was on its way.
PromiseFits(b) ==
  /\ writeback[b] = "none" => writes[b] = None /\ promised[b] = None
  /\ writeback[b] = "asked" =>
       /\ confirming = b /\ writes[b] = None
       /\ promised[b] # None =>
            save = Drafts!NoSave /\ promised[b] = Drafts!DisplayText(edited)
  /\ promised[b] # None /\ writes[b] # None => writes[b] = promised[b]

WritebackTypes ==
  /\ writeback \in [Batches -> {"none", "asked", "refused", "RUNNING", "over"}]
  /\ DOMAIN writes = Batches /\ DOMAIN promised = Batches
  /\ acts \in Nat

DraftsFit == SaveFits /\ ToggleFits /\ ReloadFits /\ \A b \in Batches : PromiseFits(b)

DraftsInv == WritebackTypes /\ (~savesOverlapped => DraftsFit)

LEMMA TextsFact ==
  None \notin Batches /\ None \notin Texts /\ Generated \notin Texts /\ Generated # None
BY AppPagesAssumption

LEMMA DraftsInit == Init => DraftsInv
<1>1. SUFFICES ASSUME Init PROVE DraftsInv
  OBVIOUS
<1>2. Drafts!Init
  BY <1>1 DEF Init
<1>3. SaveFits
  BY <1>2, TextsFact DEF Drafts!Init, SaveFits, Saves, Drafts!NoSave, Drafts!DisplayText
<1>4. ToggleFits /\ ReloadFits
  BY <1>2 DEF Drafts!Init, ToggleFits, ReloadFits
<1>5. \A b \in Batches : PromiseFits(b)
  BY <1>2 DEF Drafts!Init, PromiseFits
<1>6. WritebackTypes
  BY <1>2 DEF Drafts!Init, WritebackTypes
<1>7. QED
  BY <1>3, <1>4, <1>5, <1>6 DEF DraftsInv, DraftsFit

\* Nothing is asked to be written while the merchant may act.
LEMMA NothingAsked ==
  ASSUME DraftsFit, confirming = None
  PROVE \A b \in Batches : writeback[b] # "asked"
BY TextsFact DEF DraftsFit, PromiseFits

\* A batch that has been asked for keeps its promise as long as the draft is as it
\* was; so does one that has not, or that is past.
LEMMA PromisesFrame ==
  ASSUME \A b \in Batches : PromiseFits(b),
         UNCHANGED <<writeback, writes, promised, confirming>>,
         \/ \A b \in Batches : writeback[b] # "asked"
         \/ edited' = edited /\ (save = Drafts!NoSave => save' = Drafts!NoSave)
         \/ save # Drafts!NoSave
  PROVE (\A b \in Batches : PromiseFits(b))'
<1>1. SUFFICES ASSUME NEW b \in Batches PROVE PromiseFits(b)'
  OBVIOUS
<1>2. PromiseFits(b)
  OBVIOUS
<1>3. Drafts!DisplayText(edited)' = Drafts!DisplayText(edited) \/ edited' # edited
  BY DEF Drafts!DisplayText
<1>4. QED
  BY <1>2, <1>3 DEF PromiseFits, Drafts!NoSave

\* The steps of an edit
LEMMA EditKeeps ==
  ASSUME DraftsFit, NEW text \in Texts, Drafts!Edit(text), ~savesOverlapped'
  PROVE DraftsFit'
<1>1. UNCHANGED <<edited, marked, decorative, toggles, reload, writeback, writes, promised,
                  confirming>>
  BY DEF Drafts!Edit, Drafts!draft, Drafts!work
<1>2. /\ save = Drafts!NoSave /\ reload = Drafts!NoList /\ confirming = None
      /\ save' = [step |-> "sent", to |-> text, from |-> shown] /\ shown' = text
  BY DEF Drafts!Edit, Drafts!Act
<1>3. save.step = "none"
  BY <1>2 DEF Drafts!NoSave
<1>4. SaveFits'
  BY <1>1, <1>2, <1>3, TextsFact DEF DraftsFit, SaveFits, Saves, Drafts!DisplayText
<1>5. ToggleFits' /\ ReloadFits'
  BY <1>1, <1>2 DEF DraftsFit, ToggleFits, ReloadFits
<1>6. (\A b \in Batches : PromiseFits(b))'
  BY <1>1, <1>2, NothingAsked, PromisesFrame DEF DraftsFit
<1>7. QED
  BY <1>4, <1>5, <1>6 DEF DraftsFit

LEMMA SaveIs ==
  ASSUME NEW s \in {"none", "sent", "saved", "refused"}, NEW to \in Texts \cup {None},
         NEW from \in Texts \cup {None, Generated},
         NEW u, u = [step |-> s, to |-> to, from |-> from]
  PROVE u \in Saves /\ u.step = s /\ u.to = to /\ u.from = from
BY DEF Saves

LEMMA SaveStepsKeep ==
  ASSUME DraftsFit, Drafts!SaveServed \/ Drafts!SaveAnswered \/ Drafts!SaveFails,
         ~savesOverlapped'
  PROVE DraftsFit'
<1>1. UNCHANGED <<marked, decorative, toggles, reload, writeback, writes, promised, confirming>>
  BY DEF Drafts!SaveServed, Drafts!SaveAnswered, Drafts!SaveFails, Drafts!draft, Drafts!work
<1>2. PICK s \in {"none", "sent", "saved", "refused"}, to \in Texts \cup {None},
           from \in Texts \cup {None, Generated} :
        save = [step |-> s, to |-> to, from |-> from]
  BY DEF DraftsFit, SaveFits, Saves
<1>3. s \in {"sent", "saved", "refused"}
  BY <1>2 DEF Drafts!SaveServed, Drafts!SaveAnswered, Drafts!SaveFails
<1>4. save # Drafts!NoSave /\ to \in Texts
  BY <1>2, <1>3 DEF Drafts!NoSave, DraftsFit, SaveFits
<1>5. reload = Drafts!NoList
  BY <1>4 DEF DraftsFit, ReloadFits
<1>6. ToggleFits' /\ ReloadFits'
  BY <1>1, <1>5 DEF DraftsFit, ToggleFits, ReloadFits
<1>7. (\A b \in Batches : PromiseFits(b))'
  BY <1>1, <1>4, PromisesFrame DEF DraftsFit
<1>8. SaveFits'
  <2>1. CASE Drafts!SaveServed /\ edited' = to /\ save' = [save EXCEPT !.step = "saved"]
    <3>1. save' = [step |-> "saved", to |-> to, from |-> from] /\ s = "sent" /\ shown' = shown
      BY <2>1, <1>2 DEF Drafts!SaveServed
    <3>2. shown = to
      BY <1>2, <3>1 DEF DraftsFit, SaveFits
    <3>3. save' \in Saves /\ save'.step = "saved" /\ save'.to = to /\ save'.from = from
      BY <3>1, SaveIs
    <3>4. QED
      BY <1>4, <2>1, <3>1, <3>2, <3>3 DEF SaveFits
  <2>2. CASE Drafts!SaveServed /\ edited' = edited /\ save' = [save EXCEPT !.step = "refused"]
    <3>1. save' = [step |-> "refused", to |-> to, from |-> from] /\ s = "sent" /\ shown' = shown
      BY <2>2, <1>2 DEF Drafts!SaveServed
    <3>2. shown = to /\ from = Drafts!DisplayText(edited) /\ edited \in Texts \cup {None}
      BY <1>2, <3>1 DEF DraftsFit, SaveFits
    <3>3. save' \in Saves /\ save'.step = "refused" /\ save'.to = to /\ save'.from = from
      BY <3>1, SaveIs
    <3>4. QED
      BY <1>4, <2>2, <3>1, <3>2, <3>3 DEF SaveFits, Drafts!DisplayText
  <2>3. CASE Drafts!SaveAnswered
    <3>1. s = "saved" /\ save' = Drafts!NoSave /\ shown' = shown /\ edited' = edited
      BY <2>3, <1>2 DEF Drafts!SaveAnswered, Drafts!draft
    <3>2. shown = to /\ edited = to
      BY <1>2, <3>1 DEF DraftsFit, SaveFits
    <3>3. QED
      BY <1>4, <3>1, <3>2, TextsFact DEF SaveFits, Saves, Drafts!NoSave, Drafts!DisplayText
  <2>4. CASE Drafts!SaveFails
    <3>1. s # "saved" /\ save' = Drafts!NoSave /\ shown' = from /\ edited' = edited
      BY <2>4, <1>2 DEF Drafts!SaveFails, Drafts!draft
    <3>2. from = Drafts!DisplayText(edited) /\ edited \in Texts \cup {None}
      BY <1>2, <1>3, <3>1 DEF DraftsFit, SaveFits
    <3>3. QED
      BY <3>1, <3>2 DEF SaveFits, Saves, Drafts!NoSave, Drafts!DisplayText
  <2>5. QED
    BY <1>2, <2>1, <2>2, <2>3, <2>4 DEF Drafts!SaveServed
<1>9. QED
  BY <1>6, <1>7, <1>8 DEF DraftsFit

\* The steps of a toggle
LEMMA ToggleKeeps ==
  ASSUME WritebackTypes, DraftsFit, Drafts!Toggle, ~savesOverlapped'
  PROVE DraftsFit'
<1>1. UNCHANGED <<edited, marked, shown, save, reload, writeback, writes, promised, confirming>>
  BY DEF Drafts!Toggle, Drafts!draft, Drafts!work
<1>2. /\ toggles = {} /\ reload = Drafts!NoList /\ confirming = None
      /\ toggles' = toggles \cup {[id |-> acts, to |-> ~decorative, step |-> "sent"]}
      /\ decorative' = ~decorative
  BY DEF Drafts!Toggle, Drafts!Act
<1>3. marked \in BOOLEAN /\ decorative = marked
  BY <1>2 DEF DraftsFit, ToggleFits
<1>4. SaveFits' /\ ReloadFits'
  BY <1>1, <1>2 DEF DraftsFit, SaveFits, ReloadFits, Drafts!DisplayText
<1>5. PICK t : t = [id |-> acts, to |-> ~decorative, step |-> "sent"]
  OBVIOUS
<1>6. /\ t \in Toggles /\ t.to = ~decorative /\ t.step = "sent" /\ toggles' = {t}
  BY <1>2, <1>3, <1>5 DEF Toggles, WritebackTypes
<1>7. ToggleFits'
  BY <1>1, <1>2, <1>3, <1>6 DEF ToggleFits
<1>8. (\A b \in Batches : PromiseFits(b))'
  BY <1>1, <1>2, PromisesFrame DEF DraftsFit
<1>9. QED
  BY <1>4, <1>7, <1>8 DEF DraftsFit

LEMMA ToggleStepsKeep ==
  ASSUME DraftsFit, NEW t \in toggles,
         Drafts!ToggleServed(t) \/ Drafts!ToggleAnswered(t) \/ Drafts!ToggleFails(t),
         ~savesOverlapped'
  PROVE DraftsFit'
<1>1. UNCHANGED <<edited, shown, save, reload, writeback, writes, promised, confirming>>
  BY DEF Drafts!ToggleServed, Drafts!ToggleAnswered, Drafts!ToggleFails, Drafts!draft,
         Drafts!work
<1>2. /\ t \in Toggles /\ toggles = {t} /\ decorative = t.to /\ marked \in BOOLEAN
      /\ t.step = "made" => marked = t.to
      /\ t.step # "made" => marked = ~t.to
  BY DEF DraftsFit, ToggleFits
<1>3. PICK id \in Nat, to \in BOOLEAN, s \in {"sent", "made", "refused"} :
        t = [id |-> id, to |-> to, step |-> s]
  BY <1>2 DEF Toggles
<1>4. reload = Drafts!NoList
  BY <1>2 DEF DraftsFit, ReloadFits
<1>5. SaveFits' /\ ReloadFits'
  BY <1>1, <1>4 DEF DraftsFit, SaveFits, ReloadFits, Drafts!DisplayText
<1>6. (\A b \in Batches : PromiseFits(b))'
  BY <1>1, PromisesFrame DEF DraftsFit
<1>7. ToggleFits'
  <2>1. CASE Drafts!ToggleServed(t)
    <3>1. t.step = "sent" /\ decorative' = decorative
      BY <2>1 DEF Drafts!ToggleServed
    <3>2. \/ t.to /\ marked' = TRUE /\ toggles' = {[t EXCEPT !.step = "made"]}
          \/ ~t.to /\ marked' = FALSE /\ toggles' = {[t EXCEPT !.step = "made"]}
          \/ t.to /\ ~marked /\ marked' = marked /\ toggles' = {[t EXCEPT !.step = "refused"]}
          \/ ~t.to /\ ~marked /\ marked' = marked /\ toggles' = {[t EXCEPT !.step = "made"]}
      BY <1>2, <2>1 DEF Drafts!ToggleServed
    <3>3. PICK st \in {"made", "refused"} : toggles' = {[t EXCEPT !.step = st]}
            /\ (st = "made" => marked' = to) /\ (st # "made" => marked' = ~to)
            /\ marked' \in BOOLEAN
      BY <1>2, <1>3, <3>2
    <3>4. PICK u : u = [t EXCEPT !.step = st]
      OBVIOUS
    <3>5. u = [id |-> id, to |-> to, step |-> st]
      BY <1>3, <3>4
    <3>6. u \in Toggles /\ u.to = to /\ u.step = st /\ t.to = to
      BY <1>3, <3>5 DEF Toggles
    <3>7. QED
      BY <1>2, <3>1, <3>3, <3>4, <3>6 DEF ToggleFits
  <2>2. CASE Drafts!ToggleAnswered(t) \/ Drafts!ToggleFails(t)
    <3>1. toggles' = {} /\ marked' = marked
      BY <1>2, <2>2 DEF Drafts!ToggleAnswered, Drafts!ToggleFails, Drafts!draft
    <3>2. decorative' = marked
      BY <1>2, <1>3, <2>2 DEF Drafts!ToggleAnswered, Drafts!ToggleFails
    <3>3. QED
      BY <1>2, <3>1, <3>2 DEF ToggleFits
  <2>3. QED
    BY <2>1, <2>2
<1>8. QED
  BY <1>5, <1>6, <1>7 DEF DraftsFit

\* The steps of a list
LEMMA ListStepsKeep ==
  ASSUME DraftsFit, Drafts!Filter \/ Drafts!ListServed \/ Drafts!ListLoaded,
         ~savesOverlapped'
  PROVE DraftsFit'
<1>1. UNCHANGED <<edited, marked, save, toggles, writeback, writes, promised, confirming>>
  BY DEF Drafts!Filter, Drafts!ListServed, Drafts!ListLoaded, Drafts!draft, Drafts!work
<1>2. Drafts!NoList.step = "none"
  BY DEF Drafts!NoList
<1>3. save = Drafts!NoSave /\ toggles = {}
  BY <1>2 DEF Drafts!Filter, Drafts!ListServed, Drafts!ListLoaded, DraftsFit, ReloadFits
<1>4. /\ edited \in Texts \cup {None} /\ shown = Drafts!DisplayText(edited)
      /\ decorative = marked /\ marked \in BOOLEAN
  BY <1>3 DEF DraftsFit, SaveFits, ToggleFits, Drafts!NoSave
<1>5. shown' = shown /\ decorative' = decorative
  <2>1. CASE Drafts!ListLoaded
    <3>1. reload = [step |-> "served", text |-> Drafts!DisplayText(edited), marked |-> marked]
      BY <2>1, <1>2 DEF Drafts!ListLoaded, DraftsFit, ReloadFits
    <3>2. QED
      BY <2>1, <3>1, <1>4 DEF Drafts!ListLoaded
  <2>2. CASE Drafts!Filter \/ Drafts!ListServed
    BY <2>2 DEF Drafts!Filter, Drafts!ListServed
  <2>3. QED
    BY <2>1, <2>2
<1>6. SaveFits' /\ ToggleFits'
  BY <1>1, <1>5 DEF DraftsFit, SaveFits, ToggleFits, Drafts!DisplayText
<1>7. reload' \in {Drafts!NoList, [step |-> "sent", text |-> None, marked |-> FALSE],
                   [step |-> "served", text |-> Drafts!DisplayText(edited), marked |-> marked]}
  BY DEF Drafts!Filter, Drafts!ListServed, Drafts!ListLoaded, Drafts!NoList
<1>8. ReloadFits'
  BY <1>1, <1>3, <1>7 DEF ReloadFits, Drafts!DisplayText
<1>9. (\A b \in Batches : PromiseFits(b))'
  BY <1>1, PromisesFrame DEF DraftsFit
<1>10. QED
  BY <1>6, <1>8, <1>9 DEF DraftsFit

\* The steps of a writeback
LEMMA PageFrame ==
  ASSUME DraftsFit,
         UNCHANGED <<edited, marked, shown, decorative, save, toggles, reload>>
  PROVE SaveFits' /\ ToggleFits' /\ ReloadFits'
BY DEF DraftsFit, SaveFits, ToggleFits, ReloadFits, Drafts!DisplayText

LEMMA ConfirmKeeps ==
  ASSUME WritebackTypes, DraftsFit, NEW b \in Batches, Drafts!Confirm(b)
  PROVE DraftsFit'
<1>1. UNCHANGED <<edited, marked, shown, decorative, save, toggles, reload, writes>>
  BY DEF Drafts!Confirm, Drafts!draft, Drafts!item
<1>2. /\ confirming = None /\ confirming' = b /\ writeback[b] = "none"
      /\ writeback' = [writeback EXCEPT ![b] = "asked"]
      /\ promised' = [promised EXCEPT ![b] = IF save = Drafts!NoSave THEN shown ELSE None]
  BY DEF Drafts!Confirm, Drafts!Act
<1>3. SaveFits' /\ ToggleFits' /\ ReloadFits'
  BY <1>1, PageFrame
<1>4. ASSUME NEW a \in Batches PROVE PromiseFits(a)'
  <2>1. PromiseFits(a) /\ writeback[a] # "asked"
    BY <1>2, NothingAsked DEF DraftsFit
  <2>2. CASE a = b
    <3>1. /\ writeback'[b] = "asked"
          /\ promised'[b] = IF save = Drafts!NoSave THEN shown ELSE None
      BY <1>2 DEF WritebackTypes
    <3>2. save = Drafts!NoSave => shown = Drafts!DisplayText(edited)
      BY DEF DraftsFit, SaveFits, Drafts!NoSave
    <3>3. writes'[b] = None
      BY <1>1, <1>2, <2>1, <2>2 DEF PromiseFits
    <3>4. QED
      BY <1>1, <1>2, <2>2, <3>1, <3>2, <3>3 DEF PromiseFits, Drafts!DisplayText, Drafts!NoSave
  <2>3. CASE a # b
    <3>1. writeback'[a] = writeback[a] /\ promised'[a] = promised[a]
      BY <1>2, <2>3 DEF WritebackTypes
    <3>2. QED
      BY <1>1, <2>1, <3>1 DEF PromiseFits
  <2>4. QED
    BY <2>2, <2>3
<1>5. QED
  BY <1>3, <1>4 DEF DraftsFit

LEMMA StartServedKeeps ==
  ASSUME WritebackTypes, DraftsFit, NEW b \in Batches, Drafts!StartServed(b)
  PROVE DraftsFit'
<1>1. UNCHANGED <<edited, marked, shown, decorative, save, toggles, reload, promised,
                  confirming>>
  BY DEF Drafts!StartServed, Drafts!draft, Drafts!item
<1>2. /\ writeback[b] = "asked"
      /\ \/ /\ writeback' = [writeback EXCEPT ![b] = "RUNNING"]
            /\ writes' = [writes EXCEPT ![b] = Drafts!DisplayText(edited)]
         \/ writeback' = [writeback EXCEPT ![b] = "refused"] /\ writes' = writes
  BY DEF Drafts!StartServed, Drafts!TextToWrite
<1>3. SaveFits' /\ ToggleFits' /\ ReloadFits'
  BY <1>1, PageFrame
<1>4. ASSUME NEW a \in Batches PROVE PromiseFits(a)'
  <2>1. PromiseFits(a)
    BY DEF DraftsFit
  <2>2. CASE a = b
    <3>1. /\ writeback'[b] \in {"RUNNING", "refused"}
          /\ writes'[b] \in {Drafts!DisplayText(edited), writes[b]}
      BY <1>2 DEF WritebackTypes
    <3>2. writes[b] = None /\ (promised[b] # None => promised[b] = Drafts!DisplayText(edited))
      BY <1>2, <2>1, <2>2 DEF PromiseFits
    <3>3. QED
      BY <1>1, <2>2, <3>1, <3>2 DEF PromiseFits
  <2>3. CASE a # b
    <3>1. writeback'[a] = writeback[a] /\ writes'[a] = writes[a]
      BY <1>2, <2>3 DEF WritebackTypes
    <3>2. QED
      BY <1>1, <2>1, <3>1 DEF PromiseFits, Drafts!DisplayText, Drafts!NoSave
  <2>4. QED
    BY <2>2, <2>3
<1>5. QED
  BY <1>3, <1>4 DEF DraftsFit

LEMMA WritebackEndsKeep ==
  ASSUME WritebackTypes, DraftsFit,
         Drafts!StartAnswered \/ \E b \in Batches : Drafts!BatchEnds(b)
  PROVE DraftsFit'
<1>1. UNCHANGED <<edited, marked, shown, decorative, save, toggles, reload, promised, writes>>
  BY DEF Drafts!StartAnswered, Drafts!BatchEnds, Drafts!draft, Drafts!item
<1>2. SaveFits' /\ ToggleFits' /\ ReloadFits'
  BY <1>1, PageFrame
<1>3. \A a \in Batches :
        /\ writeback'[a] = "asked" => writeback[a] = "asked" /\ confirming' = confirming
        /\ writeback'[a] = "none" => writeback[a] = "none"
  <2>1. CASE Drafts!StartAnswered
    BY <2>1 DEF Drafts!StartAnswered, DraftsFit, PromiseFits
  <2>2. CASE \E b \in Batches : Drafts!BatchEnds(b)
    BY <2>2 DEF Drafts!BatchEnds, WritebackTypes
  <2>3. QED
    BY <2>1, <2>2
<1>4. ASSUME NEW a \in Batches PROVE PromiseFits(a)'
  <2>1. PromiseFits(a)
    BY DEF DraftsFit
  <2>2. QED
    BY <1>1, <1>3, <2>1 DEF PromiseFits, Drafts!DisplayText, Drafts!NoSave
<1>5. QED
  BY <1>2, <1>4 DEF DraftsFit

\* The types of the writebacks are kept whatever overlapped.
LEMMA WritebackTypesKept ==
  ASSUME WritebackTypes, Drafts!Next
  PROVE WritebackTypes'
<1>1. acts' \in Nat
  <2>1. acts' = acts \/ acts' = acts + 1
    BY DEF Drafts!Next, Drafts!EditStep, Drafts!WritebackStep, Drafts!Edit, Drafts!SaveServed,
           Drafts!SaveAnswered, Drafts!SaveFails, Drafts!Toggle, Drafts!ToggleServed,
           Drafts!ToggleAnswered, Drafts!ToggleFails, Drafts!Filter, Drafts!ListServed,
           Drafts!ListLoaded, Drafts!StartAnswered, Drafts!Confirm, Drafts!StartServed,
           Drafts!BatchEnds, Drafts!Act
  <2>2. QED
    BY <2>1 DEF WritebackTypes
<1>2. CASE UNCHANGED <<writeback, writes, promised>>
  BY <1>1, <1>2 DEF WritebackTypes
<1>3. CASE \E b \in Batches : Drafts!Confirm(b) \/ Drafts!StartServed(b) \/ Drafts!BatchEnds(b)
  <2>1. PICK b \in Batches : Drafts!Confirm(b) \/ Drafts!StartServed(b) \/ Drafts!BatchEnds(b)
    BY <1>3
  <2>2. PICK s \in {"asked", "refused", "RUNNING", "over"} :
          writeback' = [writeback EXCEPT ![b] = s]
    BY <2>1 DEF Drafts!Confirm, Drafts!StartServed, Drafts!BatchEnds
  <2>3. DOMAIN writes' = DOMAIN writes /\ DOMAIN promised' = DOMAIN promised
    BY <2>1 DEF Drafts!Confirm, Drafts!StartServed, Drafts!BatchEnds
  <2>4. QED
    BY <1>1, <2>2, <2>3 DEF WritebackTypes
<1>4. QED
  BY <1>2, <1>3 DEF Drafts!Next, Drafts!EditStep, Drafts!WritebackStep, Drafts!Edit,
     Drafts!SaveServed, Drafts!SaveAnswered, Drafts!SaveFails, Drafts!Toggle,
     Drafts!ToggleServed, Drafts!ToggleAnswered, Drafts!ToggleFails, Drafts!Filter,
     Drafts!ListServed, Drafts!ListLoaded, Drafts!StartAnswered, Drafts!work

\* What may have overlapped once, has.
LEMMA OverlapStays ==
  ASSUME Drafts!Next, savesOverlapped
  PROVE savesOverlapped'
BY DEF Drafts!Next, Drafts!EditStep, Drafts!WritebackStep, Drafts!Edit, Drafts!SaveServed,
       Drafts!SaveAnswered, Drafts!SaveFails, Drafts!Toggle, Drafts!ToggleServed,
       Drafts!ToggleAnswered, Drafts!ToggleFails, Drafts!Filter, Drafts!ListServed,
       Drafts!ListLoaded, Drafts!StartAnswered, Drafts!Confirm, Drafts!StartServed,
       Drafts!BatchEnds, Drafts!item

LEMMA DraftsFrame ==
  ASSUME DraftsInv, UNCHANGED draftVars
  PROVE DraftsInv'
<1>1. UNCHANGED <<edited, marked, shown, decorative, save, toggles, reload, writeback, writes,
                  promised, confirming, savesOverlapped, acts>>
  BY DEF draftVars
<1>2. WritebackTypes'
  BY <1>1 DEF DraftsInv, WritebackTypes
<1>3. ASSUME ~savesOverlapped PROVE DraftsFit'
  <2>1. DraftsFit
    BY <1>3 DEF DraftsInv
  <2>2. SaveFits' /\ ToggleFits' /\ ReloadFits'
    BY <1>1, <2>1, PageFrame
  <2>3. (\A b \in Batches : PromiseFits(b))'
    BY <1>1, <2>1, PromisesFrame DEF DraftsFit
  <2>4. QED
    BY <2>2, <2>3 DEF DraftsFit
<1>4. QED
  BY <1>1, <1>2, <1>3 DEF DraftsInv

LEMMA DraftsNext ==
  ASSUME DraftsInv, [Next]_vars
  PROVE DraftsInv'
<1>1. CASE UNCHANGED draftVars
  BY <1>1, DraftsFrame
<1>2. CASE Drafts!Next
  <2>1. WritebackTypes /\ WritebackTypes'
    BY <1>2, WritebackTypesKept DEF DraftsInv
  <2>2. ASSUME ~savesOverlapped' PROVE DraftsFit'
    <3>1. DraftsFit
      BY <1>2, <2>2, OverlapStays DEF DraftsInv
    <3>2. CASE Drafts!EditStep
      BY <2>1, <2>2, <3>1, <3>2, EditKeeps, SaveStepsKeep, ToggleKeeps, ToggleStepsKeep,
         ListStepsKeep DEF Drafts!EditStep
    <3>3. CASE Drafts!WritebackStep
      BY <2>1, <3>1, <3>3, ConfirmKeeps, StartServedKeeps, WritebackEndsKeep
      DEF Drafts!WritebackStep
    <3>4. QED
      BY <1>2, <3>2, <3>3 DEF Drafts!Next
  <2>3. QED
    BY <2>1, <2>2 DEF DraftsInv
<1>3. QED
  BY <1>1, <1>2 DEF Next, vars

\* Unless requests overlapped, what the review page shows too soon has the request
\* that explains it, and what it promised is what the server has.
THEOREM DraftsInvariant == Spec => []DraftsInv
<1>1. Init => DraftsInv
  BY DraftsInit
<1>2. DraftsInv /\ [Next]_vars => DraftsInv'
  BY DraftsNext
<1>3. QED
  BY <1>1, <1>2, PTL DEF Spec

LEMMA DraftCounts == DraftsInv => Drafts!ShownCounts
<1>1. SUFFICES ASSUME DraftsInv, ~savesOverlapped
               PROVE /\ ~Drafts!Busy => shown = Drafts!DisplayText(edited) /\ decorative = marked
                     /\ \A b \in Batches :
                          promised[b] # None /\ writes[b] # None => writes[b] = promised[b]
  BY DEF Drafts!ShownCounts
<1>2. DraftsFit
  BY <1>1 DEF DraftsInv
<1>3. ~Drafts!Busy => shown = Drafts!DisplayText(edited) /\ decorative = marked
  BY <1>2 DEF DraftsFit, SaveFits, ToggleFits, Drafts!Busy, Drafts!NoSave
<1>4. QED
  BY <1>2, <1>3 DEF DraftsFit, PromiseFits

\* A page says that a scan is over, or completed, when it is; and the text it shows is
\* the server's, and the one that a writeback writes, unless requests overlapped.
THEOREM PagesShowWhatIs == Spec => []ShownIsReal
<1>1. ScanInv /\ DraftsInv => ShownIsReal
  BY ScanEndIsReal, DraftCounts DEF ShownIsReal
<1>2. QED
  BY ScanInvariant, DraftsInvariant, <1>1, PTL
=============================================================================
