------------------------------ MODULE AppPages ------------------------------
(***************************************************************************)
(* The app in a tab of the Shopify admin: it shows one page at a time, and *)
(* a page that is left takes its state, its requests and its stream with   *)
(* it (the effects of React clean up).  So the tab is at one of three      *)
(* pages: the candidates, with a generation (GenerationPage) and the list  *)
(* (CandidateList); the progress of a scan (ScanPage); and the review page *)
(* with its drafts (ReviewDrafts) and the writebacks it follows            *)
(* (ReviewBatches).  The two parts of a page share no state but the images *)
(* they are about, and are modelled as pages of their own.                 *)
(***************************************************************************)
EXTENDS Naturals, Sequences, FiniteSets

CONSTANTS Batches, Jobs, Texts, Generated, None,
          PublishAttempts,
          Ids, Candidate(_), Filters, PageSize,
          MaxClicks,
          MaxActs,     \* page -> bound on what the merchant does there
          MaxFaults    \* page -> bound on what fails while the tab shows it

ASSUME AppPagesAssumption ==
  /\ None \notin Batches \cup Texts \cup {Generated} /\ Generated \notin Texts
  /\ IsFiniteSet(Jobs) /\ Jobs # {}
  /\ PublishAttempts \in Nat \ {0}
  /\ Ids \subseteq Nat \ {0} /\ IsFiniteSet(Ids) /\ PageSize \in Nat \ {0}
  /\ MaxClicks \in Nat
  /\ \A p \in DOMAIN MaxActs : MaxActs[p] \in Nat
  /\ \A p \in DOMAIN MaxFaults : MaxFaults[p] \in Nat

VARIABLES page, faults,
  generationRow, generationHash, job, read, phase, chosen, asked, preflight, starting, started,
  summary, conn, stream, wire, clicks, preflightsOverlapped, generationLost,
  scanRow, begun, publish, tries, scanHash, owed, scanConn, polling, scanWire, scanShown, list,
  fetch, answer, noticed, stop, missed,
  edited, marked, status, shown, decorative, save, toggles, reload, writeback, writes, promised,
  confirming, savesOverlapped, acts,
  batch, batchStarting, active, detail, load, batchConn, batchLost,
  candidateRow, filter, items, cursor, loading, first, dropped, more, listReload, watched, mark,
  touched, disturbed, blind, listActs

generationVars ==
  <<generationRow, generationHash, job, read, phase, chosen, asked, preflight, starting, started,
    summary, conn, stream, wire, clicks, preflightsOverlapped, generationLost>>
scanVars ==
  <<scanRow, begun, publish, tries, scanHash, owed, scanConn, polling, scanWire, scanShown, list,
    fetch, answer, noticed, stop, missed>>
draftVars ==
  <<edited, marked, status, shown, decorative, save, toggles, reload, writeback, writes, promised,
    confirming, savesOverlapped, acts>>
batchVars == <<batch, batchStarting, active, detail, load, batchConn, batchLost>>
listVars ==
  <<candidateRow, filter, items, cursor, loading, first, dropped, more, listReload, watched, mark,
    touched, disturbed, blind, listActs>>
vars == <<page, faults, generationVars, scanVars, draftVars, batchVars, listVars>>

-----------------------------------------------------------------------------
Candidates ==
  INSTANCE GenerationPage
    WITH row <- generationRow, hash <- generationHash, overlapped <- preflightsOverlapped,
         lost <- generationLost, MaxFaults <- MaxFaults.candidates

Scan ==
  INSTANCE ScanPage
    WITH row <- scanRow, hash <- scanHash, conn <- scanConn, wire <- scanWire,
         shown <- scanShown, MaxFaults <- MaxFaults.scan

Drafts ==
  INSTANCE ReviewDrafts
    WITH batch <- writeback, starting <- confirming, overlapped <- savesOverlapped,
         MaxActs <- MaxActs.drafts, MaxFaults <- MaxFaults.drafts

Writebacks ==
  INSTANCE ReviewBatches
    WITH starting <- batchStarting, conn <- batchConn, lost <- batchLost,
         MaxFaults <- MaxFaults.writebacks

List ==
  INSTANCE CandidateList
    WITH row <- candidateRow, reload <- listReload, acts <- listActs,
         MaxActs <- MaxActs.list, MaxFaults <- MaxFaults.list

\* The links to the page of candidates open it without a status, which is PENDING.
\* What the list starts from matters on its page only.
Init ==
  /\ page \in {"candidates", "scan", "drafts", "writebacks", "list"}
  /\ Candidates!Init /\ Scan!Init /\ Drafts!Init /\ Writebacks!Init /\ List!Init
  /\ filter = "PENDING"
  /\ page # "list" => candidateRow = [r \in Ids |-> "MISSING"]

Next ==
  \/ page = "candidates" /\ Candidates!Next
     /\ UNCHANGED <<page, scanVars, draftVars, batchVars, listVars>>
  \/ page = "scan" /\ Scan!Next
     /\ UNCHANGED <<page, generationVars, draftVars, batchVars, listVars>>
  \/ page = "drafts" /\ Drafts!Next
     /\ UNCHANGED <<page, generationVars, scanVars, batchVars, listVars>>
  \/ page = "writebacks" /\ Writebacks!Next
     /\ UNCHANGED <<page, generationVars, scanVars, draftVars, listVars>>
  \/ page = "list" /\ List!Next
     /\ UNCHANGED <<page, generationVars, scanVars, draftVars, batchVars>>

\* The fairness of each page, while it is shown
CandidatesFairness ==
  /\ WF_generationVars(page = "candidates" /\ Candidates!StreamStep)
  /\ \A b \in Batches, j \in Jobs :
       WF_generationVars(page = "candidates" /\ Candidates!JobStep(b, j))

ScanFairness ==
  /\ WF_scanVars(page = "scan" /\ Scan!Serve) /\ WF_scanVars(page = "scan" /\ Scan!Answer)
  /\ WF_scanVars(page = "scan" /\ Scan!Poll) /\ WF_scanVars(page = "scan" /\ Scan!FinalRefresh)

WritebacksFairness ==
  /\ WF_batchVars(page = "writebacks" /\ (Writebacks!Open \/ Writebacks!Reconnect))
  /\ WF_batchVars(page = "writebacks" /\ Writebacks!Complete)
  /\ \A b \in Batches, a \in Writebacks!Askers :
       WF_batchVars(page = "writebacks" /\ (Writebacks!LoadServed(b, a) \/ Writebacks!Loaded(b, a)))

ListFairness ==
  /\ WF_listVars(page = "list" /\ List!Answers)
  /\ WF_listVars(page = "list" /\ List!LoadMore)

Spec == /\ Init /\ [][Next]_vars
        /\ CandidatesFairness /\ ScanFairness /\ WritebacksFairness /\ ListFairness

-----------------------------------------------------------------------------
\* The properties of the modules, which say more about them

\* The flow of a generation stays with its batch: what is generated is what the merchant
\* confirmed, unless preflights overlapped, and what the summary says is the final
\* state of that batch.
FlowFollowsBatch == Candidates!ConfirmedIsStarted /\ Candidates!SummaryIsFinal

\* A generation that is over takes the page to its summary, unless the event is lost.
GenerationIsSummarised == Candidates!GenerationIsSummarised

\* What a page shows is so: a scan is over, or completed, when the page says it; the
\* text of the review page is the server's, and the one that a writeback writes.
ShownIsReal == Scan!ShownEndIsReal /\ Drafts!ShownCounts

\* The end that is followed is shown: of a scan, its failure as one, with its last list;
\* and of a writeback.
EndIsShown == Scan!EndIsShown /\ Writebacks!EndIsTold

\* The list of candidates comes to show all the rows of its filter as they are,
\* unless a page of another list comes late or the observer loses the list's end.
ListIsWhole == page = "list" => List!ListIsWhole
=============================================================================
