------------------------------ MODULE ScanPage ------------------------------
(***************************************************************************)
(* The page that shows the progress of one catalog scan                    *)
(* (ScanStatusBanner.tsx, useBatchProgress.ts): an event stream over a     *)
(* Redis hash that the server polls (useSSE.ts, sse.service.ts), and a     *)
(* poll of the scan's rows while the page does not know the scan to be     *)
(* over (useScanStatus.ts, api.scan.status.tsx).                           *)
(*                                                                         *)
(* The hash and the rows are written apart, by workers that may die in     *)
(* between or write late; the hash may expire, and the sweep of stale      *)
(* scans deletes it.  How the scan itself goes is in ScanPipeline.         *)
(***************************************************************************)
EXTENDS Naturals, Sequences

CONSTANTS MaxFaults,        \* bound on what fails or is late
          PublishAttempts   \* attempts of the publish job

VARIABLES row,       \* scan_job.status
          begun,     \* some task of the scan is not PENDING any more
          publish,   \* the publish job
          tries,     \* its attempts
          hash,      \* the phase in the progress hash; "none" when there is none
          owed,      \* the phase that the worker which ended the scan has yet to store
          conn,      \* useSSE's connection
          polling,   \* does the server's end of it poll the hash?
          wire,      \* events on their way to the page
          shown,     \* the phase last received; "none" before the first
          list,      \* what /api/scan/status answered last
          fetch,     \* the request for it: "none", "sent" or "served"
          answer,    \* what it was served
          noticed,   \* the page has seen the end, and asked once more
          stop,      \* the request to stop the scan
          missed,    \* history: a request failed after the page had seen the end
          faults

scan == <<row, begun, publish, tries, hash, owed>>
link == <<conn, polling, wire, shown>>
query == <<list, fetch, answer, noticed, missed>>
vars == <<scan, link, query, stop, faults>>

-----------------------------------------------------------------------------
\* SCAN_PHASE: the phases before the last two are all alike to the page.
Phases == {"none", "working", "done", "failed"}
Answers == [row : {"RUNNING", "SUCCESS", "FAILED"}, begun : BOOLEAN, phase : Phases]
NoAnswer == [row |-> "NONE", begun |-> FALSE, phase |-> "none"]

Init ==
  /\ row = "RUNNING" /\ begun = FALSE /\ publish = "none" /\ tries = 0
  /\ hash = "working" /\ owed = "none"
  /\ conn = "opening" /\ polling = FALSE /\ wire = <<>> /\ shown = "none"
  /\ list = NoAnswer /\ answer = NoAnswer /\ fetch = "sent" /\ noticed = FALSE /\ missed = FALSE
  /\ stop = "no" /\ faults = 0

Fault == faults < MaxFaults /\ faults' = faults + 1

-----------------------------------------------------------------------------
\* What the page shows

\* Mutant of TerminalPhase: a hash that is gone is an end.
UnknownIsTerminal(phase) == phase \in {"done", "failed", "unknown"}

\* isTerminalPhase, TERMINAL_PHASES
TerminalPhase(phase) == phase \in {"done", "failed"}

\* effectiveProgress: what the stream said last, before it what the list says
Phase == IF shown # "none" THEN shown ELSE list.phase

\* effectiveIsTerminal
IsTerminal == TerminalPhase(Phase) \/ list.row \in {"SUCCESS", "FAILED"}

HasError == list.row = "FAILED" \/ Phase = "failed"

\* canStop
CanStop == list.row = "RUNNING" /\ ~list.begun

-----------------------------------------------------------------------------
\* The scan

Begin ==
  /\ row = "RUNNING" /\ ~begun
  /\ begun' = TRUE
  /\ UNCHANGED <<row, publish, tries, hash, owed, link, query, stop, faults>>

\* A worker that is still at a task stores its phase, whatever became of the scan.
StorePhase ==
  /\ begun /\ (row # "RUNNING" => Fault) /\ (row = "RUNNING" => UNCHANGED faults)
  /\ hash' = "working"
  /\ UNCHANGED <<row, begun, publish, tries, owed, link, query, stop>>

\* finalizeScanJobIfTerminal.  The derive worker goes on to store the phase, which is
\* "done" before anything is published; where a parse or a submission ended
\* the scan, nobody does.
Finish ==
  /\ row = "RUNNING" /\ begun
  /\ \E end \in {"SUCCESS", "FAILED"} :
       /\ row' = end
       /\ publish' = IF end = "SUCCESS" THEN "waiting" ELSE publish
       /\ owed' \in {"none", IF end = "SUCCESS" THEN "done" ELSE "failed"}
  /\ UNCHANGED <<begun, tries, hash, link, query, stop, faults>>

\* setScanProgressStatus, or an exception or a crash in its place
StoreEnd ==
  /\ owed # "none"
  /\ \/ hash' = owed /\ UNCHANGED faults
     \/ Fault /\ UNCHANGED hash
  /\ owed' = "none"
  /\ UNCHANGED <<row, begun, publish, tries, link, query, stop>>

\* processPublishScanJob: "publish" first, "done" or "failed" in the end; a failure
\* is tried again.
PublishBegins ==
  /\ publish = "waiting"
  /\ publish' = "running" /\ tries' = tries + 1
  /\ hash' = "working"
  /\ UNCHANGED <<row, begun, owed, link, query, stop, faults>>

PublishEnds ==
  /\ publish = "running"
  /\ \/ publish' = "done" /\ hash' = "done" /\ UNCHANGED faults
     \/ /\ Fault
        /\ publish' = IF tries < PublishAttempts THEN "waiting" ELSE "dead"
        /\ hash' = "failed"
  /\ UNCHANGED <<row, begun, tries, owed, link, query, stop>>

\* timeoutStaleRunningScans
Sweep ==
  /\ row = "RUNNING"
  /\ row' = "FAILED" /\ hash' = "none"
  /\ UNCHANGED <<begun, publish, tries, owed, link, query, stop, faults>>

\* The hash expires or is evicted.
KeyLost ==
  /\ hash # "none"
  /\ Fault
  /\ hash' = "none"
  /\ UNCHANGED <<row, begun, publish, tries, owed, link, query, stop>>

-----------------------------------------------------------------------------
\* The stream

\* startSSEProgressStream begins to poll.
Open ==
  /\ conn = "opening"
  /\ conn' = "open" /\ polling' = TRUE
  /\ UNCHANGED <<scan, wire, shown, query, stop, faults>>

\* The stream cannot be opened, or breaks: useSSE opens it again after three
\* seconds, unless the session has expired or the server ended the stream.
Breaks ==
  /\ conn \in {"opening", "open"}
  /\ Fault
  /\ conn' \in {"waiting", "over"}
  /\ polling' = FALSE /\ wire' = <<>>
  /\ UNCHANGED <<scan, shown, query, stop>>

Reconnect ==
  /\ conn = "waiting"
  /\ conn' = "opening"
  /\ UNCHANGED <<scan, polling, wire, shown, query, stop, faults>>

\* poll: every two seconds, until an end or until there is no hash
PollHash ==
  /\ polling /\ wire = <<>>
  /\ LET phase == IF hash = "none" THEN "unknown" ELSE hash
         last == phase \in {"unknown", "done", "failed"}
     IN /\ wire' = IF last THEN <<phase, "close">> ELSE <<phase>>
        /\ polling' = ~last
  /\ UNCHANGED <<scan, conn, shown, query, stop, faults>>

\* handleMessage: an end and the close event both abort the connection for good.
Handle ==
  /\ conn = "open" /\ wire # <<>>
  /\ LET e == Head(wire)
         over == e = "close" \/ TerminalPhase(e)
     IN /\ shown' = IF e = "close" THEN shown ELSE e
        /\ conn' = IF over THEN "over" ELSE conn
        /\ wire' = IF over THEN <<>> ELSE Tail(wire)
        /\ polling' = (polling /\ ~over)
  /\ UNCHANGED <<scan, query, stop, faults>>

-----------------------------------------------------------------------------
\* The list

\* refresh cancels what is under way.
Ask == fetch' = "sent" /\ answer' = NoAnswer

\* The poll every five seconds, while the page sees no end.  A request takes less
\* than that, or the poll takes its place.
Poll ==
  /\ ~IsTerminal
  /\ \/ fetch = "none" /\ UNCHANGED faults
     \/ fetch # "none" /\ Fault
  /\ Ask
  /\ UNCHANGED <<scan, link, list, noticed, missed, stop>>

\* Mutant of FinalRefresh: the page has what it needs.
NoRefresh ==
  /\ IsTerminal /\ ~noticed
  /\ noticed' = TRUE
  /\ UNCHANGED <<scan, link, list, fetch, answer, missed, stop, faults>>

\* The effect on effectiveIsTerminal: one more request
FinalRefresh ==
  /\ IsTerminal /\ ~noticed
  /\ noticed' = TRUE
  /\ Ask
  /\ UNCHANGED <<scan, link, list, missed, stop, faults>>

\* getScanStatus reads the job, its tasks and the hash.
Serve ==
  /\ fetch = "sent"
  /\ fetch' = "served"
  /\ answer' = [row |-> row, begun |-> begun, phase |-> hash]
  /\ UNCHANGED <<scan, link, list, noticed, missed, stop, faults>>

Answer ==
  /\ fetch = "served"
  /\ list' = answer
  /\ fetch' = "none" /\ answer' = NoAnswer
  /\ UNCHANGED <<scan, link, noticed, missed, stop, faults>>

FetchFails ==
  /\ fetch # "none"
  /\ Fault
  /\ fetch' = "none" /\ answer' = NoAnswer
  /\ missed' = (missed \/ noticed)
  /\ UNCHANGED <<scan, link, list, noticed, stop>>

-----------------------------------------------------------------------------
\* The Stop button

Stop ==
  /\ stop = "no" /\ ~IsTerminal /\ CanStop
  /\ stop' = "sent"
  /\ UNCHANGED <<scan, link, query, faults>>

\* stopPendingScanJob: refused once a task has begun or the scan is over.
StopServed ==
  /\ stop = "sent"
  /\ \/ /\ row = "RUNNING" /\ ~begun
        /\ row' = "FAILED" /\ owed' = "failed"
        /\ stop' = "accepted"
     \/ /\ row # "RUNNING" \/ begun
        /\ stop' = "no"
        /\ UNCHANGED <<row, owed>>
  /\ UNCHANGED <<begun, publish, tries, hash, link, query, faults>>

\* Its answer refreshes the list.
StopAnswered ==
  /\ stop = "accepted" /\ owed = "none"
  /\ stop' = "over"
  /\ Ask
  /\ UNCHANGED <<scan, link, list, noticed, missed, faults>>

-----------------------------------------------------------------------------
ScanStep == Begin \/ StorePhase \/ Finish \/ StoreEnd \/ PublishBegins \/ PublishEnds
            \/ Sweep \/ KeyLost

PageStep == Open \/ Reconnect \/ PollHash \/ Handle \/ FinalRefresh \/ Serve \/ Answer
            \/ StopAnswered

Next == ScanStep \/ PageStep \/ Poll \/ Breaks \/ FetchFails \/ Stop \/ StopServed

Spec == Init /\ [][Next]_vars

\* The page's timers fire, and what it asks for is answered.
FairSpec == /\ Spec
            /\ WF_vars(Serve) /\ WF_vars(Answer) /\ WF_vars(Poll) /\ WF_vars(FinalRefresh)

-----------------------------------------------------------------------------
\* Properties

TypeOK ==
  /\ row \in {"RUNNING", "SUCCESS", "FAILED"} /\ begun \in BOOLEAN
  /\ publish \in {"none", "waiting", "running", "done", "dead"}
  /\ tries \in 0 .. PublishAttempts
  /\ hash \in Phases /\ owed \in {"none", "done", "failed"}
  /\ conn \in {"opening", "open", "waiting", "over"} /\ polling \in BOOLEAN
  /\ wire \in Seq(Phases \cup {"unknown", "close"})
  /\ shown \in Phases \cup {"unknown"}
  /\ list \in Answers \cup {NoAnswer}
  /\ answer \in Answers \cup {NoAnswer} /\ fetch \in {"none", "sent", "served"}
  /\ noticed \in BOOLEAN /\ missed \in BOOLEAN
  /\ stop \in {"no", "sent", "accepted", "over"}
  /\ faults \in 0 .. MaxFaults

\* useSSE.ts:27: the page says that a scan is over only when it is, and that it
\* completed only when it did: not when its hash has expired or was deleted, nor
\* by a phase that a late worker stored or an answer that was overtaken.
ShownEndIsReal ==
  IsTerminal => /\ row # "RUNNING"
                /\ ~HasError => row = "SUCCESS"

\* ScanStatusBanner.tsx:150, useBatchProgress.ts:198: the page shows the end of a
\* scan, and its failure as one, whatever became of its stream and of the hash;
\* and its list of tasks is then of the scan that ended, not of one that was under
\* way, unless the request for it fails.
EndIsShown ==
  row # "RUNNING" ~> /\ IsTerminal
                     /\ row = "FAILED" => HasError
                     /\ list.row # "RUNNING" \/ missed
=============================================================================
