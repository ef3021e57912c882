--------------------------- MODULE GenerationPage ---------------------------
(***************************************************************************)
(* The page of candidates while a merchant generates alt texts: the flow   *)
(* of its dialogs (useGenerationFlow.ts, GenerationFlow.tsx), the event    *)
(* stream it opens for a batch (useGenerationSSE.ts), the server's end of  *)
(* that stream (generation-sse.service.ts), and the workers that publish   *)
(* the batch's progress to a Redis hash and a channel                      *)
(* (progress-publisher.ts).                                                *)
(*                                                                         *)
(* Answers and events come in any order that the network and two workers   *)
(* allow; a batch is its two or more jobs, each of which counts itself in  *)
(* the batch's row and then publishes what it reads there.  What the jobs  *)
(* do otherwise is in Generation.                                          *)
(***************************************************************************)
EXTENDS Naturals, Sequences, FiniteSets

CONSTANTS Batches,     \* selections of candidates, each generated once at most
          Jobs,        \* the jobs of a batch
          None,        \* no batch
          MaxClicks,   \* bound on clicks of Generate
          MaxFaults    \* bound on what fails: requests, publications, connections

VARIABLES row,       \* batch -> its generation_batch row
          hash,      \* batch -> its progress hash in Redis
          job,       \* batch -> job -> what it does next
          read,      \* batch -> job -> the row it read to publish
          phase,     \* of the flow
          chosen,    \* candidateIdsRef: the selection of the last click
          asked,     \* batch -> preflight requests on their way
          preflight, \* the selection whose preflight the dialog shows
          starting,  \* batch -> its start request
          started,   \* batchId of the flow
          summary,   \* what the summary says of the batch
          conn,      \* the hook's connection
          stream,    \* the server's end of it
          wire,      \* events on their way to the page
          clicks, faults,
          overlapped, \* history: a preflight was asked for while another was
          lost        \* history: why an event may never come, since the last start

rows == <<row, hash, job, read>>
requests == <<asked, preflight, starting, clicks, overlapped>>
link == <<conn, stream, wire>>
vars == <<rows, phase, chosen, requests, started, summary, link, faults, lost>>

-----------------------------------------------------------------------------
Terminal == {"COMPLETED", "FAILED"}
Row(s, n) == [status |-> s, done |-> n]
Rows == [status : {"NONE", "RUNNING", "IN_PROGRESS"} \cup Terminal, done : 0 .. Cardinality(Jobs)]

Phases == {"IDLE", "PREFLIGHT_LOADING", "CONFIRMING", "STARTING", "GENERATING", "SUMMARY"}

\* Events of the stream.  One more, generation_progress, moves the bar only and is
\* left out.
Completed(r) == [event |-> "generation_completed", data |-> r]
Close == [event |-> "close", data |-> Row("NONE", 0)]

Init ==
  /\ row = [b \in Batches |-> Row("NONE", 0)]
  /\ hash = [b \in Batches |-> Row("NONE", 0)]
  /\ job = [b \in Batches |-> [j \in Jobs |-> "absent"]]
  /\ read = [b \in Batches |-> [j \in Jobs |-> Row("NONE", 0)]]
  /\ phase = "IDLE" /\ chosen = None /\ preflight = None /\ started = None
  /\ asked = [b \in Batches |-> 0]
  /\ starting = [b \in Batches |-> "no"]
  /\ summary = Row("NONE", 0)
  /\ conn = "off" /\ stream = "none" /\ wire = <<>>
  /\ clicks = 0 /\ faults = 0 /\ overlapped = FALSE /\ lost = {}

Fault == faults < MaxFaults /\ faults' = faults + 1

-----------------------------------------------------------------------------
\* The hook: there is a stream while the flow is generating a batch, and a new
\* one when that changes; events of the old one are not handled any more.
Followed(p, b) == IF p = "GENERATING" THEN b ELSE None

FlowTo(p, b) ==
  /\ phase' = p
  /\ started' = b
  /\ \/ /\ Followed(p, b) = Followed(phase, started)
        /\ UNCHANGED link
     \/ /\ Followed(p, b) # Followed(phase, started)
        /\ conn' = IF Followed(p, b) = None THEN "off" ELSE "opening"
        /\ stream' = "none" /\ wire' = <<>>

\* The request of the stream fails: it is sent again after three seconds, but for
\* a session that has expired.
OpenFails ==
  /\ conn = "opening"
  /\ Fault
  /\ \/ conn' = "waiting" /\ UNCHANGED lost
     \/ conn' = "over" /\ lost' = lost \cup {"unauthorized"}
  /\ UNCHANGED <<rows, phase, chosen, requests, started, summary, stream, wire>>

Reconnect ==
  /\ conn = "waiting"
  /\ conn' = "opening"
  /\ UNCHANGED <<rows, phase, chosen, requests, started, summary, stream, wire, faults, lost>>

\* The connection breaks, which the hook repairs, or the server ends it without
\* an event, which the hook takes for an end.
Breaks ==
  /\ conn = "open"
  /\ Fault
  /\ \/ conn' = "waiting" /\ UNCHANGED lost
     \/ conn' = "over" /\ lost' = lost \cup {"ended"}
  /\ stream' = "none" /\ wire' = <<>>
  /\ UNCHANGED <<rows, phase, chosen, requests, started, summary>>

\* handleMessage: the completed event ends the connection and the flow.
Handle ==
  /\ conn = "open" /\ wire # <<>>
  /\ LET e == Head(wire)
     IN \/ /\ e.event = "generation_completed"
           /\ summary' = e.data
           /\ FlowTo("SUMMARY", started)
        \/ /\ e.event = "close"
           /\ conn' = "over" /\ wire' = <<>>
           /\ UNCHANGED <<phase, started, summary, stream>>
  /\ UNCHANGED <<rows, chosen, requests, faults, lost>>

-----------------------------------------------------------------------------
\* startGenerationSSEStream: first a snapshot of the hash, which is the end if
\* the batch is over ...

\* Mutant of Open: the channel will tell that the batch is over.
OpenWithoutSnapshot ==
  /\ conn = "opening"
  /\ conn' = "open" /\ stream' = "subscribing"
  /\ UNCHANGED <<rows, phase, chosen, requests, started, summary, wire, faults, lost>>

Open ==
  /\ conn = "opening"
  /\ conn' = "open"
  /\ LET r == hash[started]
     IN \/ r.status \in Terminal /\ wire' = <<Completed(r), Close>> /\ stream' = "none"
        \/ r.status \notin Terminal /\ stream' = "subscribing" /\ UNCHANGED wire
  /\ UNCHANGED <<rows, phase, chosen, requests, started, summary, faults, lost>>

\* ... then the channel.  An exception up to here closes the stream for good.
Subscribe ==
  /\ stream = "subscribing"
  /\ stream' = "subscribed"
  /\ UNCHANGED <<rows, phase, chosen, requests, started, summary, conn, wire, faults, lost>>

StreamFails ==
  /\ stream = "subscribing"
  /\ Fault
  /\ wire' = <<Close>> /\ stream' = "none"
  /\ lost' = lost \cup {"closed"}
  /\ UNCHANGED <<rows, phase, chosen, requests, started, summary, conn>>

-----------------------------------------------------------------------------
\* The jobs of a batch

\* resolveFinalStatus, for a batch of which n jobs have finished: which of the two
\* is for Generation to say
FinalStatuses(n) == IF n < Cardinality(Jobs) THEN {"IN_PROGRESS"} ELSE Terminal

\* markJobFinished: the job is counted, and the last one ends the batch.
Count(b, j) ==
  /\ job[b][j] = "generating"
  /\ LET n == row[b].done + 1
     IN \E s \in FinalStatuses(n) : row' = [row EXCEPT ![b] = Row(s, n)]
  /\ job' = [job EXCEPT ![b][j] = "reading"]
  /\ UNCHANGED <<hash, read, phase, chosen, requests, started, summary, link, faults, lost>>

\* publishGenerationProgress reads the row ...
Read(b, j) ==
  /\ job[b][j] = "reading"
  /\ read' = [read EXCEPT ![b][j] = row[b]]
  /\ job' = [job EXCEPT ![b][j] = "publishing"]
  /\ UNCHANGED <<row, hash, phase, chosen, requests, started, summary, link, faults, lost>>

\* ... stores it in the hash, over what another job may have stored since, and
\* publishes it, with an event of its own when the batch is over, which is the last
\* of its stream.  (One step: who connects between the two finds the end in the hash.)
Publish(b, j) ==
  LET r == read[b][j]
      over == r.status \in Terminal
      follows == Followed(phase, started) = b
      heard == over /\ follows /\ stream = "subscribed"
  IN /\ job[b][j] = "publishing"
     /\ hash' = [hash EXCEPT ![b] = r]
     /\ job' = [job EXCEPT ![b][j] = "over"]
     /\ read' = [read EXCEPT ![b][j] = Row("NONE", 0)]
     /\ \/ heard /\ wire' = <<Completed(r), Close>> /\ stream' = "none"
        \/ ~heard /\ UNCHANGED <<wire, stream>>
     /\ lost' = lost \cup (IF over /\ follows /\ stream = "subscribing" THEN {"between"} ELSE {})
                     \cup (IF ~over /\ hash[b].status \in Terminal THEN {"overwritten"} ELSE {})
     /\ UNCHANGED <<row, phase, chosen, requests, started, summary, conn, faults>>

\* An exception or a crash in between: the job runs again, finds its candidate
\* done and publishes.
JobRunsAgain(b, j) ==
  /\ job[b][j] \in {"reading", "publishing"}
  /\ Fault
  /\ job' = [job EXCEPT ![b][j] = "reading"]
  /\ UNCHANGED <<row, hash, read, phase, chosen, requests, started, summary, link, lost>>

-----------------------------------------------------------------------------
\* The flow

\* Mutant of Clickable: the button stays while a batch is started and generated.
ClickableAlways == phase \in {"IDLE", "PREFLIGHT_LOADING", "STARTING", "GENERATING"}

\* The Generate button, where no dialog covers it: it stays while a preflight
\* is under way.
Clickable == phase \in {"IDLE", "PREFLIGHT_LOADING"}

\* startPreflight
Generate(b) ==
  /\ Clickable /\ clicks < MaxClicks /\ row[b].status = "NONE"
  /\ clicks' = clicks + 1
  /\ chosen' = b
  /\ preflight' = None
  /\ asked' = [asked EXCEPT ![b] = @ + 1]
  /\ overlapped' = (overlapped \/ \E a \in Batches : asked[a] > 0)
  /\ FlowTo("PREFLIGHT_LOADING", started)
  /\ UNCHANGED <<rows, starting, summary, faults, lost>>

\* Its answer, whatever the flow is at by then
Preflight(b) ==
  /\ asked[b] > 0
  /\ asked' = [asked EXCEPT ![b] = @ - 1]
  /\ preflight' = b
  /\ FlowTo("CONFIRMING", started)
  /\ UNCHANGED <<rows, chosen, starting, clicks, overlapped, summary, faults, lost>>

PreflightFails(b) ==
  /\ asked[b] > 0
  /\ Fault
  /\ asked' = [asked EXCEPT ![b] = @ - 1]
  /\ FlowTo("IDLE", started)
  /\ UNCHANGED <<rows, chosen, preflight, starting, clicks, overlapped, summary, lost>>

Cancel ==
  /\ phase = "CONFIRMING"
  /\ preflight' = None
  /\ FlowTo("IDLE", started)
  /\ UNCHANGED <<rows, chosen, asked, starting, clicks, overlapped, summary, faults, lost>>

\* confirmAndStart sends the selection of the last click.  The server refuses one
\* that a closed summary has emptied, and one whose candidates are taken already.
Confirm ==
  /\ phase = "CONFIRMING"
  /\ \/ /\ chosen # None /\ starting[chosen] = "no"
        /\ starting' = [starting EXCEPT ![chosen] = "sent"]
        /\ FlowTo("STARTING", started)
     \/ /\ chosen # None => starting[chosen] # "no"
        /\ FlowTo("IDLE", started)
        /\ UNCHANGED starting
  /\ UNCHANGED <<rows, chosen, asked, preflight, clicks, overlapped, summary, faults, lost>>

\* The server: one generation of the shop at a time, and no refusal is final.
Start(b) ==
  /\ starting[b] = "sent"
  /\ \A a \in Batches : row[a].status # "IN_PROGRESS"
  /\ row' = [row EXCEPT ![b] = Row("IN_PROGRESS", 0)]
  /\ hash' = [hash EXCEPT ![b] = Row("RUNNING", 0)]
  /\ job' = [job EXCEPT ![b] = [j \in Jobs |-> "generating"]]
  /\ starting' = [starting EXCEPT ![b] = "made"]
  /\ lost' = {}
  /\ UNCHANGED <<read, phase, chosen, asked, preflight, clicks, overlapped, started, summary,
                 link, faults>>

Started(b) ==
  /\ starting[b] = "made"
  /\ starting' = [starting EXCEPT ![b] = "answered"]
  /\ FlowTo("GENERATING", b)
  /\ UNCHANGED <<rows, chosen, asked, preflight, clicks, overlapped, summary, faults, lost>>

\* Refused: another operation of the shop, credits, the candidates
Refused(b) ==
  /\ starting[b] = "sent"
  /\ starting' = [starting EXCEPT ![b] = "no"]
  /\ Fault \/ ((\E a \in Batches : row[a].status = "IN_PROGRESS") /\ UNCHANGED faults)
  /\ FlowTo("IDLE", started)
  /\ UNCHANGED <<rows, chosen, asked, preflight, clicks, overlapped, summary, lost>>

CloseSummary ==
  /\ phase = "SUMMARY"
  /\ chosen' = None /\ preflight' = None /\ summary' = Row("NONE", 0)
  /\ FlowTo("IDLE", None)
  /\ UNCHANGED <<rows, asked, starting, clicks, overlapped, faults, lost>>

-----------------------------------------------------------------------------
JobStep(b, j) == Count(b, j) \/ Read(b, j) \/ Publish(b, j)

StreamStep == Open \/ Reconnect \/ Handle \/ Subscribe

Answer(b) == Preflight(b) \/ Start(b) \/ Started(b) \/ Refused(b)

Next ==
  \/ StreamStep \/ OpenFails \/ Breaks \/ StreamFails
  \/ Cancel \/ Confirm \/ CloseSummary
  \/ \E b \in Batches :
       \/ Generate(b) \/ Answer(b) \/ PreflightFails(b)
       \/ \E j \in Jobs : JobStep(b, j) \/ JobRunsAgain(b, j)

Spec == Init /\ [][Next]_vars

\* Jobs run, events are carried, the browser handles them and reconnects.
FairSpec == /\ Spec
            /\ WF_vars(StreamStep)
            /\ \A b \in Batches, j \in Jobs : WF_vars(JobStep(b, j))

-----------------------------------------------------------------------------
\* Properties

TypeOK ==
  /\ row \in [Batches -> Rows] /\ hash \in [Batches -> Rows]
  /\ job \in [Batches -> [Jobs -> {"absent", "generating", "reading", "publishing", "over"}]]
  /\ read \in [Batches -> [Jobs -> Rows]]
  /\ phase \in Phases /\ {chosen, preflight, started} \subseteq Batches \cup {None}
  /\ asked \in [Batches -> 0 .. MaxClicks]
  /\ starting \in [Batches -> {"no", "sent", "made", "answered"}]
  /\ summary \in Rows
  /\ conn \in {"off", "opening", "open", "waiting", "over"}
  /\ stream \in {"none", "subscribing", "subscribed"}
  /\ \A i \in 1 .. Len(wire) : wire[i].data \in Rows
  /\ clicks \in 0 .. MaxClicks /\ faults \in 0 .. MaxFaults /\ overlapped \in BOOLEAN

\* The summary the merchant sees is the final state of the batch that was
\* started last: no event of another batch, or of an earlier moment, ends the flow.
SummaryIsFinal ==
  phase = "SUMMARY" => /\ started # None
                       /\ summary = row[started]
                       /\ summary.status \in Terminal

\* useGenerationFlow.ts:7: the flow goes forward, and what the merchant confirmed
\* is what is generated; unless a preflight was asked for while another was
\* under way, whose answers come in any order.
ConfirmedIsStarted ==
  overlapped \/ /\ phase = "CONFIRMING" => preflight = chosen
                /\ phase = "GENERATING" => started = chosen
                /\ phase \in {"STARTING", "GENERATING"} => \A b \in Batches : asked[b] = 0

\* A batch that is over takes the page to its summary, across connections that
\* break and jobs that publish twice, unless the event was lost: published between
\* the snapshot and the subscription, overwritten in the hash by a slower job,
\* or the stream was ended for good.
GenerationIsSummarised ==
  (\E b \in Batches : row[b].status \in Terminal /\ phase = "GENERATING" /\ started = b)
    ~> phase # "GENERATING" \/ lost # {}
=============================================================================
