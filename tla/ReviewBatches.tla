---------------------------- MODULE ReviewBatches ----------------------------
(***************************************************************************)
(* How the page on which a merchant reviews the drafts (app.review.tsx)    *)
(* follows the writebacks it starts: by requests for a batch's details,    *)
(* whose answers may come late, and by a stream of the batch's counts      *)
(* (useWritebackSSE.ts, writeback-sse.service.ts, api.writeback.*.tsx).    *)
(* What a batch does to its images is in Writeback.                        *)
(***************************************************************************)
EXTENDS Naturals

CONSTANTS Batches, None,
          MaxFaults    \* bound on what fails

VARIABLES batch,     \* batch -> its job_batch row
          starting,  \* the request that starts a batch
          active,    \* activeBatchId
          detail,    \* batchDetail
          load,      \* batch -> the requests for its details
          conn,      \* the hook's connection
          lost,      \* history: why the page may never hear of the batch it started last
          faults

vars == <<batch, starting, active, detail, load, conn, lost, faults>>

-----------------------------------------------------------------------------
NoDetail == [batch |-> None, over |-> FALSE]

\* Who asks for the details of a batch: confirmWriteback, the effect on the URL's
\* batchId, handleWritebackComplete
Askers == {"confirm", "param", "complete"}

Fault == faults < MaxFaults /\ faults' = faults + 1

\* The hook follows the active batch until its details say that it is over.
Followed(a, d) == IF a # None /\ ~d.over THEN a ELSE None

Init ==
  /\ batch = [b \in Batches |-> "none"]
  /\ starting = None
  /\ active = None /\ detail = NoDetail
  /\ load = [b \in Batches |-> [a \in Askers |-> "none"]]
  /\ conn = "off" /\ lost = {}
  /\ faults = 0

-----------------------------------------------------------------------------
\* A new connection when what is followed changes
Show(a, d) ==
  /\ active' = a /\ detail' = d
  /\ conn' = IF Followed(a, d) = Followed(active, detail) THEN conn
             ELSE IF Followed(a, d) = None THEN "off" ELSE "opening"

\* An asker's request for the details of b; one the effect sent for another batch
\* is aborted.
Asked(b, a) == [c \in Batches |->
                  IF c = b THEN [load[c] EXCEPT ![a] = "sent"]
                  ELSE IF a = "param" THEN [load[c] EXCEPT ![a] = "none"] ELSE load[c]]

LoadServed(b, a) ==
  /\ load[b][a] = "sent"
  /\ load' = [load EXCEPT ![b][a] = IF batch[b] = "over" THEN "over" ELSE "running"]
  /\ UNCHANGED <<batch, starting, active, detail, conn, lost, faults>>

\* loadBatchDetail shows what comes, and follows it unless it is over.  (What comes
\* late, for a batch that is not the active one, takes its place.)
Loaded(b, a) ==
  /\ load[b][a] \in {"running", "over"}
  /\ load' = [load EXCEPT ![b][a] = "none"]
  /\ LET over == load[b][a] = "over"
     IN Show(IF over THEN active ELSE b, [batch |-> b, over |-> over])
  /\ lost' = IF active \notin {None, b} THEN lost \cup {"stale"} ELSE lost
  /\ UNCHANGED <<batch, starting, faults>>

LoadFails(b, a) ==
  /\ load[b][a] # "none"
  /\ Fault
  /\ load' = [load EXCEPT ![b][a] = "none"]
  /\ lost' = lost \cup {"load"}
  /\ UNCHANGED <<batch, starting, active, detail, conn>>

Open ==
  /\ conn = "opening"
  /\ conn' = "open"
  /\ UNCHANGED <<batch, starting, active, detail, load, lost, faults>>

\* The connection cannot be opened, or breaks; it is opened again after three
\* seconds, unless the session has expired or the server ended the stream.
Breaks ==
  /\ conn \in {"opening", "open"}
  /\ Fault
  /\ \/ conn' = "waiting" /\ UNCHANGED lost
     \/ conn' = "over" /\ lost' = lost \cup {"stream"}
  /\ UNCHANGED <<batch, starting, active, detail, load>>

Reconnect ==
  /\ conn = "waiting"
  /\ conn' = "opening"
  /\ UNCHANGED <<batch, starting, active, detail, load, lost, faults>>

\* The stream polls the row and sends "complete" when the batch is over:
\* handleWritebackComplete shows it and asks for the details.
Complete ==
  /\ conn = "open"
  /\ batch[active] = "over"
  /\ Show(active, [batch |-> active, over |-> TRUE])
  /\ load' = Asked(active, "complete")
  /\ UNCHANGED <<batch, starting, lost, faults>>

\* The button that closes the summary; the effect's request is aborted.
Return ==
  /\ detail.over
  /\ Show(None, NoDetail)
  /\ load' = [b \in Batches |-> [load[b] EXCEPT !["param"] = "none"]]
  /\ UNCHANGED <<batch, starting, lost, faults>>

-----------------------------------------------------------------------------
\* Writebacks

Confirm(b) ==
  /\ starting = None /\ batch[b] = "none"
  /\ starting' = b
  /\ batch' = [batch EXCEPT ![b] = "asked"]
  /\ UNCHANGED <<active, detail, load, conn, lost, faults>>

\* startWriteback: one writeback of the shop at a time
StartServed(b) ==
  /\ batch[b] = "asked"
  /\ \/ /\ \A c \in Batches : batch[c] # "RUNNING"
        /\ batch' = [batch EXCEPT ![b] = "RUNNING"]
        /\ UNCHANGED faults
     \/ /\ Fault \/ ((\E c \in Batches : batch[c] = "RUNNING") /\ UNCHANGED faults)
        /\ batch' = [batch EXCEPT ![b] = "refused"]
  /\ UNCHANGED <<starting, active, detail, load, conn, lost>>

\* Mutant of Started: the stream will tell.
StartedUnasked ==
  /\ starting # None /\ batch[starting] \in {"RUNNING", "over"}
  /\ starting' = None
  /\ Show(starting, detail)
  /\ lost' = {}
  /\ UNCHANGED <<batch, load, faults>>

\* The page follows the batch and puts it in its URL: two requests for its details.
Started ==
  /\ starting # None /\ batch[starting] \in {"RUNNING", "over"}
  /\ starting' = None
  /\ Show(starting, detail)
  /\ load' = [Asked(starting, "param") EXCEPT ![starting]["confirm"] = "sent"]
  /\ lost' = {}
  /\ UNCHANGED <<batch, faults>>

\* Refused: the dialog stays, and may be confirmed again.
NotStarted ==
  /\ starting # None /\ batch[starting] = "refused"
  /\ starting' = None
  /\ batch' = [batch EXCEPT ![starting] = "none"]
  /\ UNCHANGED <<active, detail, load, conn, lost, faults>>

BatchEnds(b) ==
  /\ batch[b] = "RUNNING"
  /\ batch' = [batch EXCEPT ![b] = "over"]
  /\ UNCHANGED <<starting, active, detail, load, conn, lost, faults>>

-----------------------------------------------------------------------------
Answers ==
  \/ Open \/ Reconnect \/ Complete
  \/ \E b \in Batches, a \in Askers : LoadServed(b, a) \/ Loaded(b, a)

WritebackStep ==
  \/ Started \/ NotStarted \/ Return
  \/ \E b \in Batches : Confirm(b) \/ StartServed(b) \/ BatchEnds(b)

Next ==
  \/ Answers \/ WritebackStep \/ Breaks
  \/ \E b \in Batches, a \in Askers : LoadFails(b, a)

Spec == Init /\ [][Next]_vars

\* Requests are answered, and the hook reconnects.
FairSpec ==
  /\ Spec
  /\ WF_vars(Open \/ Reconnect) /\ WF_vars(Complete)
  /\ \A b \in Batches, a \in Askers : WF_vars(LoadServed(b, a) \/ Loaded(b, a))

-----------------------------------------------------------------------------
\* Properties

TypeOK ==
  /\ batch \in [Batches -> {"none", "asked", "refused", "RUNNING", "over"}]
  /\ active \in Batches \cup {None}
  /\ detail \in [batch : Batches \cup {None}, over : BOOLEAN]
  /\ load \in [Batches -> [Askers -> {"none", "sent", "running", "over"}]]
  /\ conn \in {"off", "opening", "open", "waiting", "over"}
  /\ (conn = "off") = (Followed(active, detail) = None)

\* The page shows the end of the batch it follows, across connections that break
\* and details that come late; unless a request or the stream fails for good, or
\* the details of an earlier batch come after all.
EndIsTold ==
  LET Followable == \E b \in Batches : active = b /\ batch[b] = "over"
  IN Followable ~> ~Followable \/ detail = [batch |-> active, over |-> TRUE] \/ lost # {}
=============================================================================
