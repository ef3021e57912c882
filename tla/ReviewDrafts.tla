---------------------------- MODULE ReviewDrafts ----------------------------
(***************************************************************************)
(* The page on which a merchant reviews the drafts (app.review.tsx): it    *)
(* shows an edit or a decorative mark before the server has it, takes it   *)
(* back when the server refuses, loads its list again when the filter      *)
(* changes, and has drafts written back.                                   *)
(*                                                                         *)
(* One image of the list is modelled, with the server's draft, mark and    *)
(* candidate.  What a batch does to its images is in Writeback, and how    *)
(* the page follows it is in ReviewBatches.                                *)
(***************************************************************************)
EXTENDS Naturals, FiniteSets

CONSTANTS Texts,       \* what the merchant may write
          Generated,   \* the text of the model
          None,
          Batches,     \* writebacks of the image
          MaxActs,     \* bound on what the merchant does
          MaxFaults    \* bound on what fails

VARIABLES edited,    \* alt_draft.edited_text
          marked,    \* the image's decorative mark
          status,    \* of the candidate
          shown,     \* displayText on the page
          decorative,\* the switch on the page
          save,      \* the request that saves an edit
          toggles,   \* the requests that mark or unmark
          reload,    \* the request for the list
          batch,     \* batch -> its job_batch row
          writes,    \* batch -> the text of its job
          promised,  \* batch -> the text shown when it was confirmed; None while
                     \* an edit was on its way to the server
          starting,  \* the request that starts a batch
          overlapped,\* history: answers that may have come out of order
          acts, faults

draft == <<edited, marked, status>>
item == <<shown, decorative, save, toggles, reload, overlapped>>
work == <<batch, writes, promised, starting>>
vars == <<draft, item, work, acts, faults>>

-----------------------------------------------------------------------------
DisplayText(text) == IF text = None THEN Generated ELSE text

NoSave == [step |-> "none", to |-> None, from |-> None]
NoList == [step |-> "none", text |-> None, marked |-> FALSE]

Init ==
  /\ edited = None /\ marked = FALSE /\ status = "GENERATED"
  /\ shown = DisplayText(edited) /\ decorative = FALSE
  /\ save = NoSave /\ toggles = {} /\ reload = NoList /\ overlapped = FALSE
  /\ batch = [b \in Batches |-> "none"]
  /\ writes = [b \in Batches |-> None] /\ promised = [b \in Batches |-> None]
  /\ starting = None
  /\ acts = 0 /\ faults = 0

\* The merchant does something; the dialog that confirms a writeback covers the page
\* until its request is answered.
Act == starting = None /\ acts < MaxActs /\ acts' = acts + 1
Fault == faults < MaxFaults /\ faults' = faults + 1

Busy == save # NoSave \/ toggles # {} \/ reload # NoList

-----------------------------------------------------------------------------
\* Edits: saveDraft when the field is left, one at a time as it is disabled meanwhile

Edit(text) ==
  /\ Act
  /\ save = NoSave /\ ~decorative /\ text # shown
  /\ save' = [step |-> "sent", to |-> text, from |-> shown]
  /\ shown' = text
  /\ overlapped' = (overlapped \/ reload # NoList)
  /\ UNCHANGED <<draft, decorative, toggles, reload, work, faults>>

\* updateDraftEditedText: a draft may be edited when GENERATED, as it also is while
\* a batch writes it, or when writing it back has failed.
Editable == status \in {"GENERATED", "WRITEBACK_FAILED_RETRYABLE"}

SaveServed ==
  /\ save.step = "sent"
  /\ \/ Editable /\ edited' = save.to /\ save' = [save EXCEPT !.step = "saved"]
     \/ ~Editable /\ save' = [save EXCEPT !.step = "refused"] /\ UNCHANGED edited
  /\ UNCHANGED <<marked, status, shown, decorative, toggles, reload, overlapped, work, acts,
                 faults>>

SaveAnswered ==
  /\ save.step = "saved"
  /\ save' = NoSave
  /\ UNCHANGED <<draft, shown, decorative, toggles, reload, overlapped, work, acts, faults>>

\* Mutant of SaveFails: what was shown too soon stays.
SaveForgotten ==
  /\ save.step \in {"sent", "saved", "refused"}
  /\ (save.step # "refused" => Fault) /\ (save.step = "refused" => UNCHANGED faults)
  /\ save' = NoSave
  /\ overlapped' = (overlapped \/ save.step = "saved")
  /\ UNCHANGED <<draft, shown, decorative, toggles, reload, work, acts>>

\* Refused, or no answer comes, though the server may have saved the edit: the page
\* goes back to what it showed before.
SaveFails ==
  /\ save.step \in {"sent", "saved", "refused"}
  /\ (save.step # "refused" => Fault) /\ (save.step = "refused" => UNCHANGED faults)
  /\ shown' = save.from
  /\ save' = NoSave
  /\ overlapped' = (overlapped \/ save.step = "saved")
  /\ UNCHANGED <<draft, decorative, toggles, reload, work, acts>>

-----------------------------------------------------------------------------
\* The decorative switch, which nothing disables while a request is under way

Toggle ==
  /\ Act
  /\ decorative' = ~decorative
  /\ toggles' = toggles \cup {[id |-> acts, to |-> ~decorative, step |-> "sent"]}
  /\ overlapped' = (overlapped \/ toggles # {} \/ reload # NoList)
  /\ UNCHANGED <<draft, shown, save, reload, work, faults>>

\* markDecorativeCandidate and unmarkDecorativeCandidate; to mark again or to
\* unmark what is not marked changes nothing.
ToggleServed(t) ==
  /\ t.step = "sent"
  /\ LET next == [t EXCEPT !.step = "made"]
     IN \/ /\ t.to /\ (marked \/ Editable)
           /\ marked' = TRUE /\ status' = "DECORATIVE_SKIPPED"
           /\ toggles' = (toggles \ {t}) \cup {next}
        \/ /\ ~t.to /\ marked
           /\ marked' = FALSE /\ status' = "GENERATED"
           /\ toggles' = (toggles \ {t}) \cup {next}
        \/ /\ IF t.to THEN ~marked /\ ~Editable ELSE ~marked
           /\ toggles' = (toggles \ {t}) \cup {[t EXCEPT !.step = IF t.to THEN "refused" ELSE "made"]}
           /\ UNCHANGED <<marked, status>>
  /\ UNCHANGED <<edited, shown, decorative, save, reload, overlapped, work, acts, faults>>

ToggleAnswered(t) ==
  /\ t.step = "made"
  /\ toggles' = toggles \ {t}
  /\ UNCHANGED <<draft, shown, decorative, save, reload, overlapped, work, acts, faults>>

ToggleFails(t) ==
  /\ (t.step # "refused" => Fault) /\ (t.step = "refused" => UNCHANGED faults)
  /\ toggles' = toggles \ {t}
  /\ decorative' = ~t.to
  /\ overlapped' = (overlapped \/ t.step = "made")
  /\ UNCHANGED <<draft, shown, save, reload, work, acts>>

-----------------------------------------------------------------------------
\* The list, loaded again when the filter or the page changes: the request under
\* way is aborted.

Filter ==
  /\ Act
  /\ reload' = [NoList EXCEPT !.step = "sent"]
  /\ overlapped' = (overlapped \/ save # NoSave \/ toggles # {})
  /\ UNCHANGED <<draft, shown, decorative, save, toggles, work, faults>>

ListServed ==
  /\ reload.step = "sent"
  /\ reload' = [step |-> "served", text |-> DisplayText(edited), marked |-> marked]
  /\ UNCHANGED <<draft, shown, decorative, save, toggles, overlapped, work, acts, faults>>

ListLoaded ==
  /\ reload.step = "served"
  /\ shown' = reload.text /\ decorative' = reload.marked
  /\ reload' = NoList
  /\ UNCHANGED <<draft, save, toggles, overlapped, work, acts, faults>>

-----------------------------------------------------------------------------
\* Writebacks

\* confirmWriteback, in a dialog that does not wait for an edit to be saved
Confirm(b) ==
  /\ Act
  /\ batch[b] = "none"
  /\ starting' = b
  /\ batch' = [batch EXCEPT ![b] = "asked"]
  /\ promised' = [promised EXCEPT ![b] = IF save = NoSave THEN shown ELSE None]
  /\ UNCHANGED <<draft, item, writes, faults>>

\* displayText of validateWritebackCandidates
TextToWrite == DisplayText(edited)

\* startWriteback: one writeback of the shop at a time, and only of what may be
\* written; the text goes into the job.
StartServed(b) ==
  /\ batch[b] = "asked"
  /\ \/ /\ \A c \in Batches : batch[c] # "RUNNING"
        /\ Editable
        /\ batch' = [batch EXCEPT ![b] = "RUNNING"]
        /\ writes' = [writes EXCEPT ![b] = TextToWrite]
        /\ UNCHANGED faults
     \/ /\ \/ Fault
           \/ (~Editable \/ \E c \in Batches : batch[c] = "RUNNING") /\ UNCHANGED faults
        /\ batch' = [batch EXCEPT ![b] = "refused"]
        /\ UNCHANGED writes
  /\ UNCHANGED <<draft, item, promised, starting, acts>>

StartAnswered ==
  /\ starting # None /\ batch[starting] # "asked"
  /\ starting' = None
  /\ UNCHANGED <<draft, item, batch, writes, promised, acts, faults>>

BatchEnds(b) ==
  /\ batch[b] = "RUNNING"
  /\ batch' = [batch EXCEPT ![b] = "over"]
  /\ status' \in IF marked THEN {status} ELSE {"WRITTEN", "WRITEBACK_FAILED_RETRYABLE"}
  /\ UNCHANGED <<edited, marked, item, writes, promised, starting, acts, faults>>

-----------------------------------------------------------------------------
EditStep ==
  \/ \E text \in Texts : Edit(text)
  \/ SaveServed \/ SaveAnswered \/ SaveFails
  \/ Toggle
  \/ \E t \in toggles : ToggleServed(t) \/ ToggleAnswered(t) \/ ToggleFails(t)
  \/ Filter \/ ListServed \/ ListLoaded

WritebackStep ==
  \/ StartAnswered
  \/ \E b \in Batches : Confirm(b) \/ StartServed(b) \/ BatchEnds(b)

Next == EditStep \/ WritebackStep

Spec == Init /\ [][Next]_vars

-----------------------------------------------------------------------------
\* Properties

TypeOK ==
  /\ edited \in Texts \cup {None} /\ marked \in BOOLEAN
  /\ status \in {"GENERATED", "DECORATIVE_SKIPPED", "WRITTEN", "WRITEBACK_FAILED_RETRYABLE"}
  /\ shown \in Texts \cup {Generated} /\ decorative \in BOOLEAN
  /\ save.step \in {"none", "sent", "saved", "refused"}
  /\ reload.step \in {"none", "sent", "served"}
  /\ \A t \in toggles : t.step \in {"sent", "made", "refused"}
  /\ batch \in [Batches -> {"none", "asked", "refused", "RUNNING", "over"}]

\* What the merchant sees is what counts.  When nothing is under way, the page shows
\* the draft and the mark the server has: what was shown too soon and refused is
\* taken back.  And a batch writes the text that was shown when the merchant
\* confirmed it, unless an edit was still on its way then.  Two changes under way at
\* once, a list loaded beside one, or an answer that is lost are excepted: they may
\* leave another text on the page.
ShownCounts ==
  ~overlapped =>
    /\ ~Busy => shown = DisplayText(edited) /\ decorative = marked
    /\ \A b \in Batches : promised[b] # None /\ writes[b] # None => writes[b] = promised[b]
=============================================================================
