---------------------------- MODULE CandidateList ----------------------------
(***************************************************************************)
(* The list of the page of candidates (app.candidates.tsx): the first page *)
(* of a filter, the further ones that an observer asks for when the end of *)
(* the list scrolls into view (useInfiniteScroll.ts), the reload after a   *)
(* generation, and the decorative marks.  The server answers with a page   *)
(* of the projection's rows after a cursor (candidate-list.server.ts),     *)
(* while scans and generations change them.                                *)
(*                                                                         *)
(* Of a row, the status is modelled, as far as filters tell it apart, for  *)
(* images without a draft; an image has a row in each group that shows it. *)
(***************************************************************************)
EXTENDS Naturals, FiniteSets

CONSTANTS Ids,          \* rows of candidate_group_projection, in their order
          Candidate(_), \* the candidate of a row
          Filters,      \* [filter -> the statuses it lists]
          PageSize,
          MaxActs,      \* bound on what the merchant, and others, do
          MaxFaults     \* bound on what fails

VARIABLES row,      \* the server: row -> its status
          filter,   \* of the page's URL
          items,    \* the list: row -> the status it was loaded with
          cursor,   \* nextCursor; 0 when there is no more
          loading,  \* the first page is on its way
          first,    \* the request for it
          dropped,  \* a request for it was aborted, and the page does not know yet
          more,     \* the request for the next page (loadingMore)
          reload,   \* the request after a generation
          watched,  \* does the observer watch the end of the list?
          mark,     \* candidate -> its request to mark or unmark
          touched,  \* history: rows that changed under the list
          disturbed,\* history: a page came late, or never, for the list it was for
          blind,    \* history: the first page ended where the list before it did
          acts, faults

requests == <<first, dropped, more, reload>>
history == <<touched, disturbed, blind>>
vars == <<row, filter, items, cursor, loading, requests, watched, mark, history, acts, faults>>

-----------------------------------------------------------------------------
Statuses == {"MISSING", "DECORATIVE_SKIPPED", "HAS_ALT"}
Candidates == {Candidate(r) : r \in Ids}
RowsOf(c) == {r \in Ids : Candidate(r) = c}

\* A status is of the image: what its rows show, those that are there.
Coherent(w) ==
  \A r, s \in Ids : Candidate(r) = Candidate(s) => w[r] = w[s] \/ "none" \in {w[r], w[s]}

NoRequest == [step |-> "none", filter |-> CHOOSE f \in DOMAIN Filters : TRUE, cursor |-> 0,
              rows |-> << >>, next |-> 0]
Request(f, c) == [NoRequest EXCEPT !.step = "sent", !.filter = f, !.cursor = c]
NoMark == [step |-> "none", to |-> "none"]

Act == acts < MaxActs /\ acts' = acts + 1
Fault == faults < MaxFaults /\ faults' = faults + 1

\* The end of the list is there to be watched.
Sentinel(i, c, l) == ~l /\ DOMAIN i # {} /\ c # 0

\* A rendering: the effect of useInfiniteScroll runs again only when the callback
\* changes, which depends on the filter, the cursor and loadingMore.
Render(f, i, c, l, m) ==
  /\ filter' = f /\ items' = i /\ cursor' = c /\ loading' = l /\ more' = m
  /\ watched' = IF <<f, c, m.step = "none">> # <<filter, cursor, more.step = "none">>
                THEN Sentinel(i, c, l) /\ m.step = "none"
                ELSE watched /\ Sentinel(i, c, l)

Init ==
  /\ row \in {w \in [Ids -> Statuses] : Coherent(w)}
  /\ filter \in DOMAIN Filters
  /\ items = << >> /\ cursor = 0 /\ loading = TRUE
  /\ first = Request(filter, 0) /\ dropped = FALSE /\ more = NoRequest /\ reload = NoRequest
  /\ watched = FALSE
  /\ mark = [c \in Candidates |-> NoMark]
  /\ touched = {} /\ disturbed = FALSE /\ blind = FALSE
  /\ acts = 0 /\ faults = 0

-----------------------------------------------------------------------------
\* The server

\* Mutant of After: the row that the probe for a next page saw counts as listed.
AfterSkipsOne(r, c) == r > c + 1

\* buildCandidateListQuery: the rows after the cursor
After(r, c) == r > c

\* listCandidates: one row more than the page tells whether there is a next one.
Page(q) ==
  LET M == {r \in Ids : After(r, q.cursor) /\ row[r] \in Filters[q.filter]}
      P == {r \in M : Cardinality({s \in M : s < r}) < PageSize}
  IN  [q EXCEPT !.step = "served",
                !.rows = [r \in P |-> row[r]],
                !.next = IF M = P THEN 0 ELSE CHOOSE r \in P : \A s \in P : s <= r]

FirstServed ==
  /\ first.step = "sent"
  /\ first' = Page(first)
  /\ touched' = {}
  /\ UNCHANGED <<row, filter, items, cursor, loading, dropped, more, reload, watched, mark,
                 disturbed, blind, acts, faults>>

MoreServed ==
  /\ more.step = "sent"
  /\ more' = Page(more)
  /\ UNCHANGED <<row, filter, items, cursor, loading, first, dropped, reload, watched, mark,
                 history, acts, faults>>

ReloadServed ==
  /\ reload.step = "sent"
  /\ reload' = Page(reload)
  /\ touched' = {}
  /\ UNCHANGED <<row, filter, items, cursor, loading, first, dropped, more, watched, mark,
                 disturbed, blind, acts, faults>>

\* A scan or a generation changes the status of an image, or gives rows to it and
\* takes them away.
Others ==
  /\ Act
  /\ \E c \in Candidates : \E w \in [RowsOf(c) -> Statuses \cup {"none"}] :
       /\ row' = [r \in Ids |-> IF r \in RowsOf(c) THEN w[r] ELSE row[r]]
       /\ row' # row /\ Coherent(row')
       /\ touched' = touched \cup {r \in Ids : row'[r] # row[r]}
  /\ UNCHANGED <<filter, items, cursor, loading, requests, watched, mark, disturbed, blind,
                 faults>>

-----------------------------------------------------------------------------
\* The list

\* updateFilter and the effect on fetchCandidates, which aborts the request for the
\* first page of the old filter, but no other.
ChangeFilter(f) ==
  /\ Act
  /\ f # filter
  /\ Render(f, items, cursor, TRUE, more)
  /\ first' = Request(f, 0)
  /\ dropped' = (dropped \/ first # NoRequest)
  /\ disturbed' = (disturbed \/ more # NoRequest \/ reload # NoRequest)
  /\ UNCHANGED <<row, reload, mark, touched, blind, faults>>

\* The end of an aborted request also ends loading.
Dropped ==
  /\ dropped
  /\ dropped' = FALSE
  /\ Render(filter, items, cursor, FALSE, more)
  /\ UNCHANGED <<row, first, reload, mark, history, acts, faults>>

FirstLoaded ==
  /\ first.step = "served"
  /\ first' = NoRequest
  /\ Render(filter, first.rows, first.next, FALSE, more)
  /\ blind' = (Sentinel(first.rows, first.next, FALSE) /\ cursor = first.next)
  /\ UNCHANGED <<row, dropped, reload, mark, touched, disturbed, acts, faults>>

\* The list of the old filter stays, under an error.
FirstFails ==
  /\ first # NoRequest
  /\ Fault
  /\ first' = NoRequest
  /\ Render(filter, items, cursor, FALSE, more)
  /\ disturbed' = TRUE
  /\ UNCHANGED <<row, dropped, reload, mark, touched, blind, acts>>

\* handleLoadMore, when the end of the list comes into view
LoadMore ==
  /\ watched /\ more = NoRequest
  /\ Render(filter, items, cursor, loading, Request(filter, cursor))
  /\ disturbed' = (disturbed \/ reload # NoRequest)
  /\ UNCHANGED <<row, first, dropped, reload, mark, touched, blind, acts, faults>>

\* mergeUniqueItems
Merged(i, j) == [r \in DOMAIN i \cup DOMAIN j |-> IF r \in DOMAIN i THEN i[r] ELSE j[r]]

MoreLoaded ==
  /\ more.step = "served"
  /\ Render(filter, Merged(items, more.rows), more.next, loading, NoRequest)
  /\ UNCHANGED <<row, first, dropped, reload, mark, history, acts, faults>>

\* The observer watches the end again, and will try again.
MoreFails ==
  /\ more # NoRequest
  /\ Fault
  /\ Render(filter, items, cursor, loading, NoRequest)
  /\ UNCHANGED <<row, first, dropped, reload, mark, history, acts>>

\* handleCloseSummary, after a generation (GenerationPage): nothing aborts this
\* request either, and its failure is not shown.
CloseSummary ==
  /\ Act
  /\ reload = NoRequest /\ ~loading
  /\ reload' = Request(filter, 0)
  /\ disturbed' = (disturbed \/ more # NoRequest \/ first # NoRequest)
  /\ UNCHANGED <<row, filter, items, cursor, loading, first, dropped, more, watched, mark,
                 touched, blind, faults>>

Reloaded ==
  /\ reload.step = "served"
  /\ reload' = NoRequest
  /\ Render(filter, reload.rows, reload.next, loading, more)
  /\ UNCHANGED <<row, first, dropped, mark, history, acts, faults>>

ReloadFails ==
  /\ reload # NoRequest
  /\ Fault
  /\ reload' = NoRequest
  /\ disturbed' = TRUE
  /\ UNCHANGED <<row, filter, items, cursor, loading, first, dropped, more, watched, mark,
                 touched, blind, acts>>

-----------------------------------------------------------------------------
\* handleDecorativeConfirm: a row is marked, or unmarked, as it is shown.

MarkOf(s) == IF s = "DECORATIVE_SKIPPED" THEN "MISSING" ELSE "DECORATIVE_SKIPPED"

Mark(r) ==
  /\ Act
  /\ ~loading /\ r \in DOMAIN items /\ items[r] \in {"MISSING", "DECORATIVE_SKIPPED"}
  /\ mark[Candidate(r)] = NoMark
  /\ mark' = [mark EXCEPT ![Candidate(r)] = [step |-> "sent", to |-> MarkOf(items[r])]]
  /\ UNCHANGED <<row, filter, items, cursor, loading, requests, watched, history, faults>>

\* markDecorativeCandidate, unmarkDecorativeCandidate: for all rows of the image.  One
\* that has no row any more is out of scope, and one with a text cannot be marked;
\* if it is unmarked, the answer is what it is.
MarkServed(c) ==
  LET there == {r \in RowsOf(c) : row[r] # "none"}
      filled == \E r \in there : row[r] = "HAS_ALT"
      to == IF filled THEN "HAS_ALT" ELSE mark[c].to
      late == {q \in {first, more, reload} : q.step = "served"} # {}
      refused == there = {} \/ (filled /\ mark[c].to = "DECORATIVE_SKIPPED")
  IN /\ mark[c].step = "sent"
     /\ \/ /\ ~refused
           /\ row' = [r \in Ids |-> IF r \in there THEN to ELSE row[r]]
           /\ mark' = [mark EXCEPT ![c] = [step |-> "made", to |-> to]]
           /\ touched' = touched \cup {r \in RowsOf(c) :
                                        late \/ (to = "MISSING" /\ r \notin DOMAIN items)}
        \/ /\ refused
           /\ mark' = [mark EXCEPT ![c] = NoMark]
           /\ UNCHANGED <<row, touched>>
     /\ UNCHANGED <<filter, items, cursor, loading, requests, watched, disturbed, blind, acts,
                    faults>>

\* The mark shows on every row of its image.
Shown(i, c, s) == [r \in DOMAIN i |-> IF Candidate(r) = c THEN s ELSE i[r]]

MarkAnswered(c) ==
  /\ mark[c].step = "made"
  /\ Render(filter, Shown(items, c, mark[c].to), cursor, loading, more)
  /\ mark' = [mark EXCEPT ![c] = NoMark]
  /\ UNCHANGED <<row, first, dropped, reload, history, acts, faults>>

\* No answer comes, though the server may have made it.
MarkFails(c) ==
  /\ mark[c] # NoMark
  /\ Fault
  /\ mark' = [mark EXCEPT ![c] = NoMark]
  /\ touched' = IF mark[c].step = "made" THEN touched \cup RowsOf(c) ELSE touched
  /\ UNCHANGED <<row, filter, items, cursor, loading, requests, watched, disturbed, blind, acts>>

-----------------------------------------------------------------------------
Answers == FirstServed \/ MoreServed \/ ReloadServed \/ Dropped \/ FirstLoaded \/ MoreLoaded
           \/ Reloaded \/ \E c \in Candidates : MarkServed(c) \/ MarkAnswered(c)

Failures == FirstFails \/ MoreFails \/ ReloadFails \/ \E c \in Candidates : MarkFails(c)

Acts == Others \/ CloseSummary \/ LoadMore
        \/ (\E f \in DOMAIN Filters : ChangeFilter(f)) \/ \E r \in Ids : Mark(r)

Next == Answers \/ Failures \/ Acts

Spec == Init /\ [][Next]_vars

\* Requests are answered, and the merchant scrolls on.
FairSpec == Spec /\ WF_vars(Answers) /\ WF_vars(LoadMore)

-----------------------------------------------------------------------------
\* Properties

TypeOK ==
  /\ row \in [Ids -> Statuses \cup {"none"}]
  /\ filter \in DOMAIN Filters /\ DOMAIN items \subseteq Ids /\ cursor \in Ids \cup {0}
  /\ {loading, dropped, watched, disturbed, blind} \subseteq BOOLEAN
  /\ {first.step, more.step, reload.step} \subseteq {"none", "sent", "served"}
  /\ touched \subseteq Ids
  /\ acts \in 0 .. MaxActs /\ faults \in 0 .. MaxFaults

\* The rows the list should show: those of the filter, but for what changed meanwhile,
\* and for what the merchant marked in it, which stays as it is now.
Whole ==
  \A r \in Ids \ touched :
    /\ row[r] \in Filters[filter] => r \in DOMAIN items
    /\ r \in DOMAIN items => items[r] = row[r]

\* A merchant who scrolls on comes to see all the rows of the filter, with the status
\* they have: pages that come while rows change leave none out, and a mark
\* shows on every row of its image.  Excepted are a page that came for another list
\* (of an earlier filter, or before a reload), a first page that failed, and
\* a first page that ends at the same row as that of the filter before: the
\* observer then watches an element that is gone.
ListIsWhole ==
  <>[](disturbed \/ blind \/ Whole)
=============================================================================
