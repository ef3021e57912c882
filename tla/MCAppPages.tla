----------------------------- MODULE MCAppPages -----------------------------
(***************************************************************************)
(* Instances of AppPages for TLC.                                          *)
(***************************************************************************)
EXTENDS AppPages, TLC

CONSTANTS b1, b2, j1, j2, t1, t2

MCMaxFaults == [candidates |-> 1, scan |-> 2, drafts |-> 1, writebacks |-> 1, list |-> 1]

MCMaxActs == [drafts |-> 3, list |-> 2]

\* An image that is in two groups, and one that is in one
MCCandidate(r) == IF r = 3 THEN 1 ELSE r

MCFilters == [ALL |-> {"MISSING", "DECORATIVE_SKIPPED", "HAS_ALT"}, PENDING |-> {"MISSING"}]
=============================================================================
