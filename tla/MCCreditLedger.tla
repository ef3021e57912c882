--------------------------- MODULE MCCreditLedger ---------------------------
(***************************************************************************)
(* Instances of CreditLedger for TLC.                                      *)
(***************************************************************************)
EXTENDS CreditLedger, TLC

CONSTANTS b1, b2, k1, k2, c1, c2, p1, p2

MCBucketType == [k \in Buckets |-> IF k = k1 THEN "FREE_MONTHLY_INCLUDED" ELSE "OVERAGE_PACK"]

\* A window that closes while the run lasts, and one that does not
MCWindows == {[effectiveAt |-> 0, expiresAt |-> 1], [effectiveAt |-> 0, expiresAt |-> 9]}

\* Only the latter
MCOneWindow == {[effectiveAt |-> 0, expiresAt |-> 9]}

Symmetry == Permutations(Candidates) \cup Permutations(Callers) \cup Permutations(Batches)
=============================================================================
