--------------------------- MODULE MCScanPipeline ---------------------------
(***************************************************************************)
(* Instances of ScanPipeline for TLC.                                      *)
(***************************************************************************)
EXTENDS ScanPipeline

CONSTANTS t1, t2

\* One task can be retried, the other cannot.
MCMaxAttempts == [t \in Tasks |-> IF t = t1 THEN 2 ELSE 1]
=============================================================================
