-------------------------- MODULE MCOperationLock --------------------------
(***************************************************************************)
(* Instances of OperationLock for TLC.                                     *)
(***************************************************************************)
EXTENDS OperationLock, TLC

CONSTANTS s1, s2, g1, g2, w1, w2, o1, o2, o3, o4

\* Every operation its own batch id
OwnIds == [o \in RowOps |-> CASE o = s1 -> o1 [] o = s2 -> o2 [] o = g1 -> o3 [] o = g2 -> o4]

\* The two scans requested in one millisecond
SharedScanId == [o \in RowOps |-> CASE o \in Scans -> o1 [] o = g1 -> o3 [] o = g2 -> o4]
=============================================================================
