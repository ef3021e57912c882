---------------------------- MODULE MCWriteback ----------------------------
(***************************************************************************)
(* Instances of Writeback for TLC.                                         *)
(***************************************************************************)
EXTENDS Writeback, TLC

CONSTANTS b1, b2, c1, c2

Symmetry == Permutations(Candidates) \cup Permutations(Batches)
=============================================================================
