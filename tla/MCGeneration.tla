---------------------------- MODULE MCGeneration ----------------------------
(***************************************************************************)
(* Instances of Generation for TLC.                                        *)
(***************************************************************************)
EXTENDS Generation, TLC

CONSTANTS b1, b2, c1, c2

Symmetry == Permutations(Candidates) \cup Permutations(Batches)
=============================================================================
