------------------------- MODULE MCContinuousScan -------------------------
(***************************************************************************)
(* Instances of ContinuousScan for TLC.                                    *)
(***************************************************************************)
EXTENDS ContinuousScan

\* The merchant goes back and forth between two sets of images.
MCContent == [v \in 0 .. MaxVersion |-> IF v % 2 = 0 THEN "these" ELSE "those"]
=============================================================================
