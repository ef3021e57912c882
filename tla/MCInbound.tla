----------------------------- MODULE MCInbound ------------------------------
(***************************************************************************)
(* Instances of Inbound for TLC.                                           *)
(***************************************************************************)
EXTENDS Inbound, TLC

CONSTANTS i1, p1, p2, x1, y1, w1, w2

\* The merchant goes back and forth between two sets of images.
MCContent == [v \in 0 .. MaxVersion |-> IF v % 2 = 0 THEN "these" ELSE "those"]

Symmetry == Permutations(Products) \cup Permutations(Txs)

\* What a transaction says something about
About(t) == IF t.open
            THEN (UNION {t.content.media[o] : o \in t.content.owners})
                 \cup (IF t.content.allCovers THEN Covers ELSE {})
            ELSE {}

\* Targets depend on each other in nothing: one of them is followed at a time.
OneTarget == Cardinality({x \in Publication!Targets : shown.candidate[x] # "NONE"}
                         \cup UNION {About(tx[w]) : w \in Txs}
                         \cup {asked[w].of : w \in {v \in Txs : asked[v].open}}) <= 1

\* A request about a mark meets transactions and jobs, not another request.
OneRequest == Cardinality({w \in Txs : asked[w].open}) <= 1
=============================================================================
