------------------------------- MODULE Totals -------------------------------
(***************************************************************************)
(* The sum of a function with values in Nat, without recursion: f[x] is    *)
(* drawn as f[x] numbered units of x, and the sum is the number of units.  *)
(* The accounting identities of the credit tables (a bucket's reserved     *)
(* amount against the lines that hold it, a reservation's amounts against  *)
(* its lines) are stated with it; CreditLedgerProofs proves how it         *)
(* changes when one entry does.                                            *)
(***************************************************************************)
EXTENDS Integers, FiniteSets

UnitsOf(f, x) == {x} \X (1 .. f[x])

Units(f) == UNION {UnitsOf(f, x) : x \in DOMAIN f}

\* SUM(f[x] : x in DOMAIN f), for f with values in Nat and a finite domain.
Total(f) == Cardinality(Units(f))
=============================================================================
