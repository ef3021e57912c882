--------------------------- MODULE MCShopAccount ---------------------------
(***************************************************************************)
(* Instances of ShopAccount for TLC.                                       *)
(***************************************************************************)
EXTENDS ShopAccount

CONSTANTS s1, s2, r1, r2, p1, d1, d2
=============================================================================
