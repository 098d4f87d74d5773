---------------------------- MODULE MCShopCache ----------------------------
(***************************************************************************)
(* Instances of ShopCache for TLC: two application instances with a reader *)
(* on each, or one of both.                                                *)
(***************************************************************************)
EXTENDS ShopCache, TLC

CONSTANTS i1, i2, q1, q2

OneEach == (q1 :> i1) @@ (q2 :> i2)
AllOnOne == [r \in Readers |-> i1]
=============================================================================
