----------------------------- MODULE MCShopGeo ------------------------------
(***************************************************************************)
(* An instance of ShopGeo for TLC: one place of a first type and two of a  *)
(* second, so that a shop can move with and without changing its set.      *)
(***************************************************************************)
EXTENDS ShopGeo, TLC

CONSTANTS s1, s2, food, fun, here, hall, park, r1

ThreePlaces == (here :> food) @@ (hall :> fun) @@ (park :> fun)
=============================================================================
