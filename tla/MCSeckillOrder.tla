--------------------------- MODULE MCSeckillOrder ---------------------------
(***************************************************************************)
(* Instances of SeckillOrder for TLC.                                      *)
(*                                                                         *)
(* Three users, a request each, for two units of one voucher: more buyers  *)
(* than units, and a unit left while one of two deliveries of a message    *)
(* has created the order.                                                  *)
(*                                                                         *)
(* Two requests of one user for one unit, for the run with every fault:    *)
(* what a retry, a second click or a purchase after a cancel is.           *)
(*                                                                         *)
(* Two vouchers: u1 asks for v1 and for v2.                                *)
(***************************************************************************)
EXTENDS SeckillOrder, TLC

CONSTANTS u1, u2, u3, v1, v2, o1, o2, o3, t1, t2

OwnUserOf          == (o1 :> u1) @@ (o2 :> u2) @@ (o3 :> u3)
OneUserOf          == [o \in OrderIds |-> u1]
OneVoucherOf       == [o \in OrderIds |-> v1]
TwoVoucherOf       == (o1 :> v1) @@ (o2 :> v2)
OneUnit            == [v \in Vouchers |-> 1]
TwoUnits           == [v \in Vouchers |-> 2]
=============================================================================
