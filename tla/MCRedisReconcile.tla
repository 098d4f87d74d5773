-------------------------- MODULE MCRedisReconcile --------------------------
(***************************************************************************)
(* Instances of RedisReconcile for TLC: one voucher and its order flow,    *)
(* with one or two runners beside it.  The orders are those of one user    *)
(* (a second request of that user) or of two users.                        *)
(***************************************************************************)
EXTENDS RedisReconcile, TLC

CONSTANTS u1, u2, v1, o1, o2, t1, t2, r1, r2

OneUserOf    == [o \in OrderIds |-> u1]
TwoUserOf    == (o1 :> u1) @@ (o2 :> u2)
OneVoucherOf == [o \in OrderIds |-> v1]
OneUnit      == [v \in Vouchers |-> 1]
=============================================================================
