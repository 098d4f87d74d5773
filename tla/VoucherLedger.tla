---------------------------- MODULE VoucherLedger ----------------------------
(***************************************************************************)
(* What the MySQL side of the seckill flow promises, whatever Redis, the   *)
(* message queue, the locks and the crashes in front of it do: a ledger    *)
(* that pairs the stock column of tb_seckill_voucher with the rows of      *)
(* tb_voucher_order.                                                       *)
(*                                                                         *)
(* One order takes one unit of a voucher; with the unique key a user has   *)
(* at most one order row per voucher; an unpaid order is paid or canceled, *)
(* once; canceling gives the unit back.                                    *)
(*                                                                         *)
(* SeckillOrder extends this module, adds the variables and the steps of   *)
(* the code, and is shown to implement LedgerSpec.                         *)
(***************************************************************************)
EXTENDS Integers, FiniteSets

CONSTANTS
  Users, Vouchers,
  OrderIds,        \* the ids RedisIdWorker hands out, one per request
  UserOf,          \* the user whose request drew the id
  VoucherOf,       \* the voucher that request asks for
  InitStock,       \* the stock a voucher is published with
  UniqueKey        \* does the schema have uk_voucher_order_user_voucher

ASSUME OrdersAssumption ==
  /\ IsFiniteSet(OrderIds)
  /\ UserOf \in [OrderIds -> Users]
  /\ VoucherOf \in [OrderIds -> Vouchers]

ASSUME StockAssumption == InitStock \in [Vouchers -> Nat]

VARIABLES
  stock,           \* tb_seckill_voucher.stock, as committed
  order            \* tb_voucher_order.status, as committed; "none": no row

ledger == <<stock, order>>

Statuses == {"none", "unpaid", "paid", "canceled"}

Live(v) == {o \in OrderIds : VoucherOf[o] = v /\ order[o] \in {"unpaid", "paid"}}

SameBuyer(o, p) == UserOf[o] = UserOf[p] /\ VoucherOf[o] = VoucherOf[p]

-----------------------------------------------------------------------------

LedgerInit ==
  /\ stock = InitStock
  /\ order = [o \in OrderIds |-> "none"]

Create(o) ==
  /\ order[o] = "none"
  /\ UniqueKey => \A p \in OrderIds : SameBuyer(o, p) => order[p] = "none"
  /\ stock[VoucherOf[o]] > 0
  /\ stock' = [stock EXCEPT ![VoucherOf[o]] = @ - 1]
  /\ order' = [order EXCEPT ![o] = "unpaid"]

Pay(o) ==
  /\ order[o] = "unpaid"
  /\ order' = [order EXCEPT ![o] = "paid"]
  /\ UNCHANGED stock

Cancel(o) ==
  /\ order[o] = "unpaid"
  /\ order' = [order EXCEPT ![o] = "canceled"]
  /\ stock' = [stock EXCEPT ![VoucherOf[o]] = @ + 1]

LedgerNext == \E o \in OrderIds : Create(o) \/ Pay(o) \/ Cancel(o)

LedgerSpec == LedgerInit /\ [][LedgerNext]_ledger

-----------------------------------------------------------------------------

LedgerTypeOK ==
  /\ stock \in [Vouchers -> Nat]
  /\ order \in [OrderIds -> Statuses]

(***************************************************************************)
(* No unit is sold twice or lost: the stock column plus the unpaid and     *)
(* paid orders of a voucher is always the stock it was published with      *)
(* (createVoucherOrder's decrement, restoreReservedStock's increment).     *)
(***************************************************************************)
StockConserved ==
  \A v \in Vouchers : stock[v] + Cardinality(Live(v)) = InitStock[v]

(***************************************************************************)
(* One order per user and voucher (createVoucherOrder's count and the      *)
(* unique key uk_voucher_order_user_voucher behind it).                    *)
(***************************************************************************)
OneOrderPerUser ==
  \A o, p \in OrderIds :
    o # p /\ SameBuyer(o, p) => order[o] = "none" \/ order[p] = "none"
=============================================================================
