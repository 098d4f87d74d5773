------------------------- MODULE SeckillOrderProofs -------------------------
(***************************************************************************)
(* Proofs about the seckill flow, for any number of users, vouchers,       *)
(* requests and consumer threads and for every combination of faults.      *)
(*                                                                         *)
(* The inductive invariant says what the row locks are for: a consumer     *)
(* whose decrement succeeded holds the voucher's row and has a unit to     *)
(* take; one that has inserted an order is the only one to create it; and  *)
(* an order whose cancel is under way is still unpaid.                     *)
(***************************************************************************)
EXTENDS SeckillOrder, FiniteSetTheorems, TLAPS

-----------------------------------------------------------------------------
(* The ledger                                                              *)

LEMMA LiveFinite == \A v : IsFiniteSet(Live(v))
  BY OrdersAssumption, FS_Subset DEF Live

\* An order that becomes live adds one to its voucher's live orders.
LEMMA LiveGrows ==
  ASSUME NEW o \in OrderIds, order[o] \notin {"unpaid", "paid"}, LedgerTypeOK,
         order' = [order EXCEPT ![o] = "unpaid"], NEW v \in Vouchers
  PROVE  Cardinality(Live(v)') =
           Cardinality(Live(v)) + (IF v = VoucherOf[o] THEN 1 ELSE 0)
<1>1. CASE v = VoucherOf[o]
  <2>1. Live(v)' = Live(v) \cup {o} /\ o \notin Live(v)
    BY <1>1 DEF Live, LedgerTypeOK
  <2> QED BY <1>1, <2>1, LiveFinite, FS_AddElement
<1>2. CASE v # VoucherOf[o]
  <2>1. Live(v)' = Live(v)
    BY <1>2 DEF Live, LedgerTypeOK
  <2>2. Cardinality(Live(v)) \in Nat
    BY LiveFinite, FS_CardinalityType
  <2> QED BY <1>2, <2>1, <2>2
<1> QED BY <1>1, <1>2

\* A canceled order leaves the live orders of its voucher.
LEMMA LiveShrinks ==
  ASSUME NEW o \in OrderIds, order[o] = "unpaid", LedgerTypeOK,
         order' = [order EXCEPT ![o] = "canceled"], NEW v \in Vouchers
  PROVE  Cardinality(Live(v)') =
           Cardinality(Live(v)) - (IF v = VoucherOf[o] THEN 1 ELSE 0)
<1>1. CASE v = VoucherOf[o]
  <2>1. Live(v)' = Live(v) \ {o} /\ o \in Live(v)
    BY <1>1 DEF Live, LedgerTypeOK
  <2> QED BY <1>1, <2>1, LiveFinite, FS_RemoveElement
<1>2. CASE v # VoucherOf[o]
  <2>1. Live(v)' = Live(v)
    BY <1>2 DEF Live, LedgerTypeOK
  <2>2. Cardinality(Live(v)) \in Nat
    BY LiveFinite, FS_CardinalityType
  <2> QED BY <1>2, <2>1, <2>2
<1> QED BY <1>1, <1>2

LEMMA LedgerTypeStep == LedgerTypeOK /\ [LedgerNext]_ledger => LedgerTypeOK'
<1> SUFFICES ASSUME LedgerTypeOK, [LedgerNext]_ledger
             PROVE  LedgerTypeOK'
  OBVIOUS
<1>1. ASSUME NEW o \in OrderIds, Create(o)
      PROVE  LedgerTypeOK'
  <2>1. VoucherOf[o] \in Vouchers
    BY OrdersAssumption
  <2>a. stock[VoucherOf[o]] - 1 \in Nat
    BY <1>1, <2>1 DEF Create, LedgerTypeOK
  <2>2. stock' \in [Vouchers -> Nat]
    BY <1>1, <2>1, <2>a DEF Create, LedgerTypeOK
  <2>3. order' \in [OrderIds -> Statuses]
    BY <1>1 DEF Create, LedgerTypeOK, Statuses
  <2> QED BY <2>2, <2>3 DEF LedgerTypeOK
<1>2. ASSUME NEW o \in OrderIds, Pay(o)
      PROVE  LedgerTypeOK'
  BY <1>2 DEF Pay, LedgerTypeOK, Statuses
<1>3. ASSUME NEW o \in OrderIds, Cancel(o)
      PROVE  LedgerTypeOK'
  <2>1. VoucherOf[o] \in Vouchers /\ stock[VoucherOf[o]] + 1 \in Nat
    BY OrdersAssumption DEF LedgerTypeOK
  <2>2. stock' \in [Vouchers -> Nat]
    BY <1>3, <2>1 DEF Cancel, LedgerTypeOK
  <2>3. order' \in [OrderIds -> Statuses]
    BY <1>3 DEF Cancel, LedgerTypeOK, Statuses
  <2> QED BY <2>2, <2>3 DEF LedgerTypeOK
<1>4. CASE UNCHANGED ledger
  BY <1>4 DEF LedgerTypeOK, ledger
<1> QED BY <1>1, <1>2, <1>3, <1>4 DEF LedgerNext

LEMMA ConservedStep ==
  LedgerTypeOK /\ StockConserved /\ [LedgerNext]_ledger => StockConserved'
<1> SUFFICES ASSUME LedgerTypeOK, StockConserved, [LedgerNext]_ledger,
                    NEW v \in Vouchers
             PROVE  stock'[v] + Cardinality(Live(v)') = InitStock[v]
  BY DEF StockConserved
<1>a. /\ stock[v] + Cardinality(Live(v)) = InitStock[v]
      /\ stock[v] \in Nat /\ Cardinality(Live(v)) \in Nat /\ InitStock[v] \in Nat
  BY LiveFinite, FS_CardinalityType, StockAssumption DEF StockConserved, LedgerTypeOK
<1>1. ASSUME NEW o \in OrderIds, Create(o)
      PROVE  stock'[v] + Cardinality(Live(v)') = InitStock[v]
  <2>1. stock'[v] = stock[v] - (IF v = VoucherOf[o] THEN 1 ELSE 0)
    BY <1>1, <1>a DEF Create, LedgerTypeOK
  <2>2. Cardinality(Live(v)') =
          Cardinality(Live(v)) + (IF v = VoucherOf[o] THEN 1 ELSE 0)
    BY <1>1, LiveGrows DEF Create
  <2> QED BY <1>a, <2>1, <2>2
<1>2. ASSUME NEW o \in OrderIds, Pay(o)
      PROVE  stock'[v] + Cardinality(Live(v)') = InitStock[v]
  <2>1. Live(v)' = Live(v) /\ stock' = stock
    BY <1>2 DEF Pay, Live, LedgerTypeOK
  <2> QED BY <1>a, <2>1
<1>3. ASSUME NEW o \in OrderIds, Cancel(o)
      PROVE  stock'[v] + Cardinality(Live(v)') = InitStock[v]
  <2>1. stock'[v] = stock[v] + (IF v = VoucherOf[o] THEN 1 ELSE 0)
    BY <1>3, <1>a DEF Cancel, LedgerTypeOK
  <2>2. Cardinality(Live(v)') =
          Cardinality(Live(v)) - (IF v = VoucherOf[o] THEN 1 ELSE 0)
    BY <1>3, LiveShrinks DEF Cancel
  <2> QED BY <1>a, <2>1, <2>2
<1>4. CASE UNCHANGED ledger
  <2>1. Live(v)' = Live(v) /\ stock' = stock
    BY <1>4 DEF Live, ledger
  <2> QED BY <1>a, <2>1
<1> QED BY <1>1, <1>2, <1>3, <1>4 DEF LedgerNext

LEMMA OneOrderStep ==
  ASSUME UniqueKey
  PROVE  LedgerTypeOK /\ OneOrderPerUser /\ [LedgerNext]_ledger => OneOrderPerUser'
<1> SUFFICES ASSUME LedgerTypeOK, OneOrderPerUser, [LedgerNext]_ledger
             PROVE  OneOrderPerUser'
  OBVIOUS
<1>1. ASSUME NEW o \in OrderIds, Create(o)
      PROVE  OneOrderPerUser'
  BY <1>1 DEF Create, OneOrderPerUser, SameBuyer, LedgerTypeOK
<1>2. ASSUME NEW o \in OrderIds, Pay(o) \/ Cancel(o)
      PROVE  OneOrderPerUser'
  BY <1>2 DEF Pay, Cancel, OneOrderPerUser, SameBuyer, LedgerTypeOK
<1>3. CASE UNCHANGED ledger
  BY <1>3 DEF OneOrderPerUser, SameBuyer, ledger
<1> QED BY <1>1, <1>2, <1>3 DEF LedgerNext

LEMMA LedgerInitially == LedgerInit => LedgerTypeOK /\ StockConserved /\ OneOrderPerUser
<1> SUFFICES ASSUME LedgerInit
             PROVE  LedgerTypeOK /\ StockConserved /\ OneOrderPerUser
  OBVIOUS
<1>1. LedgerTypeOK
  BY StockAssumption DEF LedgerInit, LedgerTypeOK, Statuses
<1>2. ASSUME NEW v \in Vouchers
      PROVE  stock[v] + Cardinality(Live(v)) = InitStock[v]
  <2>1. Live(v) = {}
    BY DEF Live, LedgerInit
  <2> QED BY <2>1, FS_EmptySet, StockAssumption DEF LedgerInit
<1>3. OneOrderPerUser
  BY DEF LedgerInit, OneOrderPerUser
<1> QED BY <1>1, <1>2, <1>3 DEF StockConserved

(***************************************************************************)
(* The ledger conserves stock: what is on sale and what is sold always add *)
(* up to what was published, and the stock column never goes below zero.   *)
(***************************************************************************)
THEOREM LedgerConserves == LedgerSpec => [](LedgerTypeOK /\ StockConserved)
  BY LedgerInitially, LedgerTypeStep, ConservedStep, PTL DEF LedgerSpec

(***************************************************************************)
(* With uk_voucher_order_user_voucher in the schema no user ever has two   *)
(* orders for one voucher.                                                 *)
(***************************************************************************)
THEOREM LedgerOneOrder == ASSUME UniqueKey PROVE LedgerSpec => []OneOrderPerUser
  BY LedgerInitially, LedgerTypeStep, OneOrderStep, PTL DEF LedgerSpec

-----------------------------------------------------------------------------
(* The flow                                                                *)

\* Only a key that exists has members to roll back.
KeyInv == \A v \in Vouchers : redisStock[v] = NoKey => redisMembers[v] = {}

\* A consumer past its successful decrement, or one that has inserted its order.
Holds(t) == worker[t].at = "stocked" \/ worker[t].write

HolderInv ==
  \A t \in Threads : Holds(t) =>
    LET v == VoucherOf[worker[t].id] IN rowLock[v] = t /\ stock[v] > 0

WriterInv ==
  \A t \in Threads : worker[t].write =>
    worker[t].at \in {"leaving", "committing"} /\ ~Duplicate(worker[t].id)

CancelInv ==
  \A o \in OrderIds :
    /\ cancel[o] # "idle" => order[o] = "unpaid"
    /\ cancel[o] \in {"restocked", "restored"} => rowLock[VoucherOf[o]] = o

RowInv == HolderInv /\ WriterInv /\ CancelInv

IInv == TypeOK /\ KeyInv /\ RowInv

-----------------------------------------------------------------------------
(* Types.                                                                  *)

LEMMA OrderTypes ==
  ASSUME NEW o \in OrderIds
  PROVE  UserOf[o] \in Users /\ VoucherOf[o] \in Vouchers
  BY OrdersAssumption

\* A script run for an order keeps the types of the two Redis keys.
LEMMA RollbackTypes ==
  ASSUME TypeOK, KeyInv, NEW o \in OrderIds, RollbackScript(o) \/ UNCHANGED redisVars
  PROVE  /\ redisStock' \in [Vouchers -> Int \cup {NoKey}]
         /\ redisMembers' \in [Vouchers -> SUBSET Users]
         /\ KeyInv'
<1>1. CASE UNCHANGED redisVars
  BY <1>1 DEF redisVars, TypeOK, KeyInv, LedgerTypeOK
<1>2. CASE RollbackScript(o) /\ UserOf[o] \in redisMembers[VoucherOf[o]]
  <2> DEFINE v == VoucherOf[o]
  <2>1. v \in Vouchers /\ redisStock[v] \in Int
    BY <1>2, OrderTypes DEF TypeOK, KeyInv, LedgerTypeOK
  <2>2. redisStock[v] + 1 \in Int
    BY <2>1
  <2>3. /\ redisStock' = [redisStock EXCEPT ![v] = redisStock[v] + 1]
        /\ redisMembers' = [redisMembers EXCEPT ![v] = redisMembers[v] \ {UserOf[o]}]
    BY <1>2 DEF RollbackScript
  <2>4. /\ redisStock' \in [Vouchers -> Int \cup {NoKey}]
        /\ redisMembers' \in [Vouchers -> SUBSET Users]
    BY <2>1, <2>2, <2>3 DEF TypeOK, LedgerTypeOK
  <2>5. KeyInv'
    BY <2>1, <2>2, <2>3, NoKeyAssumption DEF TypeOK, KeyInv, LedgerTypeOK
  <2> QED BY <2>4, <2>5
<1>3. CASE RollbackScript(o) /\ UserOf[o] \notin redisMembers[VoucherOf[o]]
  BY <1>3 DEF RollbackScript, redisVars, TypeOK, KeyInv, LedgerTypeOK
<1> QED BY <1>1, <1>2, <1>3

\* Only publishing, the reserving script and the rollback script touch the two keys.
RedisAction ==
  \/ \E v \in Vouchers : AddSeckillVoucher(v)
  \/ \E o \in OrderIds : \/ Reserve(o) \/ RollbackSeckillReservation(o)
                         \/ RestoreRedis(o) \/ RestoreRedisThrows(o)

LEMMA RedisFrame == [Next]_vars => RedisAction \/ UNCHANGED redisVars
<1> SUFFICES ASSUME [Next]_vars, ~RedisAction
             PROVE  UNCHANGED redisVars
  OBVIOUS
<1>1. ASSUME NEW v \in Vouchers, CommitSeckillVoucher(v) \/ TimePasses(v)
      PROVE  UNCHANGED redisVars
  BY <1>1 DEF CommitSeckillVoucher, TimePasses
<1>2. ASSUME NEW o \in OrderIds,
             \/ ValidateSeckillVoucher(o) \/ Refuse(o) \/ Send(o) \/ SendThrows(o)
             \/ CrashRequest(o) \/ LoseMessage(o) \/ PayOrder(o) \/ MarkCanceled(o)
             \/ RestoreMySqlStock(o) \/ CommitCancel(o) \/ AbortCancel(o)
      PROVE  UNCHANGED redisVars
  BY <1>2 DEF ValidateSeckillVoucher, Refuse, Send, SendThrows, CrashRequest,
              LoseMessage, PayOrder, MarkCanceled, RestoreMySqlStock, CommitCancel,
              AbortCancel, SetPaid, SetCanceled, EndCancel
<1>3. ASSUME NEW t \in Threads, WorkerStep(t)
      PROVE  UNCHANGED redisVars
  BY <1>3 DEF WorkerStep, Deliver, CountOrders, TakeStock, SaveOrder, Unlock,
              CommitOrder, Ack, FailOrder, CrashWorker, Counted, UpdateStock
<1>4. ASSUME NEW u \in Users, LeaseEnds(u)
      PROVE  UNCHANGED redisVars
  BY <1>4 DEF LeaseEnds
<1>5. CASE UNCHANGED vars \/ Terminating
  BY <1>5 DEF vars, redisVars, Terminating
<1> QED BY <1>1, <1>2, <1>3, <1>4, <1>5 DEF Next, RequestStep, OrderStep, RedisAction

LEMMA RedisTypes ==
  ASSUME TypeOK, KeyInv, [Next]_vars
  PROVE  /\ redisStock' \in [Vouchers -> Int \cup {NoKey}]
         /\ redisMembers' \in [Vouchers -> SUBSET Users]
         /\ KeyInv'
<1> DEFINE Goal == /\ redisStock' \in [Vouchers -> Int \cup {NoKey}]
                   /\ redisMembers' \in [Vouchers -> SUBSET Users]
                   /\ KeyInv'
<1> SUFFICES Goal
  OBVIOUS
<1>1. ASSUME NEW v \in Vouchers, AddSeckillVoucher(v)
      PROVE  Goal
  <2>1. InitStock[v] \in Int
    BY StockAssumption
  <2> QED BY <1>1, <2>1, NoKeyAssumption DEF AddSeckillVoucher, TypeOK, KeyInv,
                                             LedgerTypeOK
<1>2. ASSUME NEW o \in OrderIds, Reserve(o)
      PROVE  Goal
  <2> DEFINE v == VoucherOf[o]
  <2>1. v \in Vouchers /\ UserOf[o] \in Users /\ redisStock[v] \in Int
    BY <1>2, OrderTypes DEF Reserve, Admissible, TypeOK, LedgerTypeOK
  <2>2. redisStock[v] - 1 \in Int
    BY <2>1
  <2>3. /\ redisStock' = [redisStock EXCEPT ![v] = redisStock[v] - 1]
        /\ redisMembers' = [redisMembers EXCEPT ![v] = redisMembers[v] \cup {UserOf[o]}]
    BY <1>2 DEF Reserve
  <2>4. redisMembers[v] \cup {UserOf[o]} \in SUBSET Users
    BY <2>1 DEF TypeOK, LedgerTypeOK
  <2> QED BY <2>1, <2>2, <2>3, <2>4, NoKeyAssumption DEF TypeOK, KeyInv, LedgerTypeOK
<1>3. ASSUME NEW o \in OrderIds,
             RollbackSeckillReservation(o) \/ RestoreRedis(o) \/ RestoreRedisThrows(o)
      PROVE  Goal
  <2>1. RollbackScript(o) \/ UNCHANGED redisVars
    BY <1>3 DEF RollbackSeckillReservation, RestoreRedis, RestoreRedisThrows,
                RunRollback, EndCancel
  <2> QED BY <2>1, RollbackTypes
<1>4. CASE UNCHANGED redisVars
  BY <1>4 DEF redisVars, TypeOK, KeyInv, LedgerTypeOK
<1> QED BY <1>1, <1>2, <1>3, <1>4, RedisFrame DEF RedisAction

LEMMA UnlockedType ==
  ASSUME TypeOK, NEW tx
  PROVE  Unlocked(tx) \in [Vouchers -> Threads \cup OrderIds \cup {Nobody}]
  BY DEF Unlocked, TypeOK, LedgerTypeOK

LEMMA WorkerAt ==
  ASSUME TypeOK, NEW t \in Threads, worker[t].at # "idle", NEW step \in WorkerSteps,
         NEW write \in BOOLEAN, At(t, step, write)
  PROVE  /\ worker' \in [Threads -> [at : WorkerSteps, id : OrderIds \cup {Nobody},
                                     write : BOOLEAN]]
         /\ \A x \in Threads : worker'[x].at # "idle" => worker'[x].id \in OrderIds
         /\ worker'[t] = [at |-> step, id |-> worker[t].id, write |-> write]
         /\ \A x \in Threads : x # t => worker'[x] = worker[x]
  BY DEF At, TypeOK, LedgerTypeOK

LEMMA WorkerIdles ==
  ASSUME TypeOK, NEW t \in Threads, worker' = [worker EXCEPT ![t] = Idle]
  PROVE  /\ worker' \in [Threads -> [at : WorkerSteps, id : OrderIds \cup {Nobody},
                                     write : BOOLEAN]]
         /\ \A x \in Threads : worker'[x].at # "idle" => worker'[x].id \in OrderIds
  BY DEF Idle, TypeOK, WorkerSteps, LedgerTypeOK

LEMMA TypeStep ==
  ASSUME TypeOK, KeyInv, RowInv, [Next]_vars
  PROVE  TypeOK'
<1> USE DEF SaleSteps, RequestSteps, CancelSteps, Statuses, ledger, LedgerTypeOK
<1>r. /\ redisStock' \in [Vouchers -> Int \cup {NoKey}]
      /\ redisMembers' \in [Vouchers -> SUBSET Users]
  BY RedisTypes
<1>v. ASSUME NEW v \in Vouchers,
             AddSeckillVoucher(v) \/ CommitSeckillVoucher(v) \/ TimePasses(v)
      PROVE  TypeOK'
  BY <1>r, <1>v DEF TypeOK, AddSeckillVoucher, CommitSeckillVoucher, TimePasses
<1>q. ASSUME NEW o \in OrderIds, RequestStep(o)
      PROVE  TypeOK'
  <2>1. UNCHANGED <<sale, userLock, worker, cancel, rowLock, ledger>>
    BY <1>q DEF RequestStep, ValidateSeckillVoucher, Reserve, Refuse, Send, SendThrows,
                RollbackSeckillReservation, CrashRequest, LoseMessage
  <2>2. request' \in [OrderIds -> RequestSteps]
    BY <1>q DEF TypeOK, RequestStep, Moves, ValidateSeckillVoucher, Reserve, Refuse,
                Send, SendThrows, RollbackSeckillReservation, CrashRequest, LoseMessage
  <2>3. mq' \subseteq OrderIds
    BY <1>q DEF TypeOK, RequestStep, ValidateSeckillVoucher, Reserve, Refuse, Send,
                SendThrows, RollbackSeckillReservation, CrashRequest, LoseMessage
  <2> QED BY <1>r, <2>1, <2>2, <2>3 DEF TypeOK
<1>w. ASSUME NEW t \in Threads, WorkerStep(t)
      PROVE  TypeOK'
  <2>0. UNCHANGED <<sale, request, cancel>> /\ mq' \subseteq OrderIds
    BY <1>w DEF WorkerStep, Deliver, CountOrders, TakeStock, SaveOrder, Unlock,
                CommitOrder, Ack, FailOrder, CrashWorker, TypeOK, Counted, UpdateStock
  <2>1. ASSUME NEW o \in OrderIds, Deliver(t, o)
        PROVE  TypeOK'
    <3>1. PICK step \in {"locked", "acking"} :
            worker' = [worker EXCEPT ![t] = [at |-> step, id |-> o, write |-> FALSE]]
      BY <2>1 DEF Deliver
    <3>a. [at |-> step, id |-> o, write |-> FALSE]
            \in [at : WorkerSteps, id : OrderIds \cup {Nobody}, write : BOOLEAN]
      BY DEF WorkerSteps
    <3>b. /\ worker' \in [Threads -> [at : WorkerSteps, id : OrderIds \cup {Nobody},
                                      write : BOOLEAN]]
          /\ \A x \in Threads : worker'[x].at # "idle" => worker'[x].id \in OrderIds
      BY <3>1, <3>a DEF TypeOK
    <3>2. userLock' \in [Users -> Threads \cup {Nobody}]
      BY <2>1, OrderTypes DEF Deliver, TypeOK
    <3> QED BY <1>r, <2>0, <2>1, <3>b, <3>2 DEF Deliver, TypeOK
  <2>2. CASE CountOrders(t)
    <3> DEFINE step == IF Bought(worker[t].id) THEN "leaving" ELSE "counted"
    <3>1. step \in WorkerSteps /\ At(t, step, FALSE) /\ worker[t].at # "idle"
      BY <2>2 DEF CountOrders, WorkerSteps, Counted
    <3> QED BY <1>r, <2>0, <2>2, <3>1, WorkerAt DEF CountOrders, TypeOK, Counted
  <2>3. CASE TakeStock(t)
    <3>1. rowLock' \in [Vouchers -> Threads \cup OrderIds \cup {Nobody}]
      BY <2>3, OrderTypes DEF TakeStock, TypeOK, UpdateStock
    <3> QED BY <1>r, <2>0, <2>3, <3>1, WorkerAt DEF TakeStock, TypeOK, WorkerSteps,
                                                    UpdateStock
  <2>4. CASE SaveOrder(t)
    BY <1>r, <2>0, <2>4, WorkerAt DEF SaveOrder, TypeOK, WorkerSteps
  <2>5. CASE Unlock(t)
    <3>1. userLock' \in [Users -> Threads \cup {Nobody}] /\ worker[t].write \in BOOLEAN
      BY <2>5 DEF Unlock, TypeOK
    <3> QED BY <1>r, <2>0, <2>5, <3>1, WorkerAt DEF Unlock, TypeOK, WorkerSteps
  <2>6. CASE CommitOrder(t)
    <3> DEFINE o == worker[t].id
    <3>1. o \in OrderIds /\ VoucherOf[o] \in Vouchers
      BY <2>6, OrderTypes DEF CommitOrder, TypeOK
    <3>2. worker[t].write => stock[VoucherOf[o]] - 1 \in Nat
      BY <3>1 DEF RowInv, HolderInv, Holds, TypeOK
    <3>3. stock' \in [Vouchers -> Nat] /\ order' \in [OrderIds -> Statuses]
      BY <2>6, <3>1, <3>2 DEF CommitOrder, TypeOK
    <3> QED BY <1>r, <2>0, <2>6, <3>3, WorkerAt, UnlockedType
            DEF CommitOrder, TypeOK, WorkerSteps
  <2>7. CASE Ack(t)
    BY <1>r, <2>0, <2>7, WorkerIdles DEF Ack, TypeOK
  <2>8. CASE FailOrder(t)
    <3>1. userLock' \in [Users -> Threads \cup {Nobody}]
      BY <2>8 DEF FailOrder, TypeOK
    <3> QED BY <1>r, <2>0, <2>8, <3>1, WorkerIdles, UnlockedType
            DEF FailOrder, TypeOK
  <2>9. CASE CrashWorker(t)
    BY <1>r, <2>0, <2>9, WorkerIdles, UnlockedType DEF CrashWorker, TypeOK
  <2> QED BY <1>w, <2>1, <2>2, <2>3, <2>4, <2>5, <2>6, <2>7, <2>8, <2>9 DEF WorkerStep
<1>o. ASSUME NEW o \in OrderIds, OrderStep(o)
      PROVE  TypeOK'
  <2>0. UNCHANGED <<sale, request, mq, userLock, worker>>
    BY <1>o DEF OrderStep, PayOrder, MarkCanceled, RestoreMySqlStock, RestoreRedis,
                RestoreRedisThrows, CommitCancel, AbortCancel, SetPaid, SetCanceled,
                RunRollback, EndCancel
  <2>1. cancel' \in [OrderIds -> CancelSteps] /\ order' \in [OrderIds -> Statuses]
    BY <1>o DEF OrderStep, PayOrder, MarkCanceled, RestoreMySqlStock, RestoreRedis,
                RestoreRedisThrows, CommitCancel, AbortCancel, TypeOK, SetPaid,
                SetCanceled, RunRollback, EndCancel
  <2>2. rowLock' \in [Vouchers -> Threads \cup OrderIds \cup {Nobody}]
    BY <1>o, UnlockedType, OrderTypes
 DEF OrderStep, PayOrder, MarkCanceled, RestoreMySqlStock, RestoreRedis,
     RestoreRedisThrows, CommitCancel, AbortCancel, TypeOK, SetPaid, SetCanceled,
     RunRollback, EndCancel
  <2>3. stock' \in [Vouchers -> Nat]
    <3>1. VoucherOf[o] \in Vouchers /\ stock[VoucherOf[o]] + 1 \in Nat
      BY OrderTypes DEF TypeOK
    <3> QED BY <1>o, <3>1
 DEF OrderStep, PayOrder, MarkCanceled, RestoreMySqlStock, RestoreRedis,
     RestoreRedisThrows, CommitCancel, AbortCancel, TypeOK, SetPaid, SetCanceled,
     RunRollback, EndCancel
  <2> QED BY <1>r, <2>0, <2>1, <2>2, <2>3 DEF TypeOK
<1>u. ASSUME NEW u \in Users, LeaseEnds(u)
      PROVE  TypeOK'
  BY <1>r, <1>u DEF LeaseEnds, TypeOK
<1>s. CASE UNCHANGED vars \/ Terminating
  BY <1>s DEF vars, Terminating, TypeOK
<1> QED BY <1>v, <1>q, <1>w, <1>o, <1>u, <1>s DEF Next

-----------------------------------------------------------------------------
(* The row locks.                                                          *)

\* Releasing a transaction's row leaves the rows of the others alone.
LEMMA UnlockedRows ==
  ASSUME NEW tx, rowLock' = Unlocked(tx)
  PROVE  \A v \in Vouchers : rowLock[v] # tx => rowLock'[v] = rowLock[v]
  BY DEF Unlocked

\* What an idle or restarted thread leaves behind for the others.
LEMMA IdleKeepsRows ==
  ASSUME TypeOK, RowInv, NEW t \in Threads, rowLock' = Unlocked(t),
         worker' = [worker EXCEPT ![t] = Idle], UNCHANGED <<cancel, ledger>>
  PROVE  RowInv'
<1>1. /\ worker'[t].at = "idle" /\ ~worker'[t].write
      /\ \A x \in Threads : x # t => worker'[x] = worker[x]
  BY DEF TypeOK, Idle, LedgerTypeOK
<1>2. HolderInv'
  <2> SUFFICES ASSUME NEW x \in Threads, Holds(x)'
               PROVE  LET v == VoucherOf[worker'[x].id] IN rowLock'[v] = x /\ stock'[v] > 0
    BY DEF HolderInv
  <2>1. x # t /\ worker'[x] = worker[x] /\ Holds(x)
    BY <1>1 DEF Holds
  <2>2. VoucherOf[worker[x].id] \in Vouchers /\ rowLock[VoucherOf[worker[x].id]] = x
    BY <2>1, OrderTypes DEF RowInv, HolderInv, WriterInv, Holds, TypeOK, LedgerTypeOK
  <2> QED BY <2>1, <2>2, UnlockedRows DEF RowInv, HolderInv, ledger
<1>3. WriterInv'
  BY <1>1 DEF RowInv, WriterInv, Duplicate, Bought, ledger, SameBuyer
<1>4. CancelInv'
  BY UnlockedRows, OrderTypes, HoldersAssumption DEF RowInv, CancelInv, ledger
<1> QED BY <1>2, <1>3, <1>4 DEF RowInv

\* A thread moves on without touching rows: it must not claim more than it holds.
LEMMA MoveKeepsRows ==
  ASSUME TypeOK, RowInv, NEW t \in Threads, NEW step \in WorkerSteps, NEW write \in BOOLEAN,
         worker[t].at # "idle", At(t, step, write), UNCHANGED <<rowLock, cancel, ledger>>,
         step = "stocked" \/ write => Holds(t),
         write => step \in {"leaving", "committing"} /\ ~Duplicate(worker[t].id)
  PROVE  RowInv'
<1>1. /\ worker'[t] = [at |-> step, id |-> worker[t].id, write |-> write]
      /\ \A x \in Threads : x # t => worker'[x] = worker[x]
  BY WorkerAt
<1>2. HolderInv'
  BY <1>1 DEF RowInv, HolderInv, Holds, ledger
<1>3. WriterInv'
  BY <1>1 DEF RowInv, WriterInv, Duplicate, Bought, ledger, SameBuyer
<1>4. CancelInv'
  BY DEF RowInv, CancelInv, ledger
<1> QED BY <1>2, <1>3, <1>4 DEF RowInv

LEMMA CommitOrderKeepsRows ==
  ASSUME TypeOK, RowInv, NEW t \in Threads, CommitOrder(t)
  PROVE  RowInv'
<1> DEFINE o == worker[t].id
<1>1. /\ worker'[t] = [at |-> "acking", id |-> o, write |-> FALSE]
      /\ \A x \in Threads : x # t => worker'[x] = worker[x]
      /\ o \in OrderIds
  BY WorkerAt DEF CommitOrder, WorkerSteps, TypeOK, LedgerTypeOK
<1>2. ASSUME NEW x \in Threads, Holds(x)'
      PROVE  /\ x # t /\ worker'[x] = worker[x] /\ Holds(x)
             /\ worker[x].id \in OrderIds /\ VoucherOf[worker[x].id] \in Vouchers
             /\ rowLock[VoucherOf[worker[x].id]] = x
             /\ worker[t].write => VoucherOf[worker[x].id] # VoucherOf[o]
  <2>1. x # t /\ worker'[x] = worker[x] /\ Holds(x)
    BY <1>1, <1>2 DEF Holds
  <2>2. worker[x].id \in OrderIds /\ VoucherOf[worker[x].id] \in Vouchers
    BY <2>1, OrderTypes DEF RowInv, WriterInv, Holds, TypeOK, LedgerTypeOK
  <2>3. rowLock[VoucherOf[worker[x].id]] = x
    BY <2>1 DEF RowInv, HolderInv
  <2>4. worker[t].write => rowLock[VoucherOf[o]] = t
    BY DEF RowInv, HolderInv, Holds
  <2> QED BY <2>1, <2>2, <2>3, <2>4
<1>3. HolderInv'
  <2> SUFFICES ASSUME NEW x \in Threads, Holds(x)'
               PROVE  LET v == VoucherOf[worker'[x].id] IN rowLock'[v] = x /\ stock'[v] > 0
    BY DEF HolderInv
  <2> DEFINE v == VoucherOf[worker[x].id]
  <2>1. rowLock'[v] = x
    BY <1>2, UnlockedRows DEF CommitOrder
  <2>2. stock[v] > 0
    BY <1>2 DEF RowInv, HolderInv
  <2>3. stock'[v] = stock[v]
    BY <1>2 DEF CommitOrder, ledger, TypeOK, LedgerTypeOK
  <2> QED BY <1>2, <2>1, <2>2, <2>3
<1>4. WriterInv'
  <2> SUFFICES ASSUME NEW x \in Threads, worker'[x].write
               PROVE  (worker[x].at \in {"leaving", "committing"} /\ ~Duplicate(worker[x].id))'
    BY DEF WriterInv
  <2>1. Holds(x)'
    BY DEF Holds
  <2>2. worker[x].at \in {"leaving", "committing"} /\ ~Duplicate(worker[x].id)
    BY <1>2, <2>1 DEF RowInv, WriterInv
  <2>3. \A p \in OrderIds : VoucherOf[p] = VoucherOf[worker[x].id] => order'[p] = order[p]
    BY <1>1, <1>2, <2>1 DEF CommitOrder, ledger, TypeOK, LedgerTypeOK
  <2> QED BY <1>2, <2>1, <2>2, <2>3 DEF Duplicate, Bought, SameBuyer
<1>5. CancelInv'
  <2>1. worker[t].write => order[o] = "none"
    BY DEF RowInv, WriterInv, Duplicate
  <2>2. \A p \in OrderIds : order[p] = "unpaid" => order'[p] = "unpaid"
    BY <1>1, <2>1 DEF CommitOrder, ledger, TypeOK, LedgerTypeOK
  <2> SUFFICES ASSUME NEW p \in OrderIds
               PROVE  /\ cancel'[p] # "idle" => order'[p] = "unpaid"
                      /\ cancel'[p] \in {"restocked", "restored"} => rowLock'[VoucherOf[p]] = p
    BY DEF CancelInv
  <2>3. cancel' = cancel /\ rowLock' = Unlocked(t)
    BY DEF CommitOrder
  <2>4. cancel[p] \in {"restocked", "restored"} => rowLock[VoucherOf[p]] = p /\ p # t
    BY HoldersAssumption DEF RowInv, CancelInv
  <2>5. cancel[p] # "idle" => order[p] = "unpaid"
    BY DEF RowInv, CancelInv
  <2>6. cancel[p] \in {"restocked", "restored"} => rowLock'[VoucherOf[p]] = p
    BY <2>3, <2>4, UnlockedRows, OrderTypes
  <2> QED BY <2>2, <2>3, <2>5, <2>6
<1> QED BY <1>3, <1>4, <1>5 DEF RowInv

LEMMA WorkerKeepsRows ==
  ASSUME TypeOK, RowInv, NEW t \in Threads, WorkerStep(t)
  PROVE  RowInv'
<1>1. ASSUME NEW o \in OrderIds, Deliver(t, o)
      PROVE  RowInv'
  <2>1. PICK step \in {"locked", "acking"} :
          worker' = [worker EXCEPT ![t] = [at |-> step, id |-> o, write |-> FALSE]]
    BY <1>1 DEF Deliver
  <2>2. /\ worker'[t].at \in {"locked", "acking"} /\ ~worker'[t].write
        /\ \A x \in Threads : x # t => worker'[x] = worker[x]
    BY <2>1 DEF TypeOK, LedgerTypeOK
  <2>3. UNCHANGED <<rowLock, cancel, ledger>>
    BY <1>1 DEF Deliver
  <2>4. HolderInv' /\ WriterInv'
    BY <2>2, <2>3 DEF RowInv, HolderInv, WriterInv, Holds, Duplicate, Bought, ledger,
                      SameBuyer
  <2> QED BY <2>3, <2>4 DEF RowInv, CancelInv, ledger
<1>2. CASE CountOrders(t)
  <2> DEFINE step == IF Bought(worker[t].id) THEN "leaving" ELSE "counted"
  <2>1. step \in WorkerSteps /\ step # "stocked" /\ At(t, step, FALSE) /\ worker[t].at # "idle"
    BY <1>2 DEF CountOrders, WorkerSteps, Counted
  <2> QED BY <1>2, <2>1, MoveKeepsRows DEF CountOrders, Counted
<1>3. CASE TakeStock(t)
  <2> DEFINE v == VoucherOf[worker[t].id]
             step == IF stock[v] > 0 THEN "stocked" ELSE "leaving"
  <2>1. /\ worker'[t] = [at |-> step, id |-> worker[t].id, write |-> FALSE]
        /\ \A x \in Threads : x # t => worker'[x] = worker[x]
    BY <1>3, WorkerAt DEF TakeStock, WorkerSteps, UpdateStock
  <2>2. /\ v \in Vouchers /\ rowLock[v] = Nobody /\ rowLock' = [rowLock EXCEPT ![v] = t]
        /\ UNCHANGED <<cancel, ledger>>
    BY <1>3, OrderTypes DEF TakeStock, TypeOK, LedgerTypeOK, UpdateStock
  <2>3. HolderInv'
    <3> SUFFICES ASSUME NEW x \in Threads, Holds(x)'
                 PROVE  (LET w == VoucherOf[worker[x].id] IN rowLock[w] = x /\ stock[w] > 0)'
      BY DEF HolderInv
    <3>1. CASE x = t
      BY <2>1, <2>2, <3>1 DEF Holds, TypeOK, ledger, LedgerTypeOK
    <3>2. CASE x # t
      <4>1. worker'[x] = worker[x] /\ Holds(x)
        BY <2>1, <3>2 DEF Holds
      <4>2. rowLock[VoucherOf[worker[x].id]] = x /\ stock[VoucherOf[worker[x].id]] > 0
        BY <4>1 DEF RowInv, HolderInv
      <4> QED BY <2>2, <4>1, <4>2, HoldersAssumption DEF TypeOK, ledger, LedgerTypeOK
    <3> QED BY <3>1, <3>2
  <2>4. WriterInv'
    BY <2>1, <2>2 DEF RowInv, WriterInv, Duplicate, Bought, ledger, SameBuyer
  <2>5. CancelInv'
    BY <2>2, HoldersAssumption, OrderTypes DEF RowInv, CancelInv, ledger, TypeOK,
                                               LedgerTypeOK
  <2> QED BY <2>3, <2>4, <2>5 DEF RowInv
<1>4. CASE SaveOrder(t)
  BY <1>4, MoveKeepsRows DEF SaveOrder, Holds, WorkerSteps
<1>5. CASE Unlock(t)
  <2>1. worker[t].write \in BOOLEAN
    BY DEF TypeOK, LedgerTypeOK
  <2>2. worker[t].write => Holds(t) /\ ~Duplicate(worker[t].id)
    BY DEF RowInv, WriterInv, Holds
  <2> QED BY <1>5, <2>1, <2>2, MoveKeepsRows DEF Unlock, WorkerSteps
<1>6. CASE CommitOrder(t)
  BY <1>6, CommitOrderKeepsRows
<1>7. CASE Ack(t)
  <2>1. /\ worker'[t].at = "idle" /\ ~worker'[t].write
        /\ \A x \in Threads : x # t => worker'[x] = worker[x]
    BY <1>7 DEF Ack, Idle, TypeOK, LedgerTypeOK
  <2> QED BY <1>7, <2>1 DEF Ack, RowInv, HolderInv, WriterInv, CancelInv, Holds,
                            Duplicate, Bought, ledger, SameBuyer
<1>8. CASE FailOrder(t)
  BY <1>8, IdleKeepsRows DEF FailOrder
<1>9. CASE CrashWorker(t)
  BY <1>9, IdleKeepsRows DEF CrashWorker
<1> QED BY <1>1, <1>2, <1>3, <1>4, <1>5, <1>6, <1>7, <1>8, <1>9 DEF WorkerStep

\* A cancel transaction that ends, or begins, leaves the consumers' rows alone.
LEMMA CancelIdleKeepsRows ==
  ASSUME TypeOK, RowInv, NEW o \in OrderIds, rowLock' = Unlocked(o),
         cancel' = [cancel EXCEPT ![o] = "idle"], UNCHANGED <<worker, ledger>>
  PROVE  RowInv'
<1>1. HolderInv'
  <2> SUFFICES ASSUME NEW x \in Threads, Holds(x)
               PROVE  LET v == VoucherOf[worker[x].id] IN rowLock'[v] = x /\ stock[v] > 0
    BY DEF HolderInv, Holds, ledger
  <2>1. VoucherOf[worker[x].id] \in Vouchers /\ rowLock[VoucherOf[worker[x].id]] = x
    BY OrderTypes DEF RowInv, HolderInv, WriterInv, Holds, TypeOK, LedgerTypeOK
  <2> QED BY <2>1, UnlockedRows, HoldersAssumption DEF RowInv, HolderInv
<1>2. WriterInv'
  BY DEF RowInv, WriterInv, Duplicate, Bought, ledger, SameBuyer
<1>3. CancelInv'
  BY UnlockedRows, OrderTypes DEF RowInv, CancelInv, ledger, TypeOK, LedgerTypeOK
<1> QED BY <1>1, <1>2, <1>3 DEF RowInv

LEMMA CommitCancelKeepsRows ==
  ASSUME TypeOK, RowInv, NEW o \in OrderIds, CommitCancel(o)
  PROVE  RowInv'
<1>1. /\ VoucherOf[o] \in Vouchers /\ rowLock[VoucherOf[o]] = o
      /\ order[o] = "unpaid" /\ rowLock' = Unlocked(o)
  BY OrderTypes DEF CommitCancel, RowInv, CancelInv, EndCancel
<1>2. \A p \in OrderIds : /\ order'[p] = "none" <=> order[p] = "none"
                          /\ p # o => order'[p] = order[p] /\ cancel'[p] = cancel[p]
  BY <1>1 DEF CommitCancel, TypeOK, LedgerTypeOK, EndCancel
<1>3. ASSUME NEW x \in Threads, Holds(x)
      PROVE  /\ VoucherOf[worker[x].id] \in Vouchers
             /\ rowLock[VoucherOf[worker[x].id]] = x
             /\ VoucherOf[worker[x].id] # VoucherOf[o]
  <2>1. VoucherOf[worker[x].id] \in Vouchers /\ rowLock[VoucherOf[worker[x].id]] = x
    BY <1>3, OrderTypes DEF RowInv, HolderInv, WriterInv, Holds, TypeOK, LedgerTypeOK
  <2> QED BY <1>1, <2>1, HoldersAssumption
<1>4. HolderInv'
  <2> SUFFICES ASSUME NEW x \in Threads, Holds(x)
               PROVE  LET v == VoucherOf[worker[x].id] IN rowLock'[v] = x /\ stock'[v] > 0
    BY DEF HolderInv, Holds, CommitCancel, EndCancel
  <2>1. rowLock'[VoucherOf[worker[x].id]] = x
    BY <1>1, <1>3, UnlockedRows, HoldersAssumption
  <2>2. stock'[VoucherOf[worker[x].id]] > 0
    BY <1>3 DEF CommitCancel, RowInv, HolderInv, TypeOK, LedgerTypeOK, EndCancel
  <2> QED BY <2>1, <2>2
<1>5. WriterInv'
  <2>1. worker' = worker
    BY DEF CommitCancel, EndCancel
  <2>2. \A x \in Threads : worker[x].write => worker[x].id \in OrderIds
    BY DEF RowInv, WriterInv, TypeOK, LedgerTypeOK
  <2> QED BY <1>2, <2>1, <2>2 DEF RowInv, WriterInv, Duplicate, Bought, SameBuyer
<1>6. CancelInv'
  <2>1. cancel'[o] = "idle"
    BY DEF CommitCancel, TypeOK, LedgerTypeOK, EndCancel
  <2> QED BY <1>1, <1>2, <2>1, UnlockedRows, OrderTypes DEF RowInv, CancelInv
<1> QED BY <1>4, <1>5, <1>6 DEF RowInv

LEMMA OrderKeepsRows ==
  ASSUME TypeOK, RowInv, NEW o \in OrderIds, OrderStep(o)
  PROVE  RowInv'
<1>1. CASE PayOrder(o)
  <2>1. /\ \A p \in OrderIds : order'[p] = "none" <=> order[p] = "none"
        /\ \A p \in OrderIds : cancel[p] # "idle" => order'[p] = order[p]
        /\ UNCHANGED <<worker, rowLock, cancel, stock>>
    BY <1>1 DEF PayOrder, TypeOK, LedgerTypeOK, SetPaid
  <2>2. \A x \in Threads : worker[x].write => worker[x].id \in OrderIds
    BY DEF RowInv, WriterInv, TypeOK, LedgerTypeOK
  <2> QED BY <2>1, <2>2 DEF RowInv, HolderInv, WriterInv, CancelInv, Holds, Duplicate,
                            Bought, SameBuyer
<1>2. CASE MarkCanceled(o)
  BY <1>2 DEF MarkCanceled, RowInv, HolderInv, WriterInv, CancelInv, Holds, Duplicate,
              Bought, ledger, TypeOK, LedgerTypeOK, SameBuyer, SetCanceled
<1>3. CASE RestoreMySqlStock(o)
  <2>1. VoucherOf[o] \in Vouchers /\ rowLock[VoucherOf[o]] = Nobody
    BY <1>3, OrderTypes DEF RestoreMySqlStock
  <2>2. /\ rowLock' = [rowLock EXCEPT ![VoucherOf[o]] = o]
        /\ cancel' = [cancel EXCEPT ![o] = "restocked"] /\ cancel[o] = "marked"
        /\ UNCHANGED <<worker, stock, order>>
    BY <1>3 DEF RestoreMySqlStock, ledger
  <2>3. HolderInv'
    BY <2>1, <2>2, HoldersAssumption, OrderTypes DEF RowInv, HolderInv, Holds, TypeOK,
                                                     LedgerTypeOK
  <2>4. WriterInv'
    BY <2>2 DEF RowInv, WriterInv, Duplicate, Bought, SameBuyer
  <2>5. CancelInv'
    BY <2>1, <2>2, HoldersAssumption, OrderTypes DEF RowInv, CancelInv, TypeOK,
                                                     LedgerTypeOK
  <2> QED BY <2>3, <2>4, <2>5 DEF RowInv
<1>4. CASE RestoreRedis(o)
  BY <1>4 DEF RestoreRedis, RowInv, HolderInv, WriterInv, CancelInv, Holds, Duplicate,
              Bought, ledger, TypeOK, LedgerTypeOK, SameBuyer, RunRollback
<1>5. CASE RestoreRedisThrows(o)
  BY <1>5, CancelIdleKeepsRows DEF RestoreRedisThrows, EndCancel
<1>6. CASE CommitCancel(o)
  BY <1>6, CommitCancelKeepsRows
<1>7. CASE AbortCancel(o)
  BY <1>7, CancelIdleKeepsRows DEF AbortCancel, EndCancel
<1> QED BY <1>1, <1>2, <1>3, <1>4, <1>5, <1>6, <1>7 DEF OrderStep

LEMMA RowStep ==
  ASSUME TypeOK, RowInv, [Next]_vars
  PROVE  RowInv'
<1>1. CASE UNCHANGED <<worker, rowLock, cancel, ledger>>
  BY <1>1 DEF RowInv, HolderInv, WriterInv, CancelInv, Holds, Duplicate, Bought, ledger,
              SameBuyer
<1>2. ASSUME NEW v \in Vouchers,
             AddSeckillVoucher(v) \/ CommitSeckillVoucher(v) \/ TimePasses(v)
      PROVE  UNCHANGED <<worker, rowLock, cancel, ledger>>
  BY <1>2 DEF AddSeckillVoucher, CommitSeckillVoucher, TimePasses
<1>3. ASSUME NEW o \in OrderIds, RequestStep(o)
      PROVE  UNCHANGED <<worker, rowLock, cancel, ledger>>
  BY <1>3 DEF RequestStep, ValidateSeckillVoucher, Reserve, Refuse, Send, SendThrows,
              RollbackSeckillReservation, CrashRequest, LoseMessage
<1>4. ASSUME NEW u \in Users, LeaseEnds(u)
      PROVE  UNCHANGED <<worker, rowLock, cancel, ledger>>
  BY <1>4 DEF LeaseEnds
<1>5. CASE UNCHANGED vars \/ Terminating
  BY <1>1, <1>5 DEF vars, Terminating, ledger
<1> QED BY <1>1, <1>2, <1>3, <1>4, <1>5, WorkerKeepsRows, OrderKeepsRows DEF Next

LEMMA InitIInv == Init => IInv
<1> SUFFICES ASSUME Init
             PROVE  IInv
  OBVIOUS
<1>1. TypeOK
  BY StockAssumption DEF Init, LedgerInit, TypeOK, Idle, SaleSteps, RequestSteps,
                         WorkerSteps, CancelSteps, Statuses, LedgerTypeOK
<1>2. KeyInv
  BY DEF Init, KeyInv
<1>3. RowInv
  BY DEF Init, RowInv, HolderInv, WriterInv, CancelInv, Holds, Idle
<1> QED BY <1>1, <1>2, <1>3 DEF IInv

THEOREM Invariance == Spec => []IInv
<1>1. IInv /\ [Next]_vars => IInv'
  BY RedisTypes, TypeStep, RowStep DEF IInv
<1> QED BY InitIInv, <1>1, PTL DEF Spec

(***************************************************************************)
(* Type correctness; in particular the stock column never goes below zero, *)
(* whatever Redis admits.                                                  *)
(***************************************************************************)
THEOREM TypeCorrect == Spec => []TypeOK
<1>1. IInv => TypeOK
  BY DEF IInv
<1> QED BY Invariance, <1>1, PTL

-----------------------------------------------------------------------------
(* The flow implements the ledger.                                         *)

LEMMA LedgerStep ==
  ASSUME IInv, [Next]_vars
  PROVE  [LedgerNext]_ledger
<1> USE DEF IInv
<1>1. CASE UNCHANGED ledger
  BY <1>1 DEF ledger
<1>2. ASSUME NEW v \in Vouchers,
             AddSeckillVoucher(v) \/ CommitSeckillVoucher(v) \/ TimePasses(v)
      PROVE  UNCHANGED ledger
  BY <1>2 DEF AddSeckillVoucher, CommitSeckillVoucher, TimePasses
<1>3. ASSUME NEW o \in OrderIds, RequestStep(o)
      PROVE  UNCHANGED ledger
  BY <1>3 DEF RequestStep, ValidateSeckillVoucher, Reserve, Refuse, Send, SendThrows,
              RollbackSeckillReservation, CrashRequest, LoseMessage
<1>4. ASSUME NEW u \in Users, LeaseEnds(u)
      PROVE  UNCHANGED ledger
  BY <1>4 DEF LeaseEnds
<1>5. ASSUME NEW t \in Threads, WorkerStep(t)
      PROVE  [LedgerNext]_ledger
  <2>1. CASE CommitOrder(t) /\ worker[t].write
    <3> DEFINE o == worker[t].id
    <3>1. o \in OrderIds /\ stock[VoucherOf[o]] > 0 /\ ~Duplicate(o)
      BY <2>1 DEF RowInv, HolderInv, WriterInv, Holds, TypeOK, LedgerTypeOK
    <3>2. Create(o)
      BY <2>1, <3>1 DEF CommitOrder, Duplicate, Bought, Create, SameBuyer
    <3> QED BY <3>1, <3>2 DEF LedgerNext
  <2>2. CASE ~(CommitOrder(t) /\ worker[t].write)
    <3>1. UNCHANGED ledger
      BY <1>5, <2>2 DEF WorkerStep, Deliver, CountOrders, TakeStock, SaveOrder, Unlock,
                        CommitOrder, Ack, FailOrder, CrashWorker, Counted, UpdateStock
    <3> QED BY <3>1 DEF ledger
  <2> QED BY <2>1, <2>2
<1>6. ASSUME NEW o \in OrderIds, OrderStep(o)
      PROVE  [LedgerNext]_ledger
  <2>1. CASE PayOrder(o)
    <3>1. Pay(o)
      BY <2>1 DEF PayOrder, Pay, SetPaid
    <3> QED BY <3>1 DEF LedgerNext
  <2>2. CASE CommitCancel(o)
    <3>1. Cancel(o)
      BY <2>2 DEF CommitCancel, Cancel, RowInv, CancelInv, EndCancel
    <3> QED BY <3>1 DEF LedgerNext
  <2>3. CASE ~PayOrder(o) /\ ~CommitCancel(o)
    <3>1. UNCHANGED ledger
      BY <1>6, <2>3 DEF OrderStep, MarkCanceled, RestoreMySqlStock, RestoreRedis,
                        RestoreRedisThrows, AbortCancel, SetCanceled, RunRollback,
                        EndCancel
    <3> QED BY <3>1 DEF ledger
  <2> QED BY <2>1, <2>2, <2>3
<1>7. CASE UNCHANGED vars \/ Terminating
  BY <1>1, <1>7 DEF vars, Terminating, ledger
<1> QED BY <1>1, <1>2, <1>3, <1>4, <1>5, <1>6, <1>7 DEF Next

(***************************************************************************)
(* Whatever the interleaving, the redeliveries and the faults, MySQL sees  *)
(* only what the ledger allows.                                            *)
(***************************************************************************)
THEOREM ImplementsLedger == Spec => LedgerSpec
<1>1. Init => LedgerInit
  BY DEF Init
<1> QED BY Invariance, <1>1, LedgerStep, PTL DEF Spec, LedgerSpec

(***************************************************************************)
(* Nothing is oversold and no unit is lost, with or without the unique     *)
(* key.                                                                    *)
(***************************************************************************)
THEOREM Conserves == Spec => []StockConserved
  BY ImplementsLedger, LedgerConserves, PTL

(***************************************************************************)
(* With uk_voucher_order_user_voucher no user gets two orders for one      *)
(* voucher, although the user's lock is released before the commit and may *)
(* lapse.                                                                  *)
(***************************************************************************)
THEOREM OneOrder == ASSUME UniqueKey PROVE Spec => []OneOrderPerUser
  BY ImplementsLedger, LedgerOneOrder, PTL

-----------------------------------------------------------------------------
(* The two Redis keys.                                                     *)

LEMMA MembersFinite ==
  ASSUME TypeOK, NEW v \in Vouchers
  PROVE  IsFiniteSet(redisMembers[v]) /\ Cardinality(redisMembers[v]) \in Nat
  BY UsersAssumption, FS_Subset, FS_CardinalityType DEF TypeOK

LEMMA RollbackConserves ==
  ASSUME TypeOK, KeyInv, RedisConserved, NEW o \in OrderIds, RollbackScript(o)
  PROVE  RedisConserved'
<1> DEFINE v == VoucherOf[o]
<1>1. CASE UserOf[o] \notin redisMembers[v]
  BY <1>1 DEF RollbackScript, redisVars, RedisConserved
<1>2. CASE UserOf[o] \in redisMembers[v]
  <2>1. v \in Vouchers /\ redisStock[v] \in Int /\ redisStock[v] # NoKey
    BY <1>2, OrderTypes, NoKeyAssumption DEF TypeOK, KeyInv
  <2>2. /\ redisStock' = [redisStock EXCEPT ![v] = redisStock[v] + 1]
        /\ redisMembers' = [redisMembers EXCEPT ![v] = redisMembers[v] \ {UserOf[o]}]
    BY <1>2 DEF RollbackScript
  <2>3. Cardinality(redisMembers[v] \ {UserOf[o]}) = Cardinality(redisMembers[v]) - 1
    BY <1>2, <2>1, MembersFinite, FS_RemoveElement
  <2>4. /\ redisStock[v] >= 0
        /\ redisStock[v] + Cardinality(redisMembers[v]) = InitStock[v]
    BY <2>1 DEF RedisConserved
  <2>5. /\ redisStock'[v] = redisStock[v] + 1
        /\ redisMembers'[v] = redisMembers[v] \ {UserOf[o]}
        /\ \A w \in Vouchers :
             w # v => redisStock'[w] = redisStock[w] /\ redisMembers'[w] = redisMembers[w]
    BY <2>1, <2>2 DEF TypeOK
  <2>6. redisStock'[v] >= 0 /\ redisStock'[v] + Cardinality(redisMembers'[v]) = InitStock[v]
    BY <2>1, <2>3, <2>4, <2>5, MembersFinite
  <2> QED BY <2>5, <2>6 DEF RedisConserved
<1> QED BY <1>1, <1>2

LEMMA ReserveConserves ==
  ASSUME TypeOK, RedisConserved, NEW o \in OrderIds, Reserve(o)
  PROVE  RedisConserved'
<1> DEFINE v == VoucherOf[o]
<1>1. /\ v \in Vouchers /\ redisStock[v] \in Int /\ redisStock[v] # NoKey
      /\ redisStock[v] > 0 /\ UserOf[o] \notin redisMembers[v]
  BY OrderTypes DEF Reserve, Admissible, TypeOK
<1>2. /\ redisStock' = [redisStock EXCEPT ![v] = redisStock[v] - 1]
      /\ redisMembers' = [redisMembers EXCEPT ![v] = redisMembers[v] \cup {UserOf[o]}]
  BY DEF Reserve
<1>3. Cardinality(redisMembers[v] \cup {UserOf[o]}) = Cardinality(redisMembers[v]) + 1
  BY <1>1, MembersFinite, FS_AddElement
<1>4. redisStock[v] + Cardinality(redisMembers[v]) = InitStock[v]
  BY <1>1 DEF RedisConserved
<1>5. /\ redisStock'[v] = redisStock[v] - 1
      /\ redisMembers'[v] = redisMembers[v] \cup {UserOf[o]}
      /\ \A w \in Vouchers :
           w # v => redisStock'[w] = redisStock[w] /\ redisMembers'[w] = redisMembers[w]
  BY <1>1, <1>2 DEF TypeOK
<1>6. redisStock'[v] >= 0 /\ redisStock'[v] + Cardinality(redisMembers'[v]) = InitStock[v]
  BY <1>1, <1>3, <1>4, <1>5, MembersFinite
<1> QED BY <1>5, <1>6 DEF RedisConserved

LEMMA RedisStep ==
  ASSUME TypeOK, KeyInv, RedisConserved, [Next]_vars
  PROVE  RedisConserved'
<1>1. ASSUME NEW v \in Vouchers, AddSeckillVoucher(v)
      PROVE  RedisConserved'
  <2>1. redisMembers[v] = {} /\ Cardinality(redisMembers[v]) = 0 /\ InitStock[v] \in Nat
    BY <1>1, FS_EmptySet, StockAssumption DEF AddSeckillVoucher, KeyInv
  <2>2. /\ redisStock'[v] = InitStock[v] /\ redisMembers' = redisMembers
        /\ \A w \in Vouchers : w # v => redisStock'[w] = redisStock[w]
    BY <1>1 DEF AddSeckillVoucher, TypeOK
  <2>3. redisStock'[v] >= 0 /\ redisStock'[v] + Cardinality(redisMembers'[v]) = InitStock[v]
    BY <2>1, <2>2
  <2> QED BY <2>2, <2>3 DEF RedisConserved
<1>2. ASSUME NEW o \in OrderIds, Reserve(o)
      PROVE  RedisConserved'
  BY <1>2, ReserveConserves
<1>3. ASSUME NEW o \in OrderIds,
             RollbackSeckillReservation(o) \/ RestoreRedis(o) \/ RestoreRedisThrows(o)
      PROVE  RedisConserved'
  <2>1. RollbackScript(o) \/ UNCHANGED redisVars
    BY <1>3 DEF RollbackSeckillReservation, RestoreRedis, RestoreRedisThrows,
                RunRollback, EndCancel
  <2>2. CASE UNCHANGED redisVars
    BY <2>2 DEF redisVars, RedisConserved
  <2> QED BY <2>1, <2>2, RollbackConserves
<1>4. CASE UNCHANGED redisVars
  BY <1>4 DEF redisVars, RedisConserved
<1> QED BY <1>1, <1>2, <1>3, <1>4, RedisFrame DEF RedisAction

(***************************************************************************)
(* A unit missing from seckill:stock is always held by a member of         *)
(* seckill:order: repeated, late and unanswered rollbacks never mint or    *)
(* burn a unit.                                                            *)
(***************************************************************************)
THEOREM RedisConserves == Spec => []RedisConserved
<1>1. Init => RedisConserved
  BY DEF Init, RedisConserved
<1>2. IInv /\ RedisConserved /\ [Next]_vars => RedisConserved'
  BY RedisStep DEF IInv
<1> QED BY Invariance, <1>1, <1>2, PTL DEF Spec
=============================================================================
