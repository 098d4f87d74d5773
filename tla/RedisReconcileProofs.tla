------------------------ MODULE RedisReconcileProofs ------------------------
(***************************************************************************)
(* Proofs about the reconcile task beside the order flow, for any number   *)
(* of runners, overlapping runs and failing calls included: whatever the   *)
(* task writes into Redis, MySQL keeps the ledger's promises.  And runs    *)
(* come to overlap only when the lock's TTL ends under one of them.        *)
(***************************************************************************)
EXTENDS RedisReconcile, SeckillOrderProofs

RunTypeOK ==
  /\ run \in [Runners -> Run]
  /\ reconcileLock \in Runners \cup {Nobody}

\* A runner at work on a voucher knows it, and one about to write knows what.
RunInv ==
  \A r \in Runners :
    /\ run[r].at \in {"repairing", "orphan", "returning", "writing"} =>
         run[r].voucher \in Vouchers
    /\ run[r].at = "writing" => run[r].listed[run[r].voucher] # NoKey

RInv == IInv /\ RunTypeOK /\ RunInv

RunnerStep(r) == StartRun(r) \/ RunStep(r) \/ FailRun(r) \/ CrashRun(r)

\* The only two steps of a run that write to Redis besides RemoveOrphan.
TaskWrites(r) == RemoveOrphan(r) \/ ReturnUnit(r) \/ WriteStock(r)

-----------------------------------------------------------------------------
(* The runners' own state.                                                 *)

LEMMA NoRunTyped == NoRun \in Run
  BY DEF NoRun, Run, RunSteps

LEMMA RunnerTypes ==
  ASSUME TypeOK, RunTypeOK, RunInv, NEW r \in Runners, RunnerStep(r)
  PROVE  RunTypeOK' /\ RunInv'
<1> USE DEF RunTypeOK, RunSteps
<1>0. run[r] \in Run
  OBVIOUS
<1>a. ASSUME NEW new \in Run,
             run' = [run EXCEPT ![r] = new],
             reconcileLock' \in Runners \cup {Nobody},
             new.at \in {"repairing", "orphan", "returning", "writing"} =>
               new.voucher \in Vouchers,
             new.at = "writing" => new.listed[new.voucher] # NoKey
      PROVE  RunTypeOK' /\ RunInv'
  BY <1>a DEF RunInv
<1>1. CASE StartRun(r)
  <2>1. [run[r] EXCEPT !.at = "listing"] \in Run
    BY <1>0 DEF Run
  <2> QED BY <1>0, <1>1, <1>a, <2>1 DEF StartRun, StartRunUnlocked, Run
<1>2. CASE ListVouchers(r)
  <2> DEFINE shown == [v \in Vouchers |-> IF sale[v] = "open" THEN stock[v] ELSE NoKey]
             todo == {v \in Vouchers : sale[v] # "absent"}
             new == [run[r] EXCEPT !.at = "next", !.todo = todo, !.listed = shown]
  <2>1. shown \in [Vouchers -> Nat \cup {NoKey}] /\ todo \in SUBSET Vouchers
    BY DEF TypeOK, LedgerTypeOK
  <2> HIDE DEF shown, todo
  <2>2. new \in Run /\ new.at = "next"
    BY <1>0, <2>1 DEF Run
  <2>3. run' = [run EXCEPT ![r] = new] /\ reconcileLock' = reconcileLock
    BY <1>2 DEF ListVouchers, List, shown, todo
  <2> HIDE DEF new
  <2> QED BY <1>a, <2>2, <2>3
<1>3. ASSUME NEW v \in Vouchers, ReadMembers(r, v)
      PROVE  RunTypeOK' /\ RunInv'
  <2> DEFINE new == [run[r] EXCEPT !.at = "repairing", !.todo = run[r].todo \ {v},
                                   !.voucher = v, !.members = redisMembers[v]]
  <2>1. new \in Run /\ new.at = "repairing" /\ new.voucher = v
    BY <1>0 DEF Run, TypeOK
  <2>2. run' = [run EXCEPT ![r] = new] /\ reconcileLock' = reconcileLock
    BY <1>3 DEF ReadMembers
  <2> HIDE DEF new
  <2> QED BY <1>a, <2>1, <2>2
<1>4. ASSUME NEW u \in Users, CountMember(r, u)
      PROVE  RunTypeOK' /\ RunInv'
  <2> DEFINE kept == [run[r] EXCEPT !.members = run[r].members \ {u}]
             found == [run[r] EXCEPT !.at = "orphan", !.members = run[r].members \ {u}, !.user = u]
  <2>1. /\ kept \in Run /\ kept.at = "repairing" /\ kept.voucher = run[r].voucher
        /\ found \in Run /\ found.at = "orphan" /\ found.voucher = run[r].voucher
    BY <1>0, <1>4 DEF Run, CountMember, Count
  <2>2. run[r].voucher \in Vouchers
    BY <1>4 DEF CountMember, Count, RunInv
  <2>3. CASE HasOrder(u, run[r].voucher)
    <3>1. run' = [run EXCEPT ![r] = kept] /\ reconcileLock' = reconcileLock
      BY <1>4, <2>3 DEF CountMember, Count
    <3> HIDE DEF kept, found
    <3> QED BY <1>a, <2>1, <2>2, <3>1
  <2>4. CASE ~HasOrder(u, run[r].voucher)
    <3>1. run' = [run EXCEPT ![r] = found] /\ reconcileLock' = reconcileLock
      BY <1>4, <2>4 DEF CountMember, Count
    <3> HIDE DEF kept, found
    <3> QED BY <1>a, <2>1, <2>2, <3>1
  <2> QED BY <2>3, <2>4
<1>5. CASE RemoveOrphan(r)
  <2>1. [run[r] EXCEPT !.at = "returning"] \in Run
    BY <1>0 DEF Run
  <2> QED BY <1>0, <1>5, <1>a, <2>1 DEF RemoveOrphan, OnRedis, Run, RunInv
<1>6. CASE ReturnUnit(r)
  <2>1. [run[r] EXCEPT !.at = "repairing", !.user = Nobody] \in Run
    BY <1>0 DEF Run
  <2> QED BY <1>0, <1>6, <1>a, <2>1 DEF ReturnUnit, OnRedis, Run, RunInv
<1>7. CASE CompareStock(r)
  <2> DEFINE write == run[r].listed[run[r].voucher] \notin {NoKey, redisStock[run[r].voucher]}
             new == [run[r] EXCEPT !.at = IF write THEN "writing" ELSE "next"]
  <2>1. /\ new \in Run /\ new.at = IF write THEN "writing" ELSE "next"
        /\ new.voucher = run[r].voucher /\ new.listed = run[r].listed
    BY <1>0 DEF Run
  <2>2. run[r].voucher \in Vouchers
    BY <1>7 DEF CompareStock, Compare, RunInv
  <2>3. run' = [run EXCEPT ![r] = new] /\ reconcileLock' = reconcileLock
    BY <1>7 DEF CompareStock, Compare
  <2>4. new.at = "writing" => new.listed[new.voucher] # NoKey
    BY <2>1
  <2> HIDE DEF new
  <2> QED BY <1>a, <2>1, <2>2, <2>3, <2>4
<1>8. CASE WriteStock(r)
  <2>1. [run[r] EXCEPT !.at = "next"] \in Run
    BY <1>0 DEF Run
  <2> QED BY <1>0, <1>8, <1>a, <2>1 DEF WriteStock, OnRedis, Run
<1>9. CASE FailRun(r)
  <2>1. [run[r] EXCEPT !.at = "unlocking"] \in Run
    BY <1>0 DEF Run
  <2> QED BY <1>0, <1>9, <1>a, <2>1 DEF FailRun, Run
<1>10. CASE EndRun(r) \/ CrashRun(r)
  BY <1>10, <1>a, NoRunTyped DEF EndRun, CrashRun, NoRun
<1> QED BY <1>1, <1>2, <1>3, <1>4, <1>5, <1>6, <1>7, <1>8, <1>9, <1>10
        DEF RunnerStep, RunStep

-----------------------------------------------------------------------------
(* What a runner leaves alone.                                             *)

LEMMA RunnerFrame ==
  ASSUME NEW r \in Runners, RunnerStep(r)
  PROVE  /\ UNCHANGED <<sale, request, mq, userLock, worker, cancel, rowLock, ledger>>
         /\ TaskWrites(r) \/ UNCHANGED redisVars
  BY DEF RunnerStep, RunStep, TaskWrites, StartRun, StartRunUnlocked, ListVouchers, List,
         ReadMembers, CountMember, Count, RemoveOrphan, ReturnUnit, CompareStock, Compare,
         WriteStock, EndRun, FailRun, CrashRun, OnRedis, vars, redisVars

\* A run never leaves a voucher with members and without a stock.
LEMMA RunnerRedis ==
  ASSUME TypeOK, KeyInv, RunTypeOK, RunInv, NEW r \in Runners, TaskWrites(r)
  PROVE  /\ redisStock' \in [Vouchers -> Int \cup {NoKey}]
         /\ redisMembers' \in [Vouchers -> SUBSET Users]
         /\ KeyInv'
<1> DEFINE v == run[r].voucher
<1>0. v \in Vouchers
  BY DEF TaskWrites, RemoveOrphan, ReturnUnit, WriteStock, RunInv
<1>1. CASE RemoveOrphan(r)
  <2>1. /\ redisMembers' = [redisMembers EXCEPT ![v] = redisMembers[v] \ {run[r].user}]
        /\ redisStock' = redisStock
    BY <1>1 DEF RemoveOrphan
  <2> QED BY <1>0, <2>1 DEF TypeOK, KeyInv
<1>2. ASSUME NEW n \in Int, redisStock' = [redisStock EXCEPT ![v] = n],
             UNCHANGED redisMembers
      PROVE  /\ redisStock' \in [Vouchers -> Int \cup {NoKey}]
             /\ redisMembers' \in [Vouchers -> SUBSET Users]
             /\ KeyInv'
  BY <1>0, <1>2, NoKeyAssumption DEF TypeOK, KeyInv
<1>3. CASE ReturnUnit(r)
  <2> DEFINE n == IF redisStock[v] = NoKey THEN 1 ELSE redisStock[v] + 1
  <2>1. n \in Int
    BY <1>0 DEF TypeOK
  <2>2. redisStock' = [redisStock EXCEPT ![v] = n] /\ UNCHANGED redisMembers
    BY <1>3 DEF ReturnUnit
  <2> QED BY <1>2, <2>1, <2>2
<1>4. CASE WriteStock(r)
  <2>1. run[r].listed[v] \in Int
    BY <1>0, <1>4 DEF WriteStock, RunTypeOK, RunInv, Run
  <2> QED BY <1>2, <1>4, <2>1 DEF WriteStock
<1> QED BY <1>1, <1>3, <1>4 DEF TaskWrites

LEMMA RowsUntouched ==
  ASSUME RowInv, UNCHANGED <<worker, cancel, rowLock, ledger>>
  PROVE  RowInv'
  BY DEF RowInv, HolderInv, WriterInv, CancelInv, Holds, Duplicate, Bought, SameBuyer, ledger

LEMMA RunnerKeepsFlow ==
  ASSUME RInv, NEW r \in Runners, RunnerStep(r)
  PROVE  IInv'
<1>1. UNCHANGED <<sale, request, mq, userLock, worker, cancel, rowLock, ledger>>
  BY RunnerFrame
<1>2. /\ redisStock' \in [Vouchers -> Int \cup {NoKey}]
      /\ redisMembers' \in [Vouchers -> SUBSET Users]
      /\ KeyInv'
  <2>1. CASE UNCHANGED redisVars
    BY <2>1 DEF RInv, IInv, TypeOK, KeyInv, redisVars
  <2>2. CASE TaskWrites(r)
    BY <2>2, RunnerRedis DEF RInv, IInv
  <2> QED BY <2>1, <2>2, RunnerFrame
<1>3. TypeOK'
  BY <1>1, <1>2 DEF RInv, IInv, TypeOK, LedgerTypeOK, ledger
<1>4. RowInv'
  BY <1>1, RowsUntouched DEF RInv, IInv
<1> QED BY <1>2, <1>3, <1>4 DEF IInv

LEMMA ReconcileStep == RInv /\ [ReconcileNext]_reconcileVars => RInv'
<1> SUFFICES ASSUME RInv, [ReconcileNext]_reconcileVars
             PROVE  RInv'
  OBVIOUS
<1>1. CASE [Next]_vars /\ UNCHANGED task
  <2>1. IInv'
    BY <1>1, RedisTypes, TypeStep, RowStep DEF RInv, IInv
  <2>2. RunTypeOK' /\ RunInv'
    BY <1>1 DEF task, RInv, RunTypeOK, RunInv
  <2> QED BY <2>1, <2>2 DEF RInv
<1>2. ASSUME NEW r \in Runners, RunnerStep(r)
      PROVE  RInv'
  BY <1>2, RunnerKeepsFlow, RunnerTypes DEF RInv, IInv
<1>3. CASE LockExpires
  <2>1. UNCHANGED vars /\ UNCHANGED run /\ reconcileLock' = Nobody
    BY <1>3 DEF LockExpires
  <2>2. IInv'
    BY <2>1, RedisTypes, TypeStep, RowStep DEF RInv, IInv
  <2> QED BY <2>1, <2>2 DEF RInv, RunTypeOK, RunInv
<1> QED BY <1>1, <1>2, <1>3 DEF ReconcileNext, RunnerStep, reconcileVars, task

(***************************************************************************)
(* The order flow's inductive invariant survives the reconcile task.       *)
(***************************************************************************)
THEOREM ReconcileInvariance == ReconcileSpec => []RInv
<1>1. ReconcileInit => RInv
  BY InitIInv, NoRunTyped DEF ReconcileInit, RInv, RunTypeOK, RunInv, NoRun
<1> QED BY <1>1, ReconcileStep, PTL DEF ReconcileSpec

(***************************************************************************)
(* Type correctness beside the task: the stock column never goes below     *)
(* zero, however often a run makes Redis sell a unit again.                *)
(***************************************************************************)
THEOREM ReconcileTypeCorrect == ReconcileSpec => [](TypeOK /\ RunTypeOK)
<1>1. RInv => TypeOK /\ RunTypeOK
  BY DEF RInv, IInv
<1> QED BY <1>1, ReconcileInvariance, PTL

LEMMA ReconcileLedgerStep ==
  RInv /\ [ReconcileNext]_reconcileVars => [LedgerNext]_ledger
<1> SUFFICES ASSUME RInv, [ReconcileNext]_reconcileVars
             PROVE  [LedgerNext]_ledger
  OBVIOUS
<1>1. CASE [Next]_vars
  BY <1>1, LedgerStep DEF RInv
<1>2. ASSUME NEW r \in Runners, RunnerStep(r)
      PROVE  UNCHANGED ledger
  BY <1>2, RunnerFrame
<1>3. CASE LockExpires
  BY <1>3, LedgerStep DEF LockExpires, RInv
<1> QED BY <1>1, <1>2, <1>3 DEF ReconcileNext, RunnerStep, reconcileVars

(***************************************************************************)
(* With the task running, overlapping runs and failing calls included,     *)
(* MySQL still sees only what the ledger allows.                           *)
(***************************************************************************)
THEOREM ReconcileImplementsLedger == ReconcileSpec => LedgerSpec
<1>1. ReconcileInit => LedgerInit
  BY DEF ReconcileInit, Init
<1> QED BY ReconcileInvariance, <1>1, ReconcileLedgerStep, PTL DEF ReconcileSpec, LedgerSpec

(***************************************************************************)
(* Whatever the task gives back in Redis, MySQL neither oversells nor      *)
(* loses a unit.                                                           *)
(***************************************************************************)
THEOREM ReconcileConserves == ReconcileSpec => []StockConserved
  BY ReconcileImplementsLedger, LedgerConserves, PTL

(***************************************************************************)
(* Nor does the task let a user have two orders for one voucher: where it  *)
(* makes Redis sell to a buyer again, the unique key refuses the order.    *)
(***************************************************************************)
THEOREM ReconcileOneOrder ==
  ASSUME UniqueKey
  PROVE  ReconcileSpec => []OneOrderPerUser
  BY ReconcileImplementsLedger, LedgerOneOrder, PTL

-----------------------------------------------------------------------------
(* The lock.                                                               *)

\* The TTL ends under a run that goes on.
Lapses == LockExpires /\ Running(reconcileLock)

LEMMA LockStep ==
  ASSUME RunTypeOK, SoleRunner, [ReconcileNext]_reconcileVars, ~Lapses
  PROVE  SoleRunner'
<1>1. ASSUME NEW r \in Runners, StartRun(r)
      PROVE  SoleRunner'
  BY <1>1, RunnersAssumption DEF StartRun, StartRunUnlocked, SoleRunner, Running, RunTypeOK
<1>2. ASSUME NEW r \in Runners, EndRun(r) \/ CrashRun(r)
      PROVE  SoleRunner'
  <2>1. Running(r) /\ \A s \in Runners : s # r => ~Running(s) /\ run'[s] = run[s]
    BY <1>2 DEF EndRun, CrashRun, Over, SoleRunner, Running, RunTypeOK
  <2>2. run'[r].at = "idle"
    BY <1>2 DEF EndRun, CrashRun, NoRun, RunTypeOK
  <2> QED BY <2>1, <2>2 DEF SoleRunner, Running
<1>3. ASSUME NEW r \in Runners, RunStep(r) \/ FailRun(r), ~EndRun(r)
      PROVE  SoleRunner'
  <2>1. Running(r) /\ reconcileLock' = reconcileLock
        /\ \A s \in Runners : s # r => run'[s] = run[s]
    BY <1>3 DEF RunStep, ListVouchers, List, ReadMembers, CountMember, Count, RemoveOrphan,
                ReturnUnit, CompareStock, Compare, WriteStock, FailRun, OnRedis, Running,
                RunTypeOK
  <2> QED BY <2>1 DEF SoleRunner, Running
<1>4. CASE LockExpires
  BY <1>4, RunnersAssumption DEF LockExpires, SoleRunner, Running, RunTypeOK, Lapses
<1>5. CASE UNCHANGED task
  BY <1>5 DEF task, SoleRunner, Running
<1> QED BY <1>1, <1>2, <1>3, <1>4, <1>5 DEF ReconcileNext, reconcileVars, task

(***************************************************************************)
(* For any runners and any faults, runs that outlive the lock's TTL        *)
(* included: as long as whoever runs holds the lock, the only step that    *)
(* ends this is the lock's expiry under a run.                             *)
(***************************************************************************)
THEOREM LapsesAloneOverlap == ReconcileSpec => OnlyLapsesOverlap
<1>1. ASSUME RInv, [ReconcileNext]_reconcileVars, SoleRunner
      PROVE  SoleRunner' \/ Lapses
  BY <1>1, LockStep DEF RInv
<1>2. RInv /\ [ReconcileNext]_reconcileVars
        => [SoleRunner => SoleRunner' \/ (LockExpires /\ Running(reconcileLock))]_reconcileVars
  BY <1>1 DEF Lapses
<1> QED BY ReconcileInvariance, <1>2, PTL DEF ReconcileSpec, OnlyLapsesOverlap

-----------------------------------------------------------------------------
(* Stocks in step.                                                         *)

\* An order of v is reserved or canceled.
Parted(v) ==
  \E o \in OrderIds : VoucherOf[o] = v /\ (Reserve(o) \/ MarkCanceled(o))

LEMMA OrdersStay ==
  ASSUME LedgerTypeOK, [LedgerNext]_ledger
  PROVE  \A o \in OrderIds : order[o] # "none" => order'[o] # "none"
<1>1. ASSUME NEW o \in OrderIds, order[o] # "none"
      PROVE  order'[o] # "none"
  <2>1. CASE UNCHANGED ledger
    BY <1>1, <2>1 DEF ledger
  <2>2. ASSUME NEW p \in OrderIds, Create(p) \/ Pay(p) \/ Cancel(p)
        PROVE  order'[o] # "none"
    BY <1>1, <2>2 DEF Create, Pay, Cancel, LedgerTypeOK
  <2> QED BY <2>1, <2>2 DEF LedgerNext
<1> QED BY <1>1

\* What a step of the flow leaves of v as it is.
Kept(v) ==
  /\ redisStock'[v] = redisStock[v] /\ redisMembers'[v] = redisMembers[v]
  /\ stock'[v] = stock[v]

\* The rollback script touches the voucher of its order only.
LEMMA RollbackKeeps ==
  ASSUME TypeOK, NEW v \in Vouchers, NEW o \in OrderIds, VoucherOf[o] # v,
         RollbackScript(o) \/ UNCHANGED redisVars
  PROVE  redisStock'[v] = redisStock[v] /\ redisMembers'[v] = redisMembers[v]
  BY OrderTypes DEF RollbackScript, redisVars, TypeOK

LEMMA RequestKeepsRest ==
  ASSUME TypeOK, NEW v \in Vouchers, FlowRests(v), ~Parted(v),
         \A o \in OrderIds : order[o] # "none" => order'[o] # "none",
         NEW o \in OrderIds, RequestStep(o)
  PROVE  FlowRests(v)' /\ Kept(v)
<1>0. /\ UNCHANGED <<cancel, worker, ledger>>
      /\ \A p \in OrderIds : p # o => request'[p] = request[p]
      /\ \A p \in mq' : p # o => p \in mq
  BY DEF RequestStep, ValidateSeckillVoucher, Reserve, Refuse, Send, SendThrows,
         RollbackSeckillReservation, CrashRequest, LoseMessage, Moves, TypeOK, ledger
<1>1. CASE VoucherOf[o] = v
  <2>1. ValidateSeckillVoucher(o) \/ Refuse(o) \/ LoseMessage(o)
    BY <1>1 DEF Parted, FlowRests, RequestStep, Send, SendThrows,
                RollbackSeckillReservation, CrashRequest, Moves
  <2>2. /\ UNCHANGED redisVars
        /\ request'[o] \notin {"reserved", "rollback"}
        /\ mq' \subseteq mq
    BY <1>1, <2>1 DEF ValidateSeckillVoucher, Refuse, LoseMessage, Moves, TypeOK, FlowRests
  <2> QED BY <1>0, <1>1, <2>2 DEF FlowRests, Kept, redisVars, ledger, Bought, SameBuyer, TypeOK
<1>2. CASE VoucherOf[o] # v
  <2>1. redisStock'[v] = redisStock[v] /\ redisMembers'[v] = redisMembers[v]
    <3>1. CASE Reserve(o)
      BY <1>2, <3>1, OrderTypes DEF Reserve, TypeOK
    <3>2. CASE RollbackSeckillReservation(o)
      BY <1>2, <3>2, RollbackKeeps DEF RollbackSeckillReservation
    <3> QED BY <3>1, <3>2 DEF RequestStep, ValidateSeckillVoucher, Refuse, Send, SendThrows,
                              CrashRequest, LoseMessage, redisVars
  <2> QED BY <1>0, <1>2, <2>1 DEF FlowRests, Kept, ledger, Bought, SameBuyer, TypeOK
<1> QED BY <1>1, <1>2

LEMMA OrderKeepsRest ==
  ASSUME TypeOK, NEW v \in Vouchers, FlowRests(v), ~Parted(v),
         \A o \in OrderIds : order[o] # "none" => order'[o] # "none",
         NEW o \in OrderIds, OrderStep(o)
  PROVE  FlowRests(v)' /\ Kept(v)
<1>0. /\ UNCHANGED <<request, mq, worker>>
      /\ \A p \in OrderIds : p # o => cancel'[p] = cancel[p]
  BY DEF OrderStep, PayOrder, SetPaid, MarkCanceled, SetCanceled, RestoreMySqlStock,
         RestoreRedis, RunRollback, RestoreRedisThrows, CommitCancel, AbortCancel,
         EndCancel, TypeOK
<1>1. CASE VoucherOf[o] = v
  <2>1. PayOrder(o)
    BY <1>1 DEF Parted, FlowRests, OrderStep, RestoreMySqlStock, RestoreRedis, RunRollback,
                RestoreRedisThrows, CommitCancel, AbortCancel
  <2>2. UNCHANGED <<cancel, redisStock, redisMembers, stock>>
    BY <2>1 DEF PayOrder, SetPaid, redisVars
  <2> QED BY <1>0, <2>2 DEF FlowRests, Kept, Bought, SameBuyer, TypeOK
<1>2. CASE VoucherOf[o] # v
  <2>1. redisStock'[v] = redisStock[v] /\ redisMembers'[v] = redisMembers[v]
    <3>1. CASE RestoreRedis(o) \/ RestoreRedisThrows(o)
      BY <1>2, <3>1, RollbackKeeps DEF RestoreRedis, RunRollback, RestoreRedisThrows
    <3> QED BY <3>1 DEF OrderStep, PayOrder, SetPaid, MarkCanceled, SetCanceled,
                        RestoreMySqlStock, CommitCancel, AbortCancel, redisVars
  <2>2. stock'[v] = stock[v]
    BY <1>2, OrderTypes
       DEF OrderStep, PayOrder, SetPaid, MarkCanceled, SetCanceled, RestoreMySqlStock,
           RestoreRedis, RunRollback, RestoreRedisThrows, CommitCancel, AbortCancel,
           EndCancel, TypeOK, LedgerTypeOK, ledger
  <2> QED BY <1>0, <1>2, <2>1, <2>2 DEF FlowRests, Kept, Bought, SameBuyer, TypeOK
<1> QED BY <1>1, <1>2

\* What FlowRests asks of one thread.
ThreadRests(t, v) ==
  worker[t].at # "idle" /\ VoucherOf[worker[t].id] = v =>
    /\ worker[t].at \notin {"counted", "stocked"} /\ ~worker[t].write
    /\ worker[t].at = "locked" => Bought(worker[t].id)

LEMMA WorkerKeepsRest ==
  ASSUME TypeOK, NEW v \in Vouchers, FlowRests(v),
         \A o \in OrderIds : order[o] # "none" => order'[o] # "none",
         NEW t \in Threads, WorkerStep(t)
  PROVE  FlowRests(v)' /\ Kept(v)
<1> USE DEF TypeOK
<1>0. /\ UNCHANGED <<redisStock, redisMembers, request, cancel>>
      /\ \A s \in Threads : s # t => worker'[s] = worker[s]
      /\ mq' \subseteq mq
  BY DEF WorkerStep, Deliver, CountOrders, Counted, TakeStock, UpdateStock, SaveOrder,
         Unlock, CommitOrder, Ack, FailOrder, CrashWorker, At, redisVars
<1>1. stock'[v] = stock[v]
  <2>1. CASE CommitOrder(t)
    <3>1. worker[t].write => VoucherOf[worker[t].id] # v
      BY <2>1 DEF CommitOrder, FlowRests
    <3>2. worker[t].id \in OrderIds
      BY <2>1 DEF CommitOrder
    <3> QED BY <2>1, <3>1, <3>2, OrderTypes DEF CommitOrder, LedgerTypeOK, ledger
  <2> QED BY <2>1 DEF WorkerStep, Deliver, CountOrders, Counted, TakeStock, UpdateStock,
                      SaveOrder, Unlock, Ack, FailOrder, CrashWorker, ledger
<1>2. ThreadRests(t, v)'
  <2>1. ASSUME NEW o \in OrderIds, Deliver(t, o)
        PROVE  ThreadRests(t, v)'
    <3>1. worker'[t].id = o /\ worker'[t].at \in {"locked", "acking"} /\ ~worker'[t].write
      BY <2>1 DEF Deliver
    <3>2. VoucherOf[o] = v => Bought(o)'
      BY <2>1 DEF Deliver, FlowRests, Bought, SameBuyer
    <3> QED BY <3>1, <3>2 DEF ThreadRests, Bought, SameBuyer
  <2>2. CASE CountOrders(t)
    <3>1. /\ worker'[t].id = worker[t].id /\ ~worker'[t].write
          /\ worker'[t].at = IF Bought(worker[t].id) THEN "leaving" ELSE "counted"
          /\ worker[t].at = "locked"
      BY <2>2 DEF CountOrders, Counted, At
    <3> QED BY <3>1 DEF ThreadRests, FlowRests
  <2>3. CASE TakeStock(t) \/ SaveOrder(t)
    <3>1. worker'[t].id = worker[t].id /\ worker[t].at \in {"counted", "stocked"}
      BY <2>3 DEF TakeStock, UpdateStock, SaveOrder, At
    <3> QED BY <3>1 DEF ThreadRests, FlowRests
  <2>4. CASE Unlock(t)
    <3>1. /\ worker'[t].id = worker[t].id /\ worker[t].at = "leaving"
          /\ worker'[t].at = "committing" /\ worker'[t].write = worker[t].write
      BY <2>4 DEF Unlock, At
    <3> QED BY <3>1 DEF ThreadRests, FlowRests
  <2>5. CASE CommitOrder(t)
    <3>1. worker'[t].at = "acking" /\ ~worker'[t].write
      BY <2>5 DEF CommitOrder, At
    <3> QED BY <3>1 DEF ThreadRests
  <2>6. CASE Ack(t) \/ FailOrder(t) \/ CrashWorker(t)
    <3>1. worker'[t].at = "idle"
      BY <2>6 DEF Ack, FailOrder, CrashWorker, Idle
    <3> QED BY <3>1 DEF ThreadRests
  <2> QED BY <2>1, <2>2, <2>3, <2>4, <2>5, <2>6 DEF WorkerStep
<1>3. \A s \in Threads : s # t => ThreadRests(s, v)'
  BY <1>0 DEF ThreadRests, FlowRests, Bought, SameBuyer
<1>4. \A o \in OrderIds : VoucherOf[o] = v =>
        /\ request'[o] \notin {"reserved", "rollback"} /\ cancel'[o] = "idle"
        /\ o \in mq' => Bought(o)'
  BY <1>0 DEF FlowRests, Bought, SameBuyer
<1>5. FlowRests(v)'
  BY <1>2, <1>3, <1>4 DEF FlowRests, ThreadRests
<1> QED BY <1>0, <1>1, <1>5 DEF Kept

LEMMA FlowKeepsRest ==
  ASSUME TypeOK, NEW v \in Vouchers, FlowRests(v), redisStock[v] # NoKey, ~Parted(v),
         \A o \in OrderIds : order[o] # "none" => order'[o] # "none",
         [Next]_vars
  PROVE  FlowRests(v)' /\ Kept(v)
<1>1. CASE UNCHANGED vars \/ (\E u \in Users : LeaseEnds(u))
  <2>1. UNCHANGED <<redisStock, redisMembers, request, mq, worker, cancel, stock, order>>
    BY <1>1 DEF vars, LeaseEnds, redisVars, ledger
  <2> QED BY <2>1 DEF FlowRests, Kept, Bought, SameBuyer
<1>2. ASSUME NEW w \in Vouchers,
             AddSeckillVoucher(w) \/ CommitSeckillVoucher(w) \/ TimePasses(w)
      PROVE  FlowRests(v)' /\ Kept(v)
  <2>1. /\ UNCHANGED <<redisMembers, request, mq, worker, cancel, stock, order>>
        /\ redisStock'[v] = redisStock[v]
    BY <1>2 DEF AddSeckillVoucher, CommitSeckillVoucher, TimePasses, redisVars, ledger, TypeOK
  <2> QED BY <2>1 DEF FlowRests, Kept, Bought, SameBuyer
<1>3. ASSUME NEW o \in OrderIds, RequestStep(o) \/ OrderStep(o)
      PROVE  FlowRests(v)' /\ Kept(v)
  BY <1>3, RequestKeepsRest, OrderKeepsRest
<1>4. ASSUME NEW t \in Threads, WorkerStep(t)
      PROVE  FlowRests(v)' /\ Kept(v)
  BY <1>4, WorkerKeepsRest
<1> QED BY <1>1, <1>2, <1>3, <1>4 DEF Next, Terminating

\* A runner that is in step stays so, and what it writes is there already.
LEMMA RunnerKeepsStep ==
  ASSUME RInv, NEW v \in Vouchers, InStep(v), NEW r \in Runners, RunnerStep(r)
  PROVE  InStep(v)'
<1> USE DEF RInv, IInv, TypeOK, LedgerTypeOK, RunTypeOK
<1>0. /\ UNCHANGED <<request, mq, worker, cancel, stock, order>>
      /\ TaskWrites(r) \/ UNCHANGED redisVars
      /\ run[r] \in Run
  BY RunnerFrame DEF ledger
<1>1. FlowRests(v)' /\ \A u, w : HasOrder(u, w)' <=> HasOrder(u, w)
  BY <1>0 DEF InStep, FlowRests, Bought, SameBuyer, HasOrder
<1>2. redisStock'[v] = redisStock[v] /\ redisMembers'[v] = redisMembers[v]
  <2>1. CASE RemoveOrphan(r) \/ ReturnUnit(r)
    <3>1. run[r].voucher # v
      BY <2>1 DEF InStep, RunsRest, RemoveOrphan, ReturnUnit
    <3> QED BY <2>1, <3>1 DEF RemoveOrphan, ReturnUnit
  <2>2. CASE WriteStock(r)
    <3>1. run[r].voucher = v => run[r].listed[v] = redisStock[v]
      BY <2>2 DEF InStep, RunsRest, RunInv, WriteStock
    <3> QED BY <2>2, <3>1 DEF WriteStock
  <2> QED BY <1>0, <2>1, <2>2 DEF TaskWrites, redisVars
<1>3. \A s \in Runners : s # r => run'[s] = run[s]
  BY DEF RunnerStep, RunStep, StartRun, StartRunUnlocked, ListVouchers, List, ReadMembers,
         CountMember, Count, RemoveOrphan, ReturnUnit, CompareStock, Compare, WriteStock,
         EndRun, FailRun, CrashRun
<1>4. /\ run'[r].listed[v] \in {NoKey, stock[v]}
      /\ run'[r].voucher = v =>
           /\ run'[r].at \notin {"orphan", "returning"}
           /\ run'[r].at = "repairing" => \A u \in run'[r].members : HasOrder(u, v)
  <2> DEFINE Goal == /\ run'[r].listed[v] \in {NoKey, stock[v]}
                     /\ run'[r].voucher = v =>
                          /\ run'[r].at \notin {"orphan", "returning"}
                          /\ run'[r].at = "repairing" =>
                               \A u \in run'[r].members : HasOrder(u, v)
  <2>0. /\ run[r].listed[v] \in {NoKey, stock[v]}
        /\ run[r].voucher = v =>
             /\ run[r].at \notin {"orphan", "returning"}
             /\ run[r].at = "repairing" => \A u \in run[r].members : HasOrder(u, v)
    BY DEF InStep, RunsRest
  <2>1. CASE ListVouchers(r)
    <3>1. run'[r].at = "next" /\ run'[r].listed[v] \in {NoKey, stock[v]}
      BY <1>0, <2>1 DEF ListVouchers, List, Run
    <3> QED BY <3>1
  <2>2. ASSUME NEW w \in Vouchers, ReadMembers(r, w)
        PROVE  Goal
    <3>1. /\ run'[r].at = "repairing" /\ run'[r].voucher = w
          /\ run'[r].members = redisMembers[w] /\ run'[r].listed = run[r].listed
      BY <1>0, <2>2 DEF ReadMembers, Run
    <3> QED BY <2>0, <3>1 DEF InStep
  <2>3. ASSUME NEW u \in Users, CountMember(r, u)
        PROVE  Goal
    <3>1. /\ run'[r].voucher = run[r].voucher /\ run'[r].listed = run[r].listed
          /\ run'[r].members = run[r].members \ {u}
          /\ run'[r].at = IF HasOrder(u, run[r].voucher) THEN "repairing" ELSE "orphan"
          /\ run[r].at = "repairing" /\ u \in run[r].members
      BY <1>0, <2>3 DEF CountMember, Count, Run
    <3> QED BY <2>0, <3>1
  <2>4. CASE ReturnUnit(r) \/ RemoveOrphan(r)
    <3>1. run[r].at \in {"orphan", "returning"}
      BY <2>4 DEF RemoveOrphan, ReturnUnit
    <3>2. RemoveOrphan(r) =>
            run'[r].voucher = run[r].voucher /\ run'[r].listed = run[r].listed
      BY <1>0 DEF RemoveOrphan, Run
    <3>3. ReturnUnit(r) =>
            run'[r].voucher = run[r].voucher /\ run'[r].listed = run[r].listed
      BY <1>0 DEF ReturnUnit, Run
    <3>4. run'[r].voucher = run[r].voucher /\ run'[r].listed = run[r].listed
      BY <2>4, <3>2, <3>3
    <3> QED BY <2>0, <3>1, <3>4
  <2>5. CASE StartRun(r) \/ CompareStock(r) \/ WriteStock(r) \/ FailRun(r)
    <3>1. /\ run'[r].voucher = run[r].voucher /\ run'[r].listed = run[r].listed
          /\ run'[r].at \in {"listing", "writing", "next", "unlocking"}
      BY <1>0, <2>5 DEF StartRun, StartRunUnlocked, CompareStock, Compare, WriteStock,
                        FailRun, Run
    <3> QED BY <2>0, <3>1
  <2>6. CASE EndRun(r) \/ CrashRun(r)
    BY <2>6, RunnersAssumption DEF EndRun, CrashRun, NoRun
  <2> QED BY <2>1, <2>2, <2>3, <2>4, <2>5, <2>6 DEF RunnerStep, RunStep
<1>5. RunsRest(v)'
  BY <1>0, <1>1, <1>3, <1>4 DEF InStep, RunsRest
<1> QED BY <1>0, <1>1, <1>2, <1>5 DEF InStep

LEMMA InStepStays ==
  ASSUME RInv, NEW v \in Vouchers, InStep(v), ~Parted(v), [ReconcileNext]_reconcileVars
  PROVE  InStep(v)'
<1>0. \A o \in OrderIds : order[o] # "none" => order'[o] # "none"
  BY ReconcileLedgerStep, OrdersStay DEF RInv, IInv, TypeOK
<1>1. CASE [Next]_vars /\ UNCHANGED run
  <2>1. redisStock[v] # NoKey
    BY NoKeyAssumption DEF RInv, IInv, TypeOK, LedgerTypeOK, InStep
  <2>2. FlowRests(v)' /\ Kept(v)
    BY <1>0, <1>1, <2>1, FlowKeepsRest DEF RInv, IInv, InStep
  <2>3. \A u, w : HasOrder(u, w) => HasOrder(u, w)'
    BY <1>0 DEF HasOrder
  <2>4. RunsRest(v)'
    BY <1>1, <2>2, <2>3 DEF InStep, RunsRest, Kept
  <2> QED BY <2>2, <2>3, <2>4 DEF InStep, Kept
<1>2. ASSUME NEW r \in Runners, RunnerStep(r)
      PROVE  InStep(v)'
  BY <1>2, RunnerKeepsStep
<1> QED BY <1>1, <1>2 DEF ReconcileNext, RunnerStep, reconcileVars, task, LockExpires

(***************************************************************************)
(* Stocks in step part only when an order is reserved or canceled, however *)
(* many runs overlap, from whatever lists, and whatever fails beside them. *)
(***************************************************************************)
THEOREM OrdersAlonePartStocks == ReconcileSpec => OnlyOrdersPartStocks
<1> DEFINE Part == \A v \in Vouchers : InStep(v) => InStep(v)' \/ Parted(v)
<1>1. RInv /\ [ReconcileNext]_reconcileVars => Part
  BY InStepStays
<1> QED BY <1>1, ReconcileInvariance, PTL DEF ReconcileSpec, OnlyOrdersPartStocks, Parted
=============================================================================
