---------------------------- MODULE SeckillOrder ----------------------------
(***************************************************************************)
(* The seckill order flow: the HTTP request that reserves a unit in Redis  *)
(* and publishes a message, the RocketMQ consumer threads that turn the    *)
(* message into an order row inside a MySQL transaction, payment, and      *)
(* cancellation by the user or by the timeout task.                        *)
(*                                                                         *)
(* MySQL is seen through what is committed: a transaction's writes reach   *)
(* stock and order when it commits, and until then the rows it has updated *)
(* are locked (rowLock for the tb_seckill_voucher row; an order row is     *)
(* locked while its cancel transaction is not idle).  Redis commands and   *)
(* Lua scripts are atomic.  A message stays in the broker until a consumer *)
(* acknowledges it and may be delivered to several threads (CLUSTERING,    *)
(* at least once).                                                         *)
(*                                                                         *)
(* An order id stands for the request that drew it from RedisIdWorker, so  *)
(* the user and the voucher of an id are constants.                        *)
(***************************************************************************)
EXTENDS VoucherLedger

CONSTANTS
  Threads,         \* the consumer's threads, on all instances
  Faults,          \* what may go wrong, a subset of FaultKinds
  NoKey,           \* value of a Redis key that does not exist
  Nobody           \* holder of a free lock

FaultKinds ==
  {"send",         \* convertAndSend throws; the broker may have the message
   "redis",        \* a Lua call throws; the script may have run
   "db",           \* a statement, a wait for a row or a commit fails
   "crash",        \* the process dies
   "pause",        \* the Redisson watchdog is late and the lease lapses
   "loss"}         \* the broker loses a message (ASYNC_FLUSH, dead letter)

ASSUME UsersAssumption == IsFiniteSet(Users)

ASSUME HoldersAssumption ==
  Threads \cap OrderIds = {} /\ Nobody \notin Threads \cup OrderIds

ASSUME NoKeyAssumption == NoKey \notin Int

ASSUME SwitchesAssumption == UniqueKey \in BOOLEAN /\ Faults \subseteq FaultKinds

VARIABLES
  sale,            \* the voucher's rows in MySQL and its begin and end time
  redisStock,      \* seckill:stock:{voucherId}
  redisMembers,    \* seckill:order:{voucherId}, the one-order set
  request,         \* where the request of an order id stands
  mq,              \* ids of the messages the broker holds
  userLock,        \* lock:order:{userId}, a Redisson lock
  worker,          \* what a consumer thread is doing
  cancel,          \* where the cancel transaction of an order stands
  rowLock          \* the transaction that holds the voucher's row

redisVars == <<redisStock, redisMembers>>
vars == <<sale, redisStock, redisMembers, request, mq, userLock, worker,
          cancel, rowLock, ledger>>

Fault(f) == f \in Faults

SaleSteps    == {"absent", "upcoming", "open", "ended"}
RequestSteps == {"new", "validated", "reserved", "rollback", "acked", "failed",
                 "refused", "crashed"}
WorkerSteps  == {"idle", "locked", "counted", "stocked", "leaving", "committing", "acking"}
CancelSteps  == {"idle", "marked", "restocked", "restored"}

Idle == [at |-> "idle", id |-> Nobody, write |-> FALSE]

TypeOK ==
  /\ sale \in [Vouchers -> SaleSteps]
  /\ redisStock \in [Vouchers -> Int \cup {NoKey}]
  /\ redisMembers \in [Vouchers -> SUBSET Users]
  /\ request \in [OrderIds -> RequestSteps]
  /\ mq \subseteq OrderIds
  /\ userLock \in [Users -> Threads \cup {Nobody}]
  /\ worker \in [Threads -> [at : WorkerSteps, id : OrderIds \cup {Nobody}, write : BOOLEAN]]
  /\ \A t \in Threads : worker[t].at # "idle" => worker[t].id \in OrderIds
  /\ cancel \in [OrderIds -> CancelSteps]
  /\ rowLock \in [Vouchers -> Threads \cup OrderIds \cup {Nobody}]
  /\ LedgerTypeOK

Init ==
  /\ sale = [v \in Vouchers |-> "absent"]
  /\ redisStock = [v \in Vouchers |-> NoKey]
  /\ redisMembers = [v \in Vouchers |-> {}]
  /\ request = [o \in OrderIds |-> "new"]
  /\ mq = {}
  /\ userLock = [u \in Users |-> Nobody]
  /\ worker = [t \in Threads |-> Idle]
  /\ cancel = [o \in OrderIds |-> "idle"]
  /\ rowLock = [v \in Vouchers |-> Nobody]
  /\ LedgerInit

-----------------------------------------------------------------------------
(* Publishing a voucher: the Redis key is set inside the transaction,      *)
(* before the rows are visible.  A transaction that fails never commits.   *)

AddSeckillVoucher(v) ==
  /\ sale[v] = "absent" /\ redisStock[v] = NoKey
  /\ redisStock' = [redisStock EXCEPT ![v] = InitStock[v]]
  /\ UNCHANGED <<sale, redisMembers, request, mq, userLock, worker, cancel,
                 rowLock, ledger>>

CommitSeckillVoucher(v) ==
  /\ sale[v] = "absent" /\ redisStock[v] # NoKey
  /\ sale' = [sale EXCEPT ![v] = "upcoming"]
  /\ UNCHANGED <<redisVars, request, mq, userLock, worker, cancel, rowLock, ledger>>

\* Time passes begin_time, then end_time.
TimePasses(v) ==
  /\ \/ sale[v] = "upcoming" /\ sale' = [sale EXCEPT ![v] = "open"]
     \/ sale[v] = "open" /\ sale' = [sale EXCEPT ![v] = "ended"]
  /\ UNCHANGED <<redisVars, request, mq, userLock, worker, cancel, rowLock, ledger>>

-----------------------------------------------------------------------------
(* The request: validate against MySQL, reserve in Redis, publish.         *)

Moves(o, from, to) == request[o] = from /\ request' = [request EXCEPT ![o] = to]

ValidateSeckillVoucher(o) ==
  /\ Moves(o, "new", IF sale[VoucherOf[o]] = "open" THEN "validated" ELSE "refused")
  /\ UNCHANGED <<sale, redisVars, mq, userLock, worker, cancel, rowLock, ledger>>

\* What seckill.lua looks at before it takes a unit.
Admissible(o) ==
  LET v == VoucherOf[o]
  IN  redisStock[v] # NoKey /\ redisStock[v] > 0 /\ UserOf[o] \notin redisMembers[v]

\* The script takes the unit; with "redis" its answer may be lost, and nobody rolls back.
Reserve(o) ==
  LET v == VoucherOf[o]
  IN  /\ Admissible(o)
      /\ redisStock' = [redisStock EXCEPT ![v] = @ - 1]
      /\ redisMembers' = [redisMembers EXCEPT ![v] = @ \cup {UserOf[o]}]
      /\ \/ Moves(o, "validated", "reserved")
         \/ Fault("redis") /\ Moves(o, "validated", "failed")
      /\ UNCHANGED <<sale, mq, userLock, worker, cancel, rowLock, ledger>>

\* Codes 1, 2 and 3 of the script.
Refuse(o) ==
  /\ ~Admissible(o)
  /\ Moves(o, "validated", "refused")
  /\ UNCHANGED <<sale, redisVars, mq, userLock, worker, cancel, rowLock, ledger>>

Send(o) ==
  /\ Moves(o, "reserved", "acked")
  /\ mq' = mq \cup {o}
  /\ UNCHANGED <<sale, redisVars, userLock, worker, cancel, rowLock, ledger>>

\* The send throws: the broker never got the message, or only the answer was lost.
SendThrows(o) ==
  /\ Fault("send")
  /\ Moves(o, "reserved", "rollback")
  /\ mq' \in {mq, mq \cup {o}}
  /\ UNCHANGED <<sale, redisVars, userLock, worker, cancel, rowLock, ledger>>

\* Mutant: the script without its sismember test.
RollbackScriptUnconditional(o) ==
  LET v == VoucherOf[o]
  IN  /\ redisMembers' = [redisMembers EXCEPT ![v] = @ \ {UserOf[o]}]
      /\ redisStock' = [redisStock EXCEPT ![v] = @ + 1]

\* seckill-rollback.lua: gives the unit back if the user is still a member.
RollbackScript(o) ==
  LET v == VoucherOf[o]
  IN  IF UserOf[o] \in redisMembers[v]
      THEN /\ redisMembers' = [redisMembers EXCEPT ![v] = @ \ {UserOf[o]}]
           /\ redisStock' = [redisStock EXCEPT ![v] = @ + 1]
      ELSE UNCHANGED redisVars

RollbackSeckillReservation(o) ==
  /\ Moves(o, "rollback", "failed")
  /\ \/ RollbackScript(o)
     \/ Fault("redis") /\ UNCHANGED redisVars     \* the exception is swallowed
  /\ UNCHANGED <<sale, mq, userLock, worker, cancel, rowLock, ledger>>

CrashRequest(o) ==
  /\ Fault("crash")
  /\ \/ Moves(o, "reserved", "crashed") /\ mq' \in {mq, mq \cup {o}}
     \/ Moves(o, "rollback", "crashed") /\ UNCHANGED mq
  /\ UNCHANGED <<sale, redisVars, userLock, worker, cancel, rowLock, ledger>>

LoseMessage(o) ==
  /\ Fault("loss")
  /\ o \in mq
  /\ mq' = mq \ {o}
  /\ UNCHANGED <<sale, redisVars, request, userLock, worker, cancel, rowLock, ledger>>

-----------------------------------------------------------------------------
(* The consumer: handleVoucherOrder around createVoucherOrder, one         *)
(* transaction, the user's lock released before the commit.                *)

At(t, step, write) ==
  worker' = [worker EXCEPT ![t].at = step, ![t].write = write]

Unlocked(tx) ==
  [v \in Vouchers |-> IF rowLock[v] = tx THEN Nobody ELSE rowLock[v]]

\* tryLock does not wait: the message of a user whose lock is busy is acknowledged.
Deliver(t, o) ==
  LET u == UserOf[o]
  IN  /\ worker[t].at = "idle" /\ o \in mq
      /\ IF userLock[u] = Nobody
         THEN /\ userLock' = [userLock EXCEPT ![u] = t]
              /\ worker' = [worker EXCEPT ![t] = [at |-> "locked", id |-> o, write |-> FALSE]]
         ELSE /\ worker' = [worker EXCEPT ![t] = [at |-> "acking", id |-> o, write |-> FALSE]]
              /\ UNCHANGED userLock
      /\ UNCHANGED <<sale, redisVars, request, mq, cancel, rowLock, ledger>>

\* Any order row of this user and voucher counts, a canceled one too.
Bought(o) ==
  \E p \in OrderIds : SameBuyer(o, p) /\ order[p] # "none"

\* count > 0 returns, and finally unlocks.
Counted(t, found) ==
  /\ worker[t].at = "locked"
  /\ At(t, IF found THEN "leaving" ELSE "counted", FALSE)
  /\ UNCHANGED <<sale, redisVars, request, mq, userLock, cancel, rowLock, ledger>>

CountOrders(t) == Counted(t, Bought(worker[t].id))

\* The update waits for the row, reads its committed value and keeps it locked.
UpdateStock(t, enough) ==
  LET v == VoucherOf[worker[t].id]
  IN  /\ worker[t].at = "counted"
      /\ rowLock[v] = Nobody
      /\ rowLock' = [rowLock EXCEPT ![v] = t]
      /\ At(t, IF enough THEN "stocked" ELSE "leaving", FALSE)
      /\ UNCHANGED <<sale, redisVars, request, mq, userLock, cancel, ledger>>

\* Mutant: the update without gt("stock", 0).
TakeStockUnchecked(t) == UpdateStock(t, TRUE)

TakeStock(t) == UpdateStock(t, stock[VoucherOf[worker[t].id]] > 0)

\* Mutants: a schema without the unique key; a unique key on the voucher alone.
DuplicateId(o) == order[o] # "none"
DuplicateVoucher(o) ==
  \E p \in OrderIds : VoucherOf[p] = VoucherOf[o] /\ order[p] # "none"

\* The insert checks the primary key and, where the schema has it, the unique key.
Duplicate(o) == order[o] # "none" \/ (UniqueKey /\ Bought(o))

SaveOrder(t) ==
  /\ worker[t].at = "stocked"
  /\ ~Duplicate(worker[t].id)
  /\ At(t, "leaving", TRUE)
  /\ UNCHANGED <<sale, redisVars, request, mq, userLock, cancel, rowLock, ledger>>

\* finally { lock.unlock() }, before the transaction commits.
Unlock(t) ==
  LET u == UserOf[worker[t].id]
  IN  /\ worker[t].at = "leaving"
      /\ userLock[u] = t
      /\ userLock' = [userLock EXCEPT ![u] = Nobody]
      /\ At(t, "committing", worker[t].write)
      /\ UNCHANGED <<sale, redisVars, request, mq, cancel, rowLock, ledger>>

CommitOrder(t) ==
  LET o == worker[t].id
  IN  /\ worker[t].at = "committing"
      /\ IF worker[t].write
         THEN /\ stock' = [stock EXCEPT ![VoucherOf[o]] = @ - 1]
              /\ order' = [order EXCEPT ![o] = "unpaid"]
         ELSE UNCHANGED ledger
      /\ rowLock' = Unlocked(t)
      /\ At(t, "acking", FALSE)
      /\ UNCHANGED <<sale, redisVars, request, mq, userLock, cancel>>

Ack(t) ==
  /\ worker[t].at = "acking"
  /\ mq' = mq \ {worker[t].id}
  /\ worker' = [worker EXCEPT ![t] = Idle]
  /\ UNCHANGED <<sale, redisVars, request, userLock, cancel, rowLock, ledger>>

\* Statements that throw: the duplicate key, unlock() on a lease that has lapsed or
\* a Redis that does not answer, and, with "db", any of them, lock waits included.
Throws(t) ==
  LET o == worker[t].id
  IN  \/ worker[t].at = "stocked" /\ Duplicate(o)
      \/ worker[t].at = "leaving" /\ (userLock[UserOf[o]] # t \/ Fault("redis"))
      \/ worker[t].at \notin {"idle", "acking"} /\ Fault("db")

\* The exception passes the finally block, rolls the transaction back and leaves
\* the message in the broker for redelivery.
FailOrder(t) ==
  LET u == UserOf[worker[t].id]
  IN  /\ Throws(t)
      /\ \/ userLock' = [userLock EXCEPT ![u] = IF @ = t THEN Nobody ELSE @]
         \/ Fault("redis") /\ UNCHANGED userLock
      /\ rowLock' = Unlocked(t)
      /\ worker' = [worker EXCEPT ![t] = Idle]
      /\ UNCHANGED <<sale, redisVars, request, mq, cancel, ledger>>

\* MySQL rolls back; the Redisson lock stays until its lease ends.  So it does when
\* tryLock took the lock and its answer was lost.
CrashWorker(t) ==
  /\ \/ Fault("crash") /\ worker[t].at # "idle"
     \/ Fault("redis") /\ worker[t].at = "locked"
  /\ rowLock' = Unlocked(t)
  /\ worker' = [worker EXCEPT ![t] = Idle]
  /\ UNCHANGED <<sale, redisVars, request, mq, userLock, cancel, ledger>>

InHandler(t, u) ==
  /\ worker[t].at \in {"locked", "counted", "stocked", "leaving"}
  /\ UserOf[worker[t].id] = u

LeaseEnds(u) ==
  /\ userLock[u] # Nobody
  /\ InHandler(userLock[u], u) => Fault("pause")
  /\ userLock' = [userLock EXCEPT ![u] = Nobody]
  /\ UNCHANGED <<sale, redisVars, request, mq, worker, cancel, rowLock, ledger>>

-----------------------------------------------------------------------------
(* Payment and cancellation.  While a cancel transaction is not idle it    *)
(* holds the order's row.                                                  *)

SetPaid(o) ==
  /\ cancel[o] = "idle"
  /\ order' = [order EXCEPT ![o] = "paid"]
  /\ UNCHANGED <<sale, redisVars, request, mq, userLock, worker, cancel, rowLock, stock>>

\* Mutant: the update without eq("status", STATUS_UNPAID).
PayOrderUnchecked(o) == order[o] # "none" /\ SetPaid(o)

PayOrder(o) == order[o] = "unpaid" /\ SetPaid(o)

SetCanceled(o) ==
  /\ cancel[o] = "idle"
  /\ cancel' = [cancel EXCEPT ![o] = "marked"]
  /\ UNCHANGED <<sale, redisVars, request, mq, userLock, worker, rowLock, ledger>>

\* Mutants: the update without eq("status", STATUS_UNPAID); orders that are only
\* canceled while the sale is open.
MarkCanceledUnchecked(o) == order[o] # "none" /\ SetCanceled(o)
MarkCanceledWhileOpen(o) ==
  order[o] = "unpaid" /\ sale[VoucherOf[o]] = "open" /\ SetCanceled(o)

\* cancelOrder and cancelTimeoutOrder: the conditional update of the status.
MarkCanceled(o) == order[o] = "unpaid" /\ SetCanceled(o)

RestoreMySqlStock(o) ==
  LET v == VoucherOf[o]
  IN  /\ cancel[o] = "marked"
      /\ rowLock[v] = Nobody
      /\ rowLock' = [rowLock EXCEPT ![v] = o]
      /\ cancel' = [cancel EXCEPT ![o] = "restocked"]
      /\ UNCHANGED <<sale, redisVars, request, mq, userLock, worker, ledger>>

RunRollback(o, from) ==
  /\ cancel[o] \in from
  /\ RollbackScript(o)
  /\ cancel' = [cancel EXCEPT ![o] = "restored"]
  /\ UNCHANGED <<sale, request, mq, userLock, worker, rowLock, ledger>>

\* Mutant: Redis may be restored before the stock column is updated and its row locked.
RestoreRedisFirst(o) == RunRollback(o, {"marked", "restocked"})

RestoreRedis(o) == RunRollback(o, {"restocked"})

EndCancel(o) ==
  /\ cancel' = [cancel EXCEPT ![o] = "idle"]
  /\ rowLock' = Unlocked(o)
  /\ UNCHANGED <<sale, request, mq, userLock, worker>>

\* Mutant: the cancel gives the unit back in Redis only.
CommitCancelUnstocked(o) ==
  /\ cancel[o] = "restored"
  /\ order' = [order EXCEPT ![o] = "canceled"]
  /\ EndCancel(o)
  /\ UNCHANGED <<redisVars, stock>>

CommitCancel(o) ==
  /\ cancel[o] = "restored"
  /\ order' = [order EXCEPT ![o] = "canceled"]
  /\ stock' = [stock EXCEPT ![VoucherOf[o]] = @ + 1]
  /\ EndCancel(o)
  /\ UNCHANGED redisVars

\* The call throws, having run or not, and the transaction rolls back.
RestoreRedisThrows(o) ==
  /\ Fault("redis")
  /\ cancel[o] = "restocked"
  /\ RollbackScript(o) \/ UNCHANGED redisVars
  /\ EndCancel(o)
  /\ UNCHANGED ledger

\* A consumer that holds the voucher's row inserts the order's id again: InnoDB ends
\* the deadlock by rolling one of the two back.
Deadlocked(o) ==
  /\ cancel[o] = "marked"
  /\ \E t \in Threads : worker[t].at = "stocked" /\ worker[t].id = o

\* The victim of a deadlock, a lock wait that times out, a failed commit, a crash.
AbortCancel(o) ==
  /\ cancel[o] # "idle"
  /\ Deadlocked(o) \/ Fault("db") \/ Fault("crash")
  /\ EndCancel(o)
  /\ UNCHANGED <<redisVars, ledger>>

-----------------------------------------------------------------------------

RequestStep(o) == \/ ValidateSeckillVoucher(o) \/ Reserve(o) \/ Refuse(o) \/ Send(o) \/ SendThrows(o)
                  \/ RollbackSeckillReservation(o) \/ CrashRequest(o) \/ LoseMessage(o)

WorkerStep(t) == \/ \E o \in OrderIds : Deliver(t, o)
                 \/ CountOrders(t) \/ TakeStock(t) \/ SaveOrder(t) \/ Unlock(t)
                 \/ CommitOrder(t) \/ Ack(t) \/ FailOrder(t) \/ CrashWorker(t)

OrderStep(o) == \/ PayOrder(o) \/ MarkCanceled(o) \/ RestoreMySqlStock(o)
                \/ RestoreRedis(o) \/ RestoreRedisThrows(o) \/ CommitCancel(o)
                \/ AbortCancel(o)


\* Every request is answered, every message consumed, every order settled.
Finished ==
  /\ \A v \in Vouchers : sale[v] = "ended"
  /\ \A o \in OrderIds : /\ request[o] \in {"acked", "failed", "refused", "crashed"}
                         /\ order[o] # "unpaid"
  /\ mq = {}
  /\ \A t \in Threads : worker[t].at = "idle"
  /\ \A u \in Users : userLock[u] = Nobody

Terminating == Finished /\ UNCHANGED vars

Next ==
  \/ \E v \in Vouchers : AddSeckillVoucher(v) \/ CommitSeckillVoucher(v) \/ TimePasses(v)
  \/ \E o \in OrderIds : RequestStep(o) \/ OrderStep(o)
  \/ \E t \in Threads : WorkerStep(t)
  \/ \E u \in Users : LeaseEnds(u)
  \/ Terminating

Spec == Init /\ [][Next]_vars

(***************************************************************************)
(* What the code schedules: a started request runs on, the broker keeps    *)
(* offering a message, a consumer thread runs its handler, the timeout     *)
(* task cancels what stays unpaid, and a cancel transaction runs on.       *)
(* Nobody is bound to pay or to send a first request.                      *)
(***************************************************************************)
Fairness ==
  /\ \A o \in OrderIds :
       /\ WF_vars(Reserve(o) \/ Refuse(o) \/ Send(o) \/ RollbackSeckillReservation(o))
       /\ WF_vars(\E t \in Threads : Deliver(t, o))
       /\ WF_vars(MarkCanceled(o))
       /\ WF_vars(RestoreMySqlStock(o))
       /\ WF_vars(RestoreRedis(o) \/ CommitCancel(o))
  /\ \A t \in Threads :
       /\ WF_vars(CountOrders(t) \/ SaveOrder(t) \/ Unlock(t) \/ CommitOrder(t)
                    \/ Ack(t) \/ FailOrder(t))
       /\ WF_vars(TakeStock(t))
  /\ \A u \in Users : WF_vars(LeaseEnds(u))

FairSpec == Spec /\ Fairness

-----------------------------------------------------------------------------

(***************************************************************************)
(* The Redis stock and the one-order set move together: every unit missing *)
(* from seckill:stock is held by a member of seckill:order, however often  *)
(* rollbacks are repeated (seckill.lua, seckill-rollback.lua).             *)
(***************************************************************************)
RedisConserved ==
  \A v \in Vouchers :
    redisStock[v] # NoKey =>
      redisStock[v] >= 0 /\ redisStock[v] + Cardinality(redisMembers[v]) = InitStock[v]

(***************************************************************************)
(* Redis never has more to sell than MySQL, except for units a cancel has  *)
(* given back in Redis and is about to commit in MySQL (the order of the   *)
(* two updates in restoreReservedStock).  Holds while calls are answered.  *)
(***************************************************************************)
RedisWithinMySql ==
  \A v \in Vouchers :
    redisStock[v] # NoKey =>
      redisStock[v] <= stock[v] +
        Cardinality({o \in OrderIds : VoucherOf[o] = v /\ cancel[o] = "restored"})

Handling(t, o) ==
  worker[t].at \notin {"idle", "acking"} /\ SameBuyer(o, worker[t].id)

(***************************************************************************)
(* A message is only acknowledged without an order row of its user and     *)
(* voucher while another thread is still at work on it: an admitted user is*)
(* never turned away for lack of stock, although Redis is restored before  *)
(* a cancel commits.                                                       *)
(***************************************************************************)
AdmissionHonoured ==
  \A o \in OrderIds :
    request[o] = "acked" /\ o \notin mq =>
      Bought(o) \/ \E t \in Threads : Handling(t, o)

(***************************************************************************)
(* The order a buyer was promised (ok(orderId)) is there once its message  *)
(* is consumed, which is what shop-detail.html waits for.                  *)
(***************************************************************************)
PromisedOrderLands ==
  \A o \in OrderIds :
    request[o] = "acked" /\ o \notin mq =>
      order[o] # "none" \/ \E t \in Threads : Handling(t, o)

(***************************************************************************)
(* Every message is consumed in the end: no lock, row lock or failing      *)
(* delivery keeps it in the broker for ever.  Requests being finitely many,*)
(* there comes a time without a message, and one always comes again.       *)
(***************************************************************************)
MessagesDrain == []<>(mq = {})

(***************************************************************************)
(* Every unpaid order is paid or canceled in the end, which needs the      *)
(* timeout task, the rows its transaction waits for and another cancel     *)
(* after one that was rolled back.                                         *)
(***************************************************************************)
OrdersSettle == []<>(\A o \in OrderIds : order[o] # "unpaid")
=============================================================================
