--------------------------- MODULE RedisReconcile ---------------------------
(***************************************************************************)
(* RedisDataReconcileTask beside the order flow: runs on several instances *)
(* (at startup and then periodically) that take a lock with a TTL, give    *)
(* back reservations without an order row, and write MySQL's stock over    *)
(* Redis's while a sale is open.                                           *)
(*                                                                         *)
(* The actions of SeckillOrder go on unchanged between the steps of a run; *)
(* a run makes one call to Redis or MySQL a step.  The shop type list and  *)
(* the GEO sets a run rebuilds first are other data: here they are the     *)
(* time between StartRun and ListVouchers.                                 *)
(***************************************************************************)
EXTENDS SeckillOrder

CONSTANTS
  Runners,         \* threads that run the task, on all instances
  RunFaults        \* what may go wrong in a run, a subset of RunFaultKinds

RunFaultKinds ==
  {"throw",        \* a Redis or MySQL call of the run throws
   "die",          \* the process dies in a run
   "slow"}         \* a run takes longer than RECONCILE_LOCK_TTL_SECONDS

ASSUME RunnersAssumption == Nobody \notin Runners \cup Users \cup Vouchers

ASSUME RunFaultsAssumption == RunFaults \subseteq RunFaultKinds

VARIABLES
  run,             \* what a runner is doing
  reconcileLock    \* lock:merchantflow:redis-reconcile, the runner that set it

task == <<run, reconcileLock>>
reconcileVars == <<vars, run, reconcileLock>>

RunFault(f) == f \in RunFaults

RunSteps == {"idle", "listing", "next", "repairing", "orphan", "returning",
             "writing", "unlocking"}

\* Vouchers still to do, the stock column as listed (NoKey where the sale is not
\* open), and the voucher, members and orphan at hand.
Run == [at : RunSteps, todo : SUBSET Vouchers, listed : [Vouchers -> Nat \cup {NoKey}],
        voucher : Vouchers \cup {Nobody}, members : SUBSET Users, user : Users \cup {Nobody}]

NoRun == [at |-> "idle", todo |-> {}, listed |-> [v \in Vouchers |-> NoKey],
          voucher |-> Nobody, members |-> {}, user |-> Nobody]

ReconcileInit ==
  /\ Init
  /\ run = [r \in Runners |-> NoRun]
  /\ reconcileLock = Nobody

Running(r) == run[r].at # "idle"

-----------------------------------------------------------------------------

\* Mutant: the answer of setIfAbsent is not looked at.
StartRunUnlocked(r) ==
  /\ ~Running(r)
  /\ reconcileLock' = r
  /\ run' = [run EXCEPT ![r].at = "listing"]
  /\ UNCHANGED vars

\* setIfAbsent with the TTL; a runner that finds the key there returns.
StartRun(r) == reconcileLock = Nobody /\ StartRunUnlocked(r)

\* The clock is read and the vouchers are listed, with their stock, once for the run.
List(r, todo) ==
  /\ run[r].at = "listing"
  /\ run' = [run EXCEPT ![r] = [run[r] EXCEPT
               !.at = "next",
               !.todo = todo,
               !.listed = [v \in Vouchers |-> IF sale[v] = "open" THEN stock[v] ELSE NoKey]]]
  /\ UNCHANGED <<vars, reconcileLock>>

\* Mutant: vouchers that are not on sale are skipped before the repair.
ListOpen(r) == List(r, {v \in Vouchers : sale[v] = "open"})

ListVouchers(r) == List(r, {v \in Vouchers : sale[v] # "absent"})

ReadMembers(r, v) ==
  /\ run[r].at = "next" /\ v \in run[r].todo
  /\ run' = [run EXCEPT ![r] = [run[r] EXCEPT
               !.at = "repairing",
               !.todo = run[r].todo \ {v},
               !.voucher = v,
               !.members = redisMembers[v]]]
  /\ UNCHANGED <<vars, reconcileLock>>

HasOrder(u, v) ==
  \E o \in OrderIds : UserOf[o] = u /\ VoucherOf[o] = v /\ order[o] # "none"

Count(r, u, found) ==
  /\ run[r].at = "repairing" /\ u \in run[r].members
  /\ run' = IF found
            THEN [run EXCEPT ![r].members = @ \ {u}]
            ELSE [run EXCEPT ![r] = [run[r] EXCEPT
                    !.at = "orphan",
                    !.members = run[r].members \ {u},
                    !.user = u]]
  /\ UNCHANGED <<vars, reconcileLock>>

\* Mutant: only unpaid orders count.
CountUnpaid(r, u) ==
  Count(r, u, \E o \in OrderIds : /\ UserOf[o] = u /\ VoucherOf[o] = run[r].voucher
                                 /\ order[o] = "unpaid")

\* Any order row of the member counts, whatever its status.
CountMember(r, u) == Count(r, u, HasOrder(u, run[r].voucher))

\* Redis commands of a run leave everything else of the flow alone.
OnRedis == UNCHANGED <<sale, request, mq, userLock, worker, cancel, rowLock, ledger,
                       reconcileLock>>

RemoveOrphan(r) ==
  /\ run[r].at = "orphan"
  /\ redisMembers' = [redisMembers EXCEPT ![run[r].voucher] = @ \ {run[r].user}]
  /\ run' = [run EXCEPT ![r].at = "returning"]
  /\ OnRedis /\ UNCHANGED redisStock

\* INCR, which takes a missing key for 0, whether or not SREM found the member.
ReturnUnit(r) ==
  /\ run[r].at = "returning"
  /\ redisStock' = [redisStock EXCEPT ![run[r].voucher] = IF @ = NoKey THEN 1 ELSE @ + 1]
  /\ run' = [run EXCEPT ![r] = [run[r] EXCEPT !.at = "repairing", !.user = Nobody]]
  /\ OnRedis /\ UNCHANGED redisMembers

Compare(r, write) ==
  /\ run[r].at = "repairing" /\ run[r].members = {}
  /\ run' = [run EXCEPT ![r].at = IF write THEN "writing" ELSE "next"]
  /\ UNCHANGED <<vars, reconcileLock>>

\* Mutant: the stock is only written where Redis has none.
CompareMissing(r) ==
  Compare(r, run[r].listed[run[r].voucher] # NoKey /\ redisStock[run[r].voucher] = NoKey)

CompareStock(r) ==
  Compare(r, run[r].listed[run[r].voucher] \notin {NoKey, redisStock[run[r].voucher]})

WriteStock(r) ==
  LET v == run[r].voucher
  IN  /\ run[r].at = "writing"
      /\ redisStock' = [redisStock EXCEPT ![v] = run[r].listed[v]]
      /\ run' = [run EXCEPT ![r].at = "next"]
      /\ OnRedis /\ UNCHANGED redisMembers

FailRun(r) ==
  /\ RunFault("throw")
  /\ run[r].at \notin {"idle", "unlocking"}
  /\ run' = [run EXCEPT ![r].at = "unlocking"]
  /\ UNCHANGED <<vars, reconcileLock>>

Over(r) == run[r].at = "unlocking" \/ (run[r].at = "next" /\ run[r].todo = {})

\* finally { delete }, without a look at the token.
EndRun(r) ==
  /\ Over(r)
  /\ \/ reconcileLock' = Nobody
     \/ RunFault("throw") /\ UNCHANGED reconcileLock
  /\ run' = [run EXCEPT ![r] = NoRun]
  /\ UNCHANGED vars

CrashRun(r) ==
  /\ RunFault("die")
  /\ Running(r)
  /\ run' = [run EXCEPT ![r] = NoRun]
  /\ UNCHANGED <<vars, reconcileLock>>

LockExpires ==
  /\ reconcileLock # Nobody
  /\ Running(reconcileLock) => RunFault("slow")
  /\ reconcileLock' = Nobody
  /\ UNCHANGED <<vars, run>>

RunStep(r) ==
  \/ ListVouchers(r) \/ RemoveOrphan(r) \/ ReturnUnit(r) \/ CompareStock(r)
  \/ WriteStock(r) \/ EndRun(r)
  \/ \E v \in Vouchers : ReadMembers(r, v)
  \/ \E u \in Users : CountMember(r, u)

ReconcileNext ==
  \/ Next /\ UNCHANGED task
  \/ \E r \in Runners : StartRun(r) \/ RunStep(r) \/ FailRun(r) \/ CrashRun(r)
  \/ LockExpires

ReconcileSpec == ReconcileInit /\ [][ReconcileNext]_reconcileVars

(***************************************************************************)
(* @Scheduled starts a run again and again on some instance, a run goes    *)
(* on, and a key with a TTL expires.                                       *)
(***************************************************************************)
ReconcileFairness ==
  /\ Fairness
  /\ WF_reconcileVars(\E r \in Runners : StartRun(r))
  /\ \A r \in Runners : WF_reconcileVars(RunStep(r))
  /\ WF_reconcileVars(LockExpires)

ReconcileFairSpec == ReconcileSpec /\ ReconcileFairness

-----------------------------------------------------------------------------

\* Whoever runs holds the lock, hence nobody else runs.
SoleRunner == \A r \in Runners : Running(r) => reconcileLock = r

(***************************************************************************)
(* Runs come to overlap in one way only: the lock's TTL ends under a run   *)
(* that goes on (the distributed lock of reconcile).  Neither failing and  *)
(* dying runs nor a finally block that compares no token do it.            *)
(***************************************************************************)
OnlyLapsesOverlap ==
  [][SoleRunner => SoleRunner' \/ (LockExpires /\ Running(reconcileLock))]_reconcileVars

(***************************************************************************)
(* Only a reservation without an order row is given back                   *)
(* (repairOrphanReservations): when a run takes a member out of the set,   *)
(* the member has no order of that voucher.                                *)
(***************************************************************************)
OnlyOrphansReturned ==
  [][\A r \in Runners : RemoveOrphan(r) => ~HasOrder(run[r].user, run[r].voucher)]_reconcileVars

(***************************************************************************)
(* A reservation whose request failed without rolling it back does not     *)
(* stay: the task is the last resort rollbackSeckillReservation names.     *)
(***************************************************************************)
OrphansRepaired ==
  \A o \in OrderIds :
    (request[o] \in {"failed", "crashed"} /\ UserOf[o] \in redisMembers[VoucherOf[o]])
      ~> (Bought(o) \/ UserOf[o] \notin redisMembers[VoucherOf[o]])

(***************************************************************************)
(* While a sale stays open, Redis and MySQL come back to the same stock    *)
(* once the requests have stopped, whatever runs and rollbacks did before  *)
(* (reconcileSeckillState).                                                *)
(***************************************************************************)
StocksConverge ==
  \A v \in Vouchers : <>[](sale[v] = "open") => <>[](redisStock[v] = stock[v])

\* No request, message or transaction of v still has a stock to write to.
FlowRests(v) ==
  /\ \A o \in OrderIds : VoucherOf[o] = v =>
       /\ request[o] \notin {"reserved", "rollback"} /\ cancel[o] = "idle"
       /\ o \in mq => Bought(o)
  /\ \A t \in Threads : worker[t].at # "idle" /\ VoucherOf[worker[t].id] = v =>
       /\ worker[t].at \notin {"counted", "stocked"} /\ ~worker[t].write
       /\ worker[t].at = "locked" => Bought(worker[t].id)

\* Nor has a run: what it listed is still so, and the members it read have orders.
RunsRest(v) ==
  \A r \in Runners :
    /\ run[r].listed[v] \in {NoKey, stock[v]}
    /\ run[r].voucher = v =>
         /\ run[r].at \notin {"orphan", "returning"}
         /\ run[r].at = "repairing" => \A u \in run[r].members : HasOrder(u, v)

InStep(v) ==
  /\ redisStock[v] = stock[v]
  /\ \A u \in redisMembers[v] : HasOrder(u, v)
  /\ FlowRests(v) /\ RunsRest(v)

(***************************************************************************)
(* ... and do not part by themselves: stocks in step go apart only when    *)
(* an order is reserved or canceled.  Redeliveries, payments, crashes and  *)
(* the task, its runs from older lists included, keep them.                *)
(***************************************************************************)
OnlyOrdersPartStocks ==
  [][\A v \in Vouchers : InStep(v) =>
       InStep(v)' \/ \E o \in OrderIds :
         VoucherOf[o] = v /\ (Reserve(o) \/ MarkCanceled(o))]_reconcileVars
=============================================================================
