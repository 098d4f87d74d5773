------------------------- MODULE SeckillClaimProofs -------------------------
(***************************************************************************)
(* What the one-order set in Redis is worth: proofs about the reservations *)
(* of the seckill flow, for any number of users, vouchers, requests and    *)
(* consumer threads.                                                       *)
(*                                                                         *)
(* The inductive invariant follows a reservation through its life.  An     *)
(* order id claims a unit from the reserving script to the script that     *)
(* gives the unit back; while it does its user is a member of the          *)
(* one-order set, and no second id of the same user and voucher can claim. *)
(* Counting claims against members then relates Redis to MySQL.            *)
(***************************************************************************)
EXTENDS SeckillOrderProofs

\* Faults under which a reservation is never forgotten or given back twice.
Calm == Faults \subseteq {"loss", "pause"}

\* A thread in the handler of the message, the commit of its transaction included.
Busy(t, o) == worker[t].id = o /\ worker[t].at \notin {"idle", "acking"}

Claims(o) ==
  \/ request[o] = "reserved"
  \/ order[o] = "none" /\ (o \in mq \/ \E t \in Threads : Busy(t, o))
  \/ order[o] \in {"unpaid", "paid"} /\ cancel[o] # "restored"

\* Before its message is sent, nothing but Redis knows of an id.
FreshInv ==
  \A o \in OrderIds :
    /\ request[o] # "rollback"
    /\ request[o] \in {"new", "validated", "reserved"} =>
         order[o] = "none" /\ o \notin mq /\ \A t \in Threads : worker[t].id # o

MemberInv == \A o \in OrderIds : Claims(o) => UserOf[o] \in redisMembers[VoucherOf[o]]

SingleInv ==
  \A o, p \in OrderIds : Claims(o) /\ Claims(p) /\ SameBuyer(o, p) => o = p

ClaimInv == FreshInv /\ MemberInv /\ SingleInv

\* Without pauses the user's lock is held by the thread in its handler and by no other.
LockInv ==
  \A u \in Users :
    /\ \A t \in Threads : InHandler(t, u) => userLock[u] = t
    /\ userLock[u] # Nobody => InHandler(userLock[u], u)

Served(o) == Bought(o) \/ \E t \in Threads : Handling(t, o)

\* A message is dropped for an order that exists or that somebody is at work on.
ServedInv ==
  /\ \A t \in Threads :
       /\ worker[t].at = "acking" => Served(worker[t].id)
       /\ worker[t].at \in {"leaving", "committing"} /\ ~worker[t].write =>
            Bought(worker[t].id)
  /\ AdmissionHonoured
-----------------------------------------------------------------------------
(* Claims.                                                                 *)

\* The part of a claim that is not in Redis; a step that leaves it alone keeps claims.
claimVars == <<request, mq, worker, cancel, order>>

LEMMA ClaimFrame ==
  ASSUME ClaimInv, UNCHANGED claimVars, UNCHANGED redisMembers
  PROVE  ClaimInv'
  BY DEF ClaimInv, FreshInv, MemberInv, SingleInv, Claims, Busy, claimVars, SameBuyer

\* A step that makes no claim and removes no member keeps what claims are worth.
LEMMA NoNewClaims ==
  ASSUME MemberInv, SingleInv, UNCHANGED redisMembers,
         \A o \in OrderIds : Claims(o)' => Claims(o)
  PROVE  MemberInv' /\ SingleInv'
  BY DEF MemberInv, SingleInv, SameBuyer

LEMMA RequestClaims ==
  ASSUME Calm, IInv, ClaimInv, NEW o \in OrderIds, RequestStep(o)
  PROVE  ClaimInv'
<1> USE DEF IInv
<1>0. /\ UNCHANGED <<worker, cancel, order>>
      /\ \A p \in OrderIds : p # o => request'[p] = request[p]
      /\ request[o] \in RequestSteps
  BY DEF RequestStep, Moves, ValidateSeckillVoucher, Reserve, Refuse, Send, SendThrows,
         RollbackSeckillReservation, CrashRequest, LoseMessage, ledger, TypeOK
<1>1. CASE ValidateSeckillVoucher(o) \/ Refuse(o)
  <2>1. /\ UNCHANGED <<mq, redisMembers>> /\ request[o] \in {"new", "validated"}
        /\ request'[o] \in {"validated", "refused"}
    BY <1>1 DEF ValidateSeckillVoucher, Refuse, Moves, TypeOK, redisVars
  <2>2. FreshInv'
    BY <1>0, <2>1 DEF ClaimInv, FreshInv
  <2>3. \A p \in OrderIds : Claims(p)' => Claims(p)
    BY <1>0, <2>1 DEF Claims, Busy
  <2> QED BY <2>1, <2>2, <2>3, NoNewClaims DEF ClaimInv
<1>2. CASE Reserve(o)
  <2> DEFINE v == VoucherOf[o]
  <2>1. /\ request[o] = "validated" /\ request'[o] = "reserved" /\ UNCHANGED mq
        /\ UserOf[o] \notin redisMembers[v]
        /\ redisMembers' = [redisMembers EXCEPT ![v] = redisMembers[v] \cup {UserOf[o]}]
    BY <1>2 DEF Reserve, Moves, Admissible, TypeOK, Calm, Fault
  <2>2. FreshInv'
    BY <1>0, <2>1 DEF ClaimInv, FreshInv
  <2>3. \A p \in OrderIds : Claims(p)' /\ p # o => Claims(p)
    BY <1>0, <2>1 DEF Claims, Busy
  <2>4. v \in Vouchers /\ \A w \in Vouchers : redisMembers[w] \subseteq redisMembers'[w]
    BY <2>1, OrderTypes DEF TypeOK
  <2>5. UserOf[o] \in redisMembers'[v]
    BY <2>1, <2>4 DEF TypeOK
  <2>6. MemberInv'
    BY <2>3, <2>4, <2>5, OrderTypes DEF MemberInv, ClaimInv
  <2>7. \A p \in OrderIds : SameBuyer(o, p) => ~Claims(p)
    BY <2>1 DEF ClaimInv, MemberInv, SameBuyer
  <2>8. SingleInv'
    BY <2>3, <2>7 DEF SingleInv, ClaimInv, SameBuyer
  <2> QED BY <2>2, <2>6, <2>8 DEF ClaimInv
<1>3. CASE Send(o)
  <2>1. /\ request[o] = "reserved" /\ request'[o] = "acked" /\ mq' = mq \cup {o}
        /\ UNCHANGED redisMembers
    BY <1>3 DEF Send, Moves, TypeOK, redisVars
  <2>2. FreshInv'
    BY <1>0, <2>1 DEF ClaimInv, FreshInv
  <2>3. \A p \in OrderIds : Claims(p)' => Claims(p)
    BY <1>0, <2>1 DEF Claims, Busy
  <2> QED BY <2>1, <2>2, <2>3, NoNewClaims DEF ClaimInv
<1>4. CASE LoseMessage(o)
  <2>1. UNCHANGED <<request, redisMembers>> /\ mq' = mq \ {o}
    BY <1>4 DEF LoseMessage, redisVars
  <2>2. FreshInv'
    BY <1>0, <2>1 DEF ClaimInv, FreshInv
  <2>3. \A p \in OrderIds : Claims(p)' => Claims(p)
    BY <1>0, <2>1 DEF Claims, Busy
  <2> QED BY <2>1, <2>2, <2>3, NoNewClaims DEF ClaimInv
<1>5. ~SendThrows(o) /\ ~CrashRequest(o)
  BY DEF SendThrows, CrashRequest, Calm, Fault
<1>6. ~RollbackSeckillReservation(o)
  BY DEF RollbackSeckillReservation, Moves, ClaimInv, FreshInv
<1> QED BY <1>1, <1>2, <1>3, <1>4, <1>5, <1>6 DEF RequestStep

\* A thread that goes on with its message, or puts it down, claims nothing new.
LEMMA MoveClaims ==
  ASSUME TypeOK, ClaimInv, NEW t \in Threads, UNCHANGED <<request, cancel, order, redisMembers>>,
         mq' \subseteq mq,
         \A x \in Threads : x # t => worker'[x] = worker[x],
         worker'[t].id \in {worker[t].id, Nobody},
         worker'[t].at \notin {"idle", "acking"} => worker[t].at \notin {"idle", "acking"}
  PROVE  ClaimInv'
<1>1. \A o \in OrderIds : o # Nobody
  BY HoldersAssumption
<1>2. \A o \in OrderIds, x \in Threads : Busy(x, o)' => Busy(x, o)
  BY <1>1 DEF Busy
<1>3. \A o \in OrderIds : Claims(o)' => Claims(o)
  BY <1>2 DEF Claims
<1>4. FreshInv'
  BY <1>1 DEF ClaimInv, FreshInv
<1> QED BY <1>3, <1>4, NoNewClaims DEF ClaimInv

LEMMA WorkerClaims ==
  ASSUME Calm, IInv, ClaimInv, NEW t \in Threads, WorkerStep(t)
  PROVE  ClaimInv'
<1> USE DEF IInv
<1>0. UNCHANGED <<request, cancel, redisMembers>>
  BY DEF WorkerStep, Deliver, CountOrders, TakeStock, SaveOrder, Unlock, CommitOrder, Ack,
         FailOrder, CrashWorker, Counted, UpdateStock, redisVars
<1>1. ASSUME NEW o \in OrderIds, Deliver(t, o)
      PROVE  ClaimInv'
  <2>1. PICK step \in {"locked", "acking"} :
          worker' = [worker EXCEPT ![t] = [at |-> step, id |-> o, write |-> FALSE]]
    BY <1>1 DEF Deliver
  <2>2. /\ worker'[t].id = o /\ o \in mq /\ UNCHANGED <<mq, order>>
        /\ \A x \in Threads : x # t => worker'[x] = worker[x]
    BY <1>1, <2>1 DEF Deliver, ledger, TypeOK
  <2>3. \A p \in OrderIds, x \in Threads : Busy(x, p)' => Busy(x, p) \/ p = o
    BY <2>2 DEF Busy
  <2>4. \A p \in OrderIds : Claims(p)' => Claims(p)
    BY <1>0, <2>2, <2>3 DEF Claims
  <2>5. FreshInv'
    BY <1>0, <2>2 DEF ClaimInv, FreshInv
  <2> QED BY <1>0, <2>4, <2>5, NoNewClaims DEF ClaimInv
<1>2. CASE CountOrders(t) \/ TakeStock(t) \/ SaveOrder(t) \/ Unlock(t)
  <2>1. PICK step \in WorkerSteps, write \in BOOLEAN : At(t, step, write)
    BY <1>2 DEF CountOrders, Counted, TakeStock, UpdateStock, SaveOrder, Unlock, WorkerSteps,
                TypeOK
  <2>2. worker[t].at \notin {"idle", "acking"} /\ UNCHANGED <<mq, order>>
    BY <1>2 DEF CountOrders, Counted, TakeStock, UpdateStock, SaveOrder, Unlock, ledger
  <2>3. /\ worker'[t].id = worker[t].id
        /\ \A x \in Threads : x # t => worker'[x] = worker[x]
    BY <2>1 DEF At, TypeOK
  <2> QED BY <1>0, <2>2, <2>3, MoveClaims
<1>3. CASE CommitOrder(t)
  <2> DEFINE o == worker[t].id
  <2>1. /\ worker'[t] = [at |-> "acking", id |-> o, write |-> FALSE]
        /\ \A x \in Threads : x # t => worker'[x] = worker[x]
        /\ o \in OrderIds /\ worker[t].at = "committing" /\ UNCHANGED mq
    BY <1>3, WorkerAt DEF CommitOrder, WorkerSteps, TypeOK
  <2>2. CASE ~worker[t].write
    <3>1. UNCHANGED order
      BY <1>3, <2>2 DEF CommitOrder, ledger
    <3> QED BY <1>0, <2>1, <3>1, MoveClaims
  <2>3. CASE worker[t].write
    <3>1. /\ order[o] = "none" /\ order'[o] = "unpaid"
          /\ \A p \in OrderIds : p # o => order'[p] = order[p]
      BY <1>3, <2>1, <2>3 DEF CommitOrder, RowInv, WriterInv, Duplicate, TypeOK, LedgerTypeOK
    <3>2. Busy(t, o)
      BY <2>1 DEF Busy
    <3>3. \A p \in OrderIds, x \in Threads : Busy(x, p)' => Busy(x, p)
      BY <2>1 DEF Busy
    <3>4. \A p \in OrderIds : Claims(p)' => Claims(p)
      BY <1>0, <2>1, <3>1, <3>2, <3>3 DEF Claims
    <3>5. FreshInv'
      BY <1>0, <2>1, <3>1 DEF ClaimInv, FreshInv
    <3> QED BY <1>0, <3>4, <3>5, NoNewClaims DEF ClaimInv
  <2> QED BY <2>2, <2>3
<1>4. CASE Ack(t) \/ FailOrder(t)
  <2>1. worker' = [worker EXCEPT ![t] = Idle] /\ mq' \subseteq mq /\ UNCHANGED order
    BY <1>4 DEF Ack, FailOrder, ledger
  <2>2. /\ worker'[t].id = Nobody /\ worker'[t].at = "idle"
        /\ \A x \in Threads : x # t => worker'[x] = worker[x]
    BY <2>1 DEF TypeOK, Idle
  <2> QED BY <1>0, <2>1, <2>2, MoveClaims
<1>5. ~CrashWorker(t)
  BY DEF CrashWorker, Calm, Fault
<1> QED BY <1>1, <1>2, <1>3, <1>4, <1>5 DEF WorkerStep

LEMMA OrderClaims ==
  ASSUME Calm, IInv, ClaimInv, NEW o \in OrderIds, OrderStep(o)
  PROVE  ClaimInv'
<1> USE DEF IInv
<1>0. UNCHANGED <<request, mq, worker>>
  BY DEF OrderStep, PayOrder, MarkCanceled, RestoreMySqlStock, RestoreRedis,
         RestoreRedisThrows, CommitCancel, AbortCancel, SetPaid, SetCanceled, RunRollback,
         EndCancel
<1>1. CASE ~RestoreRedis(o)
  <2>1. UNCHANGED redisMembers
    BY <1>1 DEF OrderStep, PayOrder, MarkCanceled, RestoreMySqlStock, RestoreRedisThrows,
                CommitCancel, AbortCancel, SetPaid, SetCanceled, EndCancel, Calm, Fault,
                redisVars
  <2>2. \A p \in OrderIds : p # o => order'[p] = order[p] /\ cancel'[p] = cancel[p]
    BY <1>1 DEF OrderStep, PayOrder, MarkCanceled, RestoreMySqlStock, RestoreRedisThrows,
                CommitCancel, AbortCancel, SetPaid, SetCanceled, EndCancel, TypeOK,
                LedgerTypeOK, ledger, Calm, Fault
  <2>3. order[o] # "none" /\ order'[o] # "none"
    BY <1>1 DEF OrderStep, PayOrder, MarkCanceled, RestoreMySqlStock, RestoreRedisThrows,
                CommitCancel, AbortCancel, SetPaid, SetCanceled, EndCancel, TypeOK,
                LedgerTypeOK, ledger, Calm, Fault, RowInv, CancelInv
  <2>4. order'[o] \in {"unpaid", "paid"} => order[o] \in {"unpaid", "paid"} /\ cancel[o] # "restored"
    BY <1>1 DEF OrderStep, PayOrder, MarkCanceled, RestoreMySqlStock, RestoreRedisThrows,
                CommitCancel, AbortCancel, SetPaid, SetCanceled, EndCancel, TypeOK,
                LedgerTypeOK, ledger, Calm, Fault, RowInv, CancelInv, Deadlocked
  <2>5. \A p \in OrderIds : Claims(p)' => Claims(p)
    BY <1>0, <2>2, <2>3, <2>4 DEF Claims, Busy
  <2>6. FreshInv'
    BY <1>0, <2>2, <2>3 DEF ClaimInv, FreshInv
  <2> QED BY <2>1, <2>5, <2>6, NoNewClaims DEF ClaimInv
<1>2. CASE RestoreRedis(o)
  <2> DEFINE v == VoucherOf[o]
  <2>1. /\ cancel[o] = "restocked" /\ RollbackScript(o) /\ UNCHANGED order
        /\ cancel' = [cancel EXCEPT ![o] = "restored"]
    BY <1>2 DEF RestoreRedis, RunRollback, ledger
  <2>2. order[o] = "unpaid" /\ request[o] \notin {"new", "validated", "reserved"}
    BY <2>1 DEF RowInv, CancelInv, ClaimInv, FreshInv
  <2>3. cancel'[o] = "restored" /\ \A p \in OrderIds : p # o => cancel'[p] = cancel[p]
    BY <2>1 DEF TypeOK
  <2>4. Claims(o) /\ ~Claims(o)'
    BY <1>0, <2>1, <2>2, <2>3 DEF Claims
  <2>5. \A p \in OrderIds : Claims(p)' => Claims(p) /\ p # o
    BY <1>0, <2>1, <2>3, <2>4 DEF Claims, Busy
  <2>6. /\ v \in Vouchers /\ redisMembers'[v] = redisMembers[v] \ {UserOf[o]}
        /\ \A w \in Vouchers : w # v => redisMembers'[w] = redisMembers[w]
    BY <2>1, OrderTypes DEF RollbackScript, TypeOK, redisVars
  <2>7. MemberInv'
    <3> SUFFICES ASSUME NEW p \in OrderIds, Claims(p)'
                 PROVE  UserOf[p] \in redisMembers'[VoucherOf[p]]
      BY DEF MemberInv
    <3>1. Claims(p) /\ ~SameBuyer(o, p) /\ UserOf[p] \in redisMembers[VoucherOf[p]]
      BY <2>4, <2>5 DEF ClaimInv, SingleInv, MemberInv
    <3> QED BY <2>6, <3>1, OrderTypes DEF SameBuyer
  <2>8. SingleInv'
    BY <2>5 DEF ClaimInv, SingleInv, SameBuyer
  <2>9. FreshInv'
    BY <1>0, <2>1 DEF ClaimInv, FreshInv
  <2> QED BY <2>7, <2>8, <2>9 DEF ClaimInv
<1> QED BY <1>1, <1>2

LEMMA ClaimStep ==
  ASSUME Calm, IInv, ClaimInv, [Next]_vars
  PROVE  ClaimInv'
<1>1. ASSUME NEW v \in Vouchers,
             AddSeckillVoucher(v) \/ CommitSeckillVoucher(v) \/ TimePasses(v)
      PROVE  ClaimInv'
  BY <1>1, ClaimFrame DEF AddSeckillVoucher, CommitSeckillVoucher, TimePasses, claimVars,
                          redisVars, ledger
<1>2. ASSUME NEW u \in Users, LeaseEnds(u)
      PROVE  ClaimInv'
  BY <1>2, ClaimFrame DEF LeaseEnds, claimVars, redisVars, ledger
<1>3. CASE UNCHANGED vars \/ Terminating
  BY <1>3, ClaimFrame DEF vars, Terminating, claimVars, ledger
<1> QED BY <1>1, <1>2, <1>3, RequestClaims, WorkerClaims, OrderClaims DEF Next

LEMMA InitClaims == Init => ClaimInv
<1> SUFFICES ASSUME Init
             PROVE  ClaimInv
  OBVIOUS
<1>1. \A o \in OrderIds : ~Claims(o)
  BY DEF Init, LedgerInit, Claims, Busy, Idle
<1>2. FreshInv
  BY HoldersAssumption DEF Init, LedgerInit, FreshInv, Idle
<1> QED BY <1>1, <1>2 DEF ClaimInv, MemberInv, SingleInv

THEOREM ClaimsHold == ASSUME Calm PROVE Spec => []ClaimInv
<1>1. IInv /\ ClaimInv /\ [Next]_vars => ClaimInv'
  BY ClaimStep
<1> QED BY Invariance, InitClaims, <1>1, PTL DEF Spec

-----------------------------------------------------------------------------
(* Counting.                                                               *)

\* Ids of one voucher that claim are no more than the members of its set.
LEMMA ClaimsCounted ==
  ASSUME IInv, ClaimInv, NEW v \in Vouchers, NEW S \in SUBSET OrderIds,
         \A o \in S : VoucherOf[o] = v /\ Claims(o)
  PROVE  IsFiniteSet(S) /\ Cardinality(S) <= Cardinality(redisMembers[v])
<1> DEFINE f == [o \in S |-> UserOf[o]]
<1>1. IsFiniteSet(redisMembers[v])
  BY MembersFinite DEF IInv
<1>2. f \in [S -> redisMembers[v]]
  BY DEF ClaimInv, MemberInv
<1>3. \A o, p \in S : f[o] = f[p] => o = p
  BY DEF ClaimInv, SingleInv, SameBuyer
<1>4. f \in Injection(S, redisMembers[v])
  BY <1>2, <1>3 DEF Injection, IsInjective
<1> QED BY <1>1, <1>4, FS_Injection

LEMMA WithinMySql ==
  ASSUME IInv, ClaimInv, StockConserved, RedisConserved
  PROVE  RedisWithinMySql
<1> SUFFICES ASSUME NEW v \in Vouchers, redisStock[v] # NoKey
             PROVE  redisStock[v] <= stock[v] +
                      Cardinality({o \in OrderIds : VoucherOf[o] = v /\ cancel[o] = "restored"})
  BY DEF RedisWithinMySql
<1> DEFINE R == {o \in OrderIds : VoucherOf[o] = v /\ cancel[o] = "restored"}
           L == Live(v)
<1>1. IsFiniteSet(L) /\ Cardinality(L) \in Nat
  BY LiveFinite, FS_CardinalityType
<1>2. IsFiniteSet(R) /\ Cardinality(R) \in Nat
  BY OrdersAssumption, FS_Subset, FS_CardinalityType
<1>3. Cardinality(L \ R) <= Cardinality(redisMembers[v])
  <2>1. \A o \in L \ R : VoucherOf[o] = v /\ Claims(o)
    BY DEF Live, Claims
  <2>2. L \ R \in SUBSET OrderIds
    BY DEF Live
  <2> QED BY <2>1, <2>2, ClaimsCounted
<1>4. Cardinality(L \ R) = Cardinality(L) - Cardinality(L \cap R)
  BY <1>1, FS_Difference
<1>5. Cardinality(L \cap R) <= Cardinality(R) /\ Cardinality(L \cap R) \in Nat
  BY <1>2, FS_Subset, FS_CardinalityType
<1>6. Cardinality(redisMembers[v]) \in Nat
  BY MembersFinite DEF IInv
<1>7. /\ redisStock[v] \in Int /\ stock[v] \in Nat /\ InitStock[v] \in Nat
      /\ redisStock[v] + Cardinality(redisMembers[v]) = InitStock[v]
      /\ stock[v] + Cardinality(L) = InitStock[v]
  BY StockAssumption DEF IInv, TypeOK, LedgerTypeOK, RedisConserved, StockConserved
<1> HIDE DEF R, L
<1>8. redisStock[v] <= stock[v] + Cardinality(R)
  BY <1>1, <1>2, <1>3, <1>4, <1>5, <1>6, <1>7
<1> QED BY <1>8 DEF R

(***************************************************************************)
(* As long as calls are answered, lost messages and lapsing locks included,*)
(* Redis never offers a unit MySQL has sold, cancels under way aside.      *)
(***************************************************************************)
THEOREM RedisStaysWithin == ASSUME Calm PROVE Spec => []RedisWithinMySql
<1>1. IInv /\ ClaimInv /\ StockConserved /\ RedisConserved => RedisWithinMySql
  BY WithinMySql
<1> QED BY Invariance, ClaimsHold, Conserves, RedisConserves, <1>1, PTL

-----------------------------------------------------------------------------
(* Admission.  Without faults, and with one voucher per user, a message is *)
(* dropped only for a user who has the order or is about to get it.        *)

Faultless == Faults = {}

OneVoucherEach ==
  \A o, p \in OrderIds : UserOf[o] = UserOf[p] => VoucherOf[o] = VoucherOf[p]

AdmitInv == LockInv /\ ServedInv

lockVars == <<userLock, worker>>
servedVars == <<request, mq, worker, order>>

LEMMA LockFrame ==
  ASSUME LockInv, UNCHANGED lockVars
  PROVE  LockInv'
  BY DEF LockInv, InHandler, lockVars

LEMMA ServedFrame ==
  ASSUME ServedInv, UNCHANGED servedVars
  PROVE  ServedInv'
  BY DEF ServedInv, Served, Bought, Handling, AdmissionHonoured, servedVars, SameBuyer

\* Order rows are never deleted.
LEMMA BoughtStays ==
  ASSUME \A o \in OrderIds : order[o] # "none" => order'[o] # "none"
  PROVE  \A o \in OrderIds : Bought(o) => Bought(o)'
  BY DEF Bought, SameBuyer

LEMMA BoughtSame ==
  ASSUME NEW o \in OrderIds, NEW p \in OrderIds, SameBuyer(o, p), Bought(p)
  PROVE  Bought(o)
  BY DEF Bought, SameBuyer

(***************************************************************************)
(* The step the invariant is for: a consumer that finds the voucher's row  *)
(* free, for a message whose order is not there, finds a unit.  The live   *)
(* orders and the message claim one member each.                           *)
(***************************************************************************)
LEMMA UnitIsThere ==
  ASSUME IInv, ClaimInv, StockConserved, RedisConserved, NEW o \in OrderIds, Claims(o),
         order[o] = "none", rowLock[VoucherOf[o]] = Nobody
  PROVE  stock[VoucherOf[o]] > 0
<1> DEFINE v == VoucherOf[o]
           L == Live(v)
<1>1. v \in Vouchers
  BY OrderTypes
<1>2. \A p \in L \cup {o} : VoucherOf[p] = v /\ Claims(p)
  <2>1. \A p \in L : rowLock[VoucherOf[p]] # p
    BY HoldersAssumption DEF Live
  <2>2. \A p \in L : cancel[p] # "restored"
    BY <2>1 DEF IInv, RowInv, CancelInv, Live
  <2> QED BY <2>2 DEF Live, Claims
<1>3. L \cup {o} \in SUBSET OrderIds
  BY DEF Live
<1>4. Cardinality(L \cup {o}) <= Cardinality(redisMembers[v])
  BY <1>1, <1>2, <1>3, ClaimsCounted
<1>5. IsFiniteSet(L) /\ Cardinality(L) \in Nat /\ o \notin L
  BY LiveFinite, FS_CardinalityType DEF Live
<1>6. Cardinality(L \cup {o}) = Cardinality(L) + 1
  BY <1>5, FS_AddElement
<1>7. redisStock[v] # NoKey
  BY <1>1 DEF ClaimInv, MemberInv, IInv, KeyInv
<1>8. /\ redisStock[v] \in Int /\ stock[v] \in Nat /\ InitStock[v] \in Nat
      /\ redisStock[v] >= 0
      /\ redisStock[v] + Cardinality(redisMembers[v]) = InitStock[v]
      /\ stock[v] + Cardinality(L) = InitStock[v]
      /\ Cardinality(redisMembers[v]) \in Nat
  BY <1>1, <1>7, StockAssumption, MembersFinite
     DEF IInv, TypeOK, LedgerTypeOK, RedisConserved, StockConserved
<1> HIDE DEF L, v
<1>9. stock[v] > 0
  BY <1>4, <1>5, <1>6, <1>8
<1> QED BY <1>9 DEF v

LEMMA RequestServed ==
  ASSUME Faultless, IInv, ClaimInv, AdmitInv, NEW o \in OrderIds, RequestStep(o)
  PROVE  AdmitInv'
<1>1. UNCHANGED <<userLock, worker, order>>
  BY DEF RequestStep, ValidateSeckillVoucher, Reserve, Refuse, Send, SendThrows,
         RollbackSeckillReservation, CrashRequest, LoseMessage, ledger
<1>2. \A p \in OrderIds : request'[p] = "acked" /\ p \notin mq' =>
                           request[p] = "acked" /\ p \notin mq
  BY DEF RequestStep, Moves, ValidateSeckillVoucher, Reserve, Refuse, Send, SendThrows,
         RollbackSeckillReservation, CrashRequest, LoseMessage, Faultless, Fault, IInv,
         TypeOK
<1>3. ServedInv'
  BY <1>1, <1>2 DEF AdmitInv, ServedInv, Served, Bought, Handling, AdmissionHonoured,
                    SameBuyer
<1> QED BY <1>1, <1>3, LockFrame DEF AdmitInv, lockVars

LEMMA OrderServed ==
  ASSUME Faultless, IInv, ClaimInv, AdmitInv, NEW o \in OrderIds, OrderStep(o)
  PROVE  AdmitInv'
<1>1. UNCHANGED <<userLock, worker, request, mq>>
  BY DEF OrderStep, PayOrder, MarkCanceled, RestoreMySqlStock, RestoreRedis,
         RestoreRedisThrows, CommitCancel, AbortCancel, SetPaid, SetCanceled, RunRollback,
         EndCancel
<1>2. \A p \in OrderIds : order'[p] = "none" <=> order[p] = "none"
  BY DEF OrderStep, PayOrder, MarkCanceled, RestoreMySqlStock, RestoreRedis,
         RestoreRedisThrows, CommitCancel, AbortCancel, SetPaid, SetCanceled, RunRollback,
         EndCancel, ledger, IInv, TypeOK, LedgerTypeOK, RowInv, CancelInv
<1>3. ServedInv'
  BY <1>1, <1>2 DEF AdmitInv, ServedInv, Served, Bought, Handling, AdmissionHonoured,
                    SameBuyer
<1> QED BY <1>1, <1>3, LockFrame DEF AdmitInv, lockVars

\* A thread in the handler stays in it, its lock untouched.
LEMMA StaysInHandler ==
  ASSUME LockInv, NEW t \in Threads, UNCHANGED userLock,
         worker[t].at \in {"locked", "counted", "stocked", "leaving"},
         worker'[t].at \in {"locked", "counted", "stocked", "leaving"},
         worker'[t].id = worker[t].id,
         \A x \in Threads : x # t => worker'[x] = worker[x],
         \A u \in Users : userLock[u] \in Threads \cup {Nobody}
  PROVE  LockInv'
<1>1. \A x \in Threads, u \in Users : InHandler(x, u)' <=> InHandler(x, u)
  BY DEF InHandler
<1> QED BY <1>1 DEF LockInv

\* A thread that leaves its handler releases the user's lock.
LEMMA LeavesHandler ==
  ASSUME LockInv, NEW t \in Threads, NEW u \in Users, UserOf[worker[t].id] = u,
         worker[t].at \in {"locked", "counted", "stocked", "leaving"},
         worker'[t].at \notin {"locked", "counted", "stocked", "leaving"},
         userLock' = [userLock EXCEPT ![u] = Nobody],
         \A x \in Threads : x # t => worker'[x] = worker[x],
         userLock \in [Users -> Threads \cup {Nobody}]
  PROVE  LockInv'
<1>1. userLock[u] = t
  BY DEF LockInv, InHandler
<1>2. \A x \in Threads, w \in Users : InHandler(x, w)' <=> InHandler(x, w) /\ x # t
  BY DEF InHandler
<1>3. \A w \in Users : InHandler(t, w) => w = u
  BY DEF InHandler
<1>4. /\ userLock'[u] = Nobody
      /\ \A w \in Users : w # u => userLock'[w] = userLock[w]
  OBVIOUS
<1> QED BY <1>1, <1>2, <1>3, <1>4 DEF LockInv

LEMMA WorkerLocks ==
  ASSUME Faultless, IInv, LockInv, NEW t \in Threads, WorkerStep(t)
  PROVE  LockInv'
<1>0. TypeOK /\ userLock \in [Users -> Threads \cup {Nobody}]
  BY DEF IInv, TypeOK
<1>1. ASSUME NEW o \in OrderIds, Deliver(t, o)
      PROVE  LockInv'
  <2> DEFINE u == UserOf[o]
  <2>1. PICK step \in {"locked", "acking"} :
          /\ worker' = [worker EXCEPT ![t] = [at |-> step, id |-> o, write |-> FALSE]]
          /\ step = "locked" => userLock[u] = Nobody /\ userLock' = [userLock EXCEPT ![u] = t]
          /\ step = "acking" => UNCHANGED userLock
    BY <1>1 DEF Deliver
  <2>2. /\ worker'[t].at = step /\ worker'[t].id = o /\ worker[t].at = "idle" /\ u \in Users
        /\ \A x \in Threads : x # t => worker'[x] = worker[x]
    BY <1>0, <1>1, <2>1, OrderTypes DEF Deliver, TypeOK
  <2>3. \A x \in Threads, w \in Users : x # t => (InHandler(x, w)' <=> InHandler(x, w))
    BY <2>2 DEF InHandler
  <2>4. \A w \in Users : ~InHandler(t, w) /\ (InHandler(t, w)' <=> step = "locked" /\ w = u)
    BY <2>2 DEF InHandler
  <2>5. CASE step = "acking"
    BY <2>1, <2>3, <2>4, <2>5, <1>0 DEF LockInv
  <2>6. CASE step = "locked"
    <3>1. /\ userLock'[u] = t /\ userLock[u] = Nobody
          /\ \A w \in Users : w # u => userLock'[w] = userLock[w]
      BY <1>0, <2>1, <2>2, <2>6
    <3>2. \A x \in Threads : x # Nobody
      BY HoldersAssumption
    <3> QED BY <1>0, <2>2, <2>3, <2>4, <2>6, <3>1, <3>2 DEF LockInv
  <2> QED BY <2>5, <2>6
<1>2. CASE CountOrders(t) \/ TakeStock(t) \/ SaveOrder(t)
  <2>1. PICK step \in {"counted", "stocked", "leaving"}, write \in BOOLEAN : At(t, step, write)
    BY <1>2 DEF CountOrders, Counted, TakeStock, UpdateStock, SaveOrder
  <2>2. worker[t].at \in {"locked", "counted", "stocked"} /\ UNCHANGED userLock
    BY <1>2 DEF CountOrders, Counted, TakeStock, UpdateStock, SaveOrder
  <2>3. /\ worker'[t].id = worker[t].id /\ worker'[t].at = step
        /\ \A x \in Threads : x # t => worker'[x] = worker[x]
    BY <1>0, <2>1 DEF At, TypeOK
  <2> QED BY <1>0, <2>1, <2>2, <2>3, StaysInHandler
<1>3. CASE Unlock(t)
  <2>1. /\ worker[t].at = "leaving" /\ userLock' = [userLock EXCEPT ![UserOf[worker[t].id]] = Nobody]
        /\ At(t, "committing", worker[t].write)
    BY <1>3 DEF Unlock
  <2>2. /\ worker'[t].at = "committing"
        /\ \A x \in Threads : x # t => worker'[x] = worker[x]
    BY <1>0, <2>1 DEF At, TypeOK
  <2>3. UserOf[worker[t].id] \in Users
    BY <1>0, <2>1, OrderTypes DEF TypeOK
  <2> QED BY <1>0, <2>1, <2>2, <2>3, LeavesHandler
<1>4. CASE CommitOrder(t) \/ Ack(t)
  <2>1. /\ worker[t].at \in {"committing", "acking"} /\ worker'[t].at \in {"acking", "idle"}
        /\ \A x \in Threads : x # t => worker'[x] = worker[x]
        /\ UNCHANGED userLock
    BY <1>0, <1>4 DEF CommitOrder, Ack, At, TypeOK, Idle
  <2>2. \A x \in Threads, u \in Users : InHandler(x, u)' <=> InHandler(x, u)
    BY <2>1 DEF InHandler
  <2> QED BY <1>0, <2>1, <2>2 DEF LockInv
<1>5. CASE FailOrder(t)
  <2> DEFINE u == UserOf[worker[t].id]
  <2>1. /\ worker[t].at = "stocked" \/ (worker[t].at = "leaving" /\ userLock[u] # t)
        /\ worker' = [worker EXCEPT ![t] = Idle]
        /\ userLock' = [userLock EXCEPT ![u] = IF userLock[u] = t THEN Nobody ELSE userLock[u]]
    BY <1>5 DEF FailOrder, Throws, Faultless, Fault
  <2>2. u \in Users
    BY <1>0, <2>1, OrderTypes DEF TypeOK
  <2>3. userLock[u] = t
    BY <2>1, <2>2 DEF LockInv, InHandler
  <2>4. userLock' = [userLock EXCEPT ![u] = Nobody]
    BY <2>1, <2>3
  <2>5. /\ worker'[t].at = "idle"
        /\ \A x \in Threads : x # t => worker'[x] = worker[x]
    BY <1>0, <2>1 DEF TypeOK, Idle
  <2> QED BY <1>0, <2>1, <2>2, <2>4, <2>5, LeavesHandler
<1>6. ~CrashWorker(t)
  BY DEF CrashWorker, Faultless, Fault
<1> QED BY <1>1, <1>2, <1>3, <1>4, <1>5, <1>6 DEF WorkerStep

\* Who is served stays served if the one thread that moves keeps handling its message
\* or leaves an order behind.
LEMMA ServedStays ==
  ASSUME NEW t \in Threads, NEW id, worker[t].id = id,
         \A x \in Threads : x # t => worker'[x] = worker[x],
         \A o \in OrderIds : Bought(o) => Bought(o)',
         worker[t].at \notin {"idle", "acking"} =>
           \/ worker'[t].id = id /\ worker'[t].at \notin {"idle", "acking"}
           \/ Bought(id)'
  PROVE  \A o \in OrderIds : Served(o) => Served(o)'
<1> SUFFICES ASSUME NEW o \in OrderIds, Served(o), ~Bought(o)'
             PROVE  Served(o)'
  BY DEF Served
<1>1. PICK x \in Threads : Handling(x, o)
  BY DEF Served
<1>2. CASE x # t
  BY <1>1, <1>2 DEF Served, Handling
<1>3. CASE x = t
  <2>1. ~Bought(id)'
    BY <1>1, <1>3 DEF Handling, Bought, SameBuyer
  <2> QED BY <1>1, <1>3, <2>1 DEF Served, Handling
<1> QED BY <1>2, <1>3

\* ServedInv from what it says of the thread that moves and of acknowledged messages.
LEMMA ServedRebuilt ==
  ASSUME TypeOK, ServedInv, NEW t \in Threads, NEW id, UNCHANGED request,
         \A x \in Threads : x # t => worker'[x] = worker[x],
         \A o \in OrderIds : Bought(o) => Bought(o)',
         \A o \in OrderIds : Served(o) => Served(o)',
         worker'[t].at = "acking" => Served(id)' /\ worker'[t].id = id,
         worker'[t].at \in {"leaving", "committing"} /\ ~worker'[t].write =>
           Bought(id)' /\ worker'[t].id = id,
         \A o \in OrderIds : o \in mq /\ o \notin mq' => Served(o)
  PROVE  ServedInv'
<1>1. AdmissionHonoured'
  <2> SUFFICES ASSUME NEW o \in OrderIds, request[o] = "acked", o \notin mq'
               PROVE  Served(o)'
    BY DEF AdmissionHonoured, Served
  <2>1. Served(o)
    BY DEF ServedInv, AdmissionHonoured, Served
  <2> QED BY <2>1
<1>2. ASSUME NEW x \in Threads, NEW p, worker'[x].id = p
      PROVE  /\ worker'[x].at = "acking" => Served(p)'
             /\ worker'[x].at \in {"leaving", "committing"} /\ ~worker'[x].write => Bought(p)'
  <2>1. CASE x = t
    BY <1>2, <2>1
  <2>2. CASE x # t
    <3>1. worker'[x] = worker[x] /\ (worker[x].at # "idle" => p \in OrderIds)
      BY <1>2, <2>2 DEF TypeOK
    <3>2. /\ worker[x].at = "acking" => Served(p)
          /\ worker[x].at \in {"leaving", "committing"} /\ ~worker[x].write => Bought(p)
      BY <1>2, <3>1 DEF ServedInv
    <3> QED BY <3>1, <3>2
  <2> QED BY <2>1, <2>2
<1>3. \A x \in Threads : /\ worker'[x].at = "acking" => Served(worker[x].id)'
                         /\ worker'[x].at \in {"leaving", "committing"} /\ ~worker'[x].write =>
                              Bought(worker[x].id)'
  <2> SUFFICES ASSUME NEW x \in Threads
               PROVE  /\ worker'[x].at = "acking" => Served(worker[x].id)'
                      /\ worker'[x].at \in {"leaving", "committing"} /\ ~worker'[x].write =>
                           Bought(worker[x].id)'
    OBVIOUS
  <2>1. PICK p : worker'[x].id = p
    OBVIOUS
  <2>2. /\ worker'[x].at = "acking" => Served(p)'
        /\ worker'[x].at \in {"leaving", "committing"} /\ ~worker'[x].write => Bought(p)'
    BY <1>2, <2>1
  <2> QED BY <2>1, <2>2 DEF Served, Bought, Handling, SameBuyer
<1> QED BY <1>1, <1>3 DEF ServedInv

LEMMA WorkerServed ==
  ASSUME Faultless, OneVoucherEach, IInv, ClaimInv, StockConserved, RedisConserved, AdmitInv,
         NEW t \in Threads, WorkerStep(t)
  PROVE  ServedInv'
<1>0. /\ TypeOK /\ RowInv /\ LockInv /\ ServedInv /\ UNCHANGED request
      /\ worker[t].at # "idle" => worker[t].id \in OrderIds
  BY DEF IInv, TypeOK, AdmitInv, WorkerStep, Deliver, CountOrders, TakeStock, SaveOrder,
         Unlock, CommitOrder, Ack, FailOrder, CrashWorker, Counted, UpdateStock
<1>1. ASSUME NEW o \in OrderIds, Deliver(t, o)
      PROVE  ServedInv'
  <2>1. PICK step \in {"locked", "acking"} :
          /\ worker' = [worker EXCEPT ![t] = [at |-> step, id |-> o, write |-> FALSE]]
          /\ step = "acking" => userLock[UserOf[o]] # Nobody
    BY <1>1 DEF Deliver
  <2>2. /\ worker'[t].at = step /\ worker'[t].id = o /\ worker[t].at = "idle"
        /\ \A x \in Threads : x # t => worker'[x] = worker[x]
        /\ UNCHANGED <<mq, order>>
    BY <1>0, <1>1, <2>1 DEF Deliver, TypeOK, ledger
  <2>3. \A p \in OrderIds : Bought(p) => Bought(p)'
    BY <2>2, BoughtStays
  <2>4. \A p \in OrderIds : Served(p) => Served(p)'
    <3>1. PICK id : worker[t].id = id
      OBVIOUS
    <3> QED BY <2>2, <2>3, <3>1, ServedStays
  <2>5. step = "acking" => Served(o)'
    <3> SUFFICES ASSUME step = "acking"
                 PROVE  Served(o)
      BY <2>4
    <3> DEFINE s == userLock[UserOf[o]]
    <3>1. s \in Threads /\ InHandler(s, UserOf[o])
      BY <1>0, <2>1, OrderTypes DEF LockInv, TypeOK
    <3>2. worker[s].id \in OrderIds
      BY <1>0, <3>1 DEF InHandler, TypeOK
    <3>3. Handling(s, o)
      BY <3>1, <3>2 DEF InHandler, Handling, SameBuyer, OneVoucherEach
    <3> QED BY <3>1, <3>3 DEF Served
  <2> QED BY <1>0, <2>2, <2>3, <2>4, <2>5, ServedRebuilt
<1>2. CASE CountOrders(t) \/ TakeStock(t) \/ SaveOrder(t) \/ Unlock(t)
  <2>0. worker[t].at # "idle"
    BY <1>2 DEF CountOrders, Counted, TakeStock, UpdateStock, SaveOrder, Unlock
  <2>o. PICK o \in OrderIds : worker[t].id = o
    BY <1>0, <2>0
  <2>1. PICK step \in {"counted", "stocked", "leaving", "committing"}, write \in BOOLEAN :
          /\ At(t, step, write)
          /\ step \in {"leaving", "committing"} /\ ~write => Bought(o)
    <3>1. CASE CountOrders(t)
      BY <2>o, <3>1 DEF CountOrders, Counted
    <3>2. CASE TakeStock(t)
      <4>1. worker[t].at = "counted" /\ rowLock[VoucherOf[o]] = Nobody /\ o \in OrderIds
        BY <2>o, <1>0, <3>2 DEF TakeStock, UpdateStock
      <4>2. order[o] # "none" => Bought(o)
        BY <4>1 DEF Bought, SameBuyer
      <4>3. order[o] = "none" => Claims(o)
        BY <2>o, <4>1 DEF Claims, Busy
      <4>4. ~(stock[VoucherOf[o]] > 0) => Bought(o)
        BY <2>o, <4>1, <4>2, <4>3, UnitIsThere
      <4> QED BY <2>o, <3>2, <4>4 DEF TakeStock, UpdateStock
    <3>3. CASE SaveOrder(t)
      BY <3>3 DEF SaveOrder
    <3>4. CASE Unlock(t)
      <4>1. At(t, "committing", worker[t].write) /\ worker[t].at = "leaving"
        BY <3>4 DEF Unlock
      <4>2. worker[t].write \in BOOLEAN /\ (~worker[t].write => Bought(o))
        BY <2>o, <1>0, <4>1 DEF ServedInv, TypeOK
      <4> QED BY <4>1, <4>2
    <3> QED BY <1>2, <3>1, <3>2, <3>3, <3>4
  <2>2. worker[t].at \notin {"idle", "acking"} /\ UNCHANGED <<mq, order>>
    BY <2>o, <1>2 DEF CountOrders, Counted, TakeStock, UpdateStock, SaveOrder, Unlock, ledger
  <2>3. /\ worker'[t].id = o /\ worker'[t].at = step /\ worker'[t].write = write
        /\ \A x \in Threads : x # t => worker'[x] = worker[x]
    BY <2>o, <1>0, <2>1 DEF At, TypeOK
  <2>4. \A p \in OrderIds : Bought(p) => Bought(p)'
    BY <2>2, BoughtStays
  <2>5. \A p \in OrderIds : Served(p) => Served(p)'
    BY <2>o, <1>0, <2>3, <2>4, ServedStays
  <2>6. worker'[t].at \in {"leaving", "committing"} /\ ~worker'[t].write =>
          Bought(o)' /\ worker'[t].id = o
    BY <2>o, <1>0, <2>1, <2>2, <2>3, <2>4
  <2> QED BY <1>0, <2>2, <2>3, <2>4, <2>5, <2>6, ServedRebuilt
<1>3. CASE CommitOrder(t)
  <2>o. PICK o \in OrderIds : worker[t].id = o
    BY <1>0, <1>3 DEF CommitOrder
  <2>1. /\ worker'[t].at = "acking" /\ worker'[t].id = o
        /\ \A x \in Threads : x # t => worker'[x] = worker[x]
        /\ o \in OrderIds /\ worker[t].at = "committing" /\ UNCHANGED mq
    BY <2>o, <1>0, <1>3 DEF CommitOrder, At, TypeOK
  <2>2. /\ \A p \in OrderIds : order[p] # "none" => order'[p] # "none"
        /\ worker[t].write => order'[o] # "none"
    BY <2>o, <1>0, <1>3, <2>1 DEF CommitOrder, TypeOK, LedgerTypeOK, ledger
  <2>3. \A p \in OrderIds : Bought(p) => Bought(p)'
    BY <2>2, BoughtStays
  <2>4. Bought(o)'
    <3>1. ~worker[t].write => Bought(o)
      BY <2>o, <1>0, <2>1 DEF ServedInv
    <3>2. worker[t].write => Bought(o)'
      BY <2>o, <2>1, <2>2 DEF Bought, SameBuyer
    <3> QED BY <2>o, <2>1, <2>3, <3>1, <3>2
  <2>5. \A p \in OrderIds : Served(p) => Served(p)'
    BY <2>o, <1>0, <2>1, <2>3, <2>4, ServedStays
  <2>6. Served(o)'
    BY <2>o, <2>4 DEF Served
  <2> QED BY <1>0, <2>1, <2>3, <2>5, <2>6, ServedRebuilt
<1>4. CASE Ack(t)
  <2>o. PICK o \in OrderIds : worker[t].id = o
    BY <1>0, <1>4 DEF Ack
  <2>1. /\ worker[t].at = "acking" /\ worker'[t].at = "idle" /\ mq' = mq \ {o}
        /\ \A x \in Threads : x # t => worker'[x] = worker[x]
        /\ UNCHANGED order
    BY <2>o, <1>0, <1>4 DEF Ack, TypeOK, Idle, ledger
  <2>2. \A p \in OrderIds : Bought(p) => Bought(p)'
    BY <2>1, BoughtStays
  <2>3. \A p \in OrderIds : Served(p) => Served(p)'
    BY <2>o, <1>0, <2>1, <2>2, ServedStays
  <2>4. Served(o)
    BY <1>0, <2>1, <2>o DEF ServedInv
  <2> QED BY <1>0, <2>1, <2>2, <2>3, <2>4, ServedRebuilt
<1>5. CASE FailOrder(t)
  <2>0. worker[t].at # "idle"
    BY <1>5 DEF FailOrder, Throws, Faultless, Fault
  <2>o. PICK o \in OrderIds : worker[t].id = o
    BY <1>0, <2>0
  <2>1. /\ \/ worker[t].at = "stocked" /\ Duplicate(o)
           \/ worker[t].at = "leaving" /\ userLock[UserOf[o]] # t
        /\ worker' = [worker EXCEPT ![t] = Idle] /\ UNCHANGED <<mq, order>>
    BY <2>o, <1>5 DEF FailOrder, Throws, Faultless, Fault, ledger
  <2>2. o \in OrderIds /\ UserOf[o] \in Users
    BY <2>o, <1>0, <2>1, OrderTypes
  <2>3. Duplicate(o)
    BY <2>o, <1>0, <2>1, <2>2 DEF LockInv, InHandler
  <2>4. Bought(o)
    BY <2>o, <2>2, <2>3 DEF Duplicate, Bought, SameBuyer
  <2>5. /\ worker'[t].at = "idle"
        /\ \A x \in Threads : x # t => worker'[x] = worker[x]
    BY <2>o, <1>0, <2>1 DEF TypeOK, Idle
  <2>6. \A p \in OrderIds : Bought(p) => Bought(p)'
    BY <2>1, BoughtStays
  <2>7. Bought(o)'
    BY <2>o, <2>2, <2>4, <2>6
  <2>8. \A p \in OrderIds : Served(p) => Served(p)'
    BY <2>o, <1>0, <2>5, <2>6, <2>7, ServedStays
  <2> QED BY <1>0, <2>1, <2>5, <2>6, <2>8, ServedRebuilt
<1>6. ~CrashWorker(t)
  BY DEF CrashWorker, Faultless, Fault
<1> QED BY <1>1, <1>2, <1>3, <1>4, <1>5, <1>6 DEF WorkerStep

LEMMA AdmitStep ==
  ASSUME Faultless, OneVoucherEach, IInv, ClaimInv, StockConserved, RedisConserved, AdmitInv,
         [Next]_vars
  PROVE  AdmitInv'
<1>1. ASSUME NEW v \in Vouchers,
             AddSeckillVoucher(v) \/ CommitSeckillVoucher(v) \/ TimePasses(v)
      PROVE  AdmitInv'
  BY <1>1, LockFrame, ServedFrame DEF AddSeckillVoucher, CommitSeckillVoucher, TimePasses,
                                      lockVars, servedVars, ledger, AdmitInv
<1>2. ASSUME NEW u \in Users
      PROVE  ~LeaseEnds(u)
  BY DEF LeaseEnds, AdmitInv, LockInv, Faultless, Fault
<1>3. CASE UNCHANGED vars \/ Terminating
  BY <1>3, LockFrame, ServedFrame DEF vars, Terminating, lockVars, servedVars, ledger, AdmitInv
<1>4. ASSUME NEW t \in Threads, WorkerStep(t)
      PROVE  AdmitInv'
  BY <1>4, WorkerLocks, WorkerServed DEF AdmitInv
<1> QED BY <1>1, <1>2, <1>3, <1>4, RequestServed, OrderServed DEF Next

LEMMA InitAdmits == Init => AdmitInv
<1> SUFFICES ASSUME Init
             PROVE  AdmitInv
  OBVIOUS
<1>1. LockInv
  BY DEF Init, LockInv, InHandler, Idle
<1>2. ServedInv
  BY DEF Init, ServedInv, AdmissionHonoured, Idle
<1> QED BY <1>1, <1>2 DEF AdmitInv

(***************************************************************************)
(* Without faults, and for users who ask for one voucher each, whoever the *)
(* script admits is served: the consumer never finds the stock sold out    *)
(* for a message, although Redis is restored before a cancel commits.      *)
(***************************************************************************)
THEOREM Admission == ASSUME Faultless, OneVoucherEach PROVE Spec => []AdmissionHonoured
<1>1. /\ IInv /\ ClaimInv /\ StockConserved /\ RedisConserved /\ AdmitInv /\ [Next]_vars
         => AdmitInv'
  BY AdmitStep
<1>2. Calm
  BY DEF Faultless, Calm
<1>3. Spec => []ClaimInv
  BY <1>2, ClaimsHold
<1>4. AdmitInv => AdmissionHonoured
  BY DEF AdmitInv, ServedInv
<1> QED BY Invariance, <1>3, Conserves, RedisConserves, InitAdmits, <1>1, <1>4, PTL DEF Spec
=============================================================================
