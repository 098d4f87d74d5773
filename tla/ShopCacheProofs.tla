--------------------------- MODULE ShopCacheProofs ---------------------------
(***************************************************************************)
(* Proofs about the two-level cache, for any number of instances, readers  *)
(* and updates and for every combination of faults.                        *)
(***************************************************************************)
EXTENDS ShopCache, TLAPS

\* An update under way leaves room for its number, and a query past a hit or a load
\* of a saved shop holds one.
WorkInv ==
  /\ update.at # "idle" => row \in 1 .. MaxVersion - 1
  /\ \A r \in Readers : reader[r].at = "keep" => reader[r].shop # 0

CacheInv == TypeOK /\ WorkInv /\ CommittedOnly

\* A reader that moves on with a committed shop.
LEMMA ReaderMoves ==
  ASSUME CacheInv, NEW r \in Readers, NEW step \in ReaderSteps, NEW shop \in Versions,
         Goes(r, step, shop), shop <= row, step = "keep" => shop # 0,
         UNCHANGED <<row, update, mq, compensation>>,
         redis' \in {redis, reader[r].shop},
         \/ UNCHANGED localCache
         \/ /\ reader[r].at = "keep"
            /\ localCache' = [localCache EXCEPT ![Home[r]] = reader[r].shop]
  PROVE  CacheInv'
<1>1. reader[r].shop \in Versions /\ reader[r].shop <= row /\ Home[r] \in Instances
  BY HomeAssumption DEF CacheInv, TypeOK, CommittedOnly
<1>m. /\ reader' \in [Readers -> [at : ReaderSteps, shop : Versions]]
      /\ reader'[r].at = step /\ reader'[r].shop = shop
      /\ \A x \in Readers : x # r => reader'[x] = reader[x]
  BY DEF CacheInv, TypeOK, Goes
<1>2. TypeOK'
  BY <1>1, <1>m DEF CacheInv, TypeOK, WorkInv
<1>3. WorkInv'
  BY <1>m DEF CacheInv, WorkInv
<1>4. CommittedOnly'
  <2>1. redis' # Absent => redis' <= row'
    BY <1>1 DEF CacheInv, CommittedOnly
  <2>2. \A i \in Instances : localCache'[i] # Absent => localCache'[i] <= row'
    BY <1>1 DEF CacheInv, CommittedOnly, TypeOK
  <2>3. \A x \in Readers : reader'[x].shop <= row'
    BY <1>m DEF CacheInv, CommittedOnly
  <2> QED BY <2>1, <2>2, <2>3 DEF CommittedOnly
<1> QED BY <1>2, <1>3, <1>4 DEF CacheInv

\* Dropping entries, sending and receiving messages put nothing in a cache.
LEMMA DropsKeep ==
  ASSUME CacheInv,
         UNCHANGED <<row, reader>>,
         redis' \in {redis, Absent},
         \A i \in Instances : localCache'[i] \in {localCache[i], Absent},
         localCache' \in [Instances -> (Versions \ {0}) \cup {Absent}],
         update' \in [at : UpdateSteps, on : Instances \cup {Nowhere}],
         update'.at # "idle" => row \in 1 .. MaxVersion - 1,
         mq' \subseteq Versions,
         compensation' \in [Instances -> Versions]
  PROVE  CacheInv'
  BY DEF CacheInv, TypeOK, WorkInv, CommittedOnly

LEMMA CacheStep == CacheInv /\ [Next]_vars => CacheInv'
<1> SUFFICES ASSUME CacheInv, [Next]_vars
             PROVE  CacheInv'
  OBVIOUS
<1>0. TypeOK
  BY DEF CacheInv
<1>1. ASSUME NEW r \in Readers, MissLocal(r) \/ Query(r) \/ QueryThrows(r)
      PROVE  CacheInv'
  <2>0. 0 \in Versions /\ 0 <= row /\ row \in Versions /\ row <= row
    BY <1>0, VersionAssumption DEF TypeOK, Versions
  <2>1. CASE MissLocal(r)
    BY <2>0, <2>1, ReaderMoves DEF MissLocal, stores, ReaderSteps
  <2>2. CASE ReadRedis(r)
    <3>1. redis \notin {Absent, 0} => redis \in Versions /\ redis <= row
      BY <1>0 DEF TypeOK, CacheInv, CommittedOnly
    <3>2. PICK step \in ReaderSteps, shop \in Versions :
            Goes(r, step, shop) /\ shop <= row /\ (step = "keep" => shop # 0)
      BY <2>0, <2>2, <3>1 DEF ReadRedis, ReaderSteps
    <3> QED BY <2>2, <3>2, ReaderMoves DEF ReadRedis, stores
  <2>3. CASE LoadRow(r)
    BY <2>0, <2>3, ReaderMoves DEF LoadRow, stores, ReaderSteps
  <2>4. CASE FillRedis(r)
    <3>1. reader[r].shop \in Versions /\ reader[r].shop <= row
      BY <1>0 DEF TypeOK, CacheInv, CommittedOnly
    <3>2. PICK step \in ReaderSteps, shop \in Versions :
            Goes(r, step, shop) /\ shop <= row /\ (step = "keep" => shop # 0)
      BY <2>0, <2>4, <3>1 DEF FillRedis, Fill, ReaderSteps
    <3> QED BY <2>4, <3>2, ReaderMoves DEF FillRedis, Fill
  <2>5. CASE FillLocal(r)
    BY <2>0, <2>5, ReaderMoves DEF FillLocal, ReaderSteps
  <2>6. CASE QueryThrows(r)
    BY <2>0, <2>6, ReaderMoves DEF QueryThrows, stores, ReaderSteps
  <2> QED BY <1>1, <2>1, <2>2, <2>3, <2>4, <2>5, <2>6 DEF Query
<1>2. CASE SaveShop
  BY <1>2, VersionAssumption DEF SaveShop, CacheInv, TypeOK, WorkInv, CommittedOnly, Versions
<1>3. ASSUME NEW i \in Instances, UpdateRow(i)
      PROVE  CacheInv'
  BY <1>0, <1>3, DropsKeep DEF UpdateRow, stores, TypeOK, UpdateSteps
<1>4. CASE InvalidateLocal
  BY <1>0, <1>4, DropsKeep DEF InvalidateLocal, UpdateGoes, TypeOK, UpdateSteps, CacheInv, WorkInv
<1>5. CASE DeleteRedis \/ DeleteThrows
  BY <1>0, <1>5, DropsKeep DEF DeleteRedis, DeleteThrows, UpdateGoes, TypeOK, UpdateSteps,
                               CacheInv, WorkInv
<1>6. CASE SendCompensation
  <2>1. mq' \subseteq Versions
    BY <1>0, <1>6, VersionAssumption
    DEF SendCompensation, UpdateGoes, TypeOK, CacheInv, WorkInv, Versions
  <2> QED BY <1>0, <1>6, <2>1, DropsKeep DEF SendCompensation, UpdateGoes, stores, TypeOK,
                                             UpdateSteps, CacheInv, WorkInv
<1>7. CASE CommitUpdate
  <2>1. row \in Nat /\ row + 1 \in Versions
    BY <1>7, VersionAssumption DEF CommitUpdate, CacheInv, WorkInv, Versions
  <2>2. \A n \in Versions : n <= row => n <= row + 1
    BY <2>1, VersionAssumption DEF Versions
  <2>3. TypeOK' /\ WorkInv'
    BY <1>0, <1>7, <2>1 DEF CommitUpdate, TypeOK, CacheInv, WorkInv, NoUpdate, UpdateSteps
  <2>4. CommittedOnly'
    BY <1>0, <1>7, <2>2 DEF CommitUpdate, TypeOK, CacheInv, CommittedOnly
  <2> QED BY <2>3, <2>4 DEF CacheInv
<1>8. CASE AbortUpdate
  BY <1>0, <1>8, DropsKeep DEF AbortUpdate, stores, NoUpdate, TypeOK, UpdateSteps
<1>9. ASSUME NEW i \in Instances, LocalExpires(i)
      PROVE  CacheInv'
  BY <1>0, <1>9, DropsKeep DEF LocalExpires, TypeOK, CacheInv, WorkInv
<1>10. ASSUME NEW i \in Instances,
              (\E n \in mq : Receive(i, n)) \/ Compensate(i) \/ CompensationThrows(i)
       PROVE  CacheInv'
  <2>1. 0 \in Versions
    BY VersionAssumption DEF Versions
  <2>2. ASSUME NEW n \in mq, Receive(i, n)
        PROVE  CacheInv'
    BY <1>0, <2>2, DropsKeep DEF Receive, TypeOK, CacheInv, WorkInv
  <2>3. CASE Compensate(i) \/ CompensationThrows(i)
    BY <1>0, <2>1, <2>3, DropsKeep DEF Compensate, CompensationThrows, stores, TypeOK,
                                       CacheInv, WorkInv
  <2> QED BY <1>10, <2>2, <2>3
<1>11. CASE RedisExpires
  BY <1>0, <1>11, DropsKeep DEF RedisExpires, TypeOK, CacheInv, WorkInv
<1>12. CASE UNCHANGED vars
  BY <1>12 DEF vars, CacheInv, TypeOK, WorkInv, CommittedOnly
<1> QED BY <1>1, <1>2, <1>3, <1>4, <1>5, <1>6, <1>7, <1>8, <1>9, <1>10, <1>11, <1>12
        DEF Next, UpdateStep

LEMMA CacheInitially == Init => CacheInv
  BY VersionAssumption DEF Init, CacheInv, TypeOK, WorkInv, CommittedOnly, NoUpdate, Versions,
                           ReaderSteps, UpdateSteps

(***************************************************************************)
(* Type correctness; in particular Caffeine never holds the empty entry    *)
(* of a shop that is not there.                                            *)
(***************************************************************************)
THEOREM CacheTypeCorrect == Spec => []TypeOK
<1>1. CacheInv => TypeOK
  BY DEF CacheInv
<1> QED BY <1>1, CacheInitially, CacheStep, PTL DEF Spec

(***************************************************************************)
(* No cache and no query ever holds a shop MySQL has not committed,        *)
(* whatever updates roll back and messages are repeated.                   *)
(***************************************************************************)
THEOREM OnlyCommitted == Spec => []CommittedOnly
<1>1. CacheInv => CommittedOnly
  BY DEF CacheInv
<1> QED BY <1>1, CacheInitially, CacheStep, PTL DEF Spec

\* As long as the shop stays as it is, a query fills the caches with what they hold.
LEMMA QueryCoheres ==
  ASSUME CacheInv, Coherent, row' = row, NEW r \in Readers,
         MissLocal(r) \/ Query(r) \/ QueryThrows(r)
  PROVE  Coherent'
<1>1. TypeOK /\ row \in Versions /\ redis \in {Absent, row}
  BY DEF CacheInv, TypeOK, Coherent, Fresh
<1>2. ASSUME NEW step, NEW shop, Goes(r, step, shop), step \in {"fill", "keep"} => shop = row,
             redis' \in {Absent, row},
             \A i \in Instances : localCache'[i] \in {localCache[i], row}
      PROVE  Coherent'
  <2>1. \A q \in Readers : reader'[q] = IF q = r THEN [at |-> step, shop |-> shop] ELSE reader[q]
    BY <1>1, <1>2 DEF Goes, TypeOK
  <2> QED BY <1>2, <2>1 DEF Coherent, Fresh
<1>3. CASE MissLocal(r) \/ ReadRedis(r) \/ LoadRow(r)
  BY <1>1, <1>2, <1>3 DEF MissLocal, ReadRedis, LoadRow, stores
<1>4. CASE FillRedis(r)
  BY <1>1, <1>2, <1>4 DEF FillRedis, Fill, Coherent
<1>5. CASE FillLocal(r)
  <2>1. \A i \in Instances : localCache'[i] \in {localCache[i], row}
    BY <1>1, <1>5 DEF FillLocal, Coherent, TypeOK
  <2> QED BY <1>1, <1>2, <1>5, <2>1 DEF FillLocal
<1>6. CASE QueryThrows(r)
  BY <1>1, <1>2, <1>6 DEF QueryThrows, Coherent
<1> QED BY <1>3, <1>4, <1>5, <1>6 DEF Query

LEMMA CoherentStep == CacheInv /\ [Next]_vars => (Coherent => Coherent' \/ row' # row)
<1> SUFFICES ASSUME CacheInv, [Next]_vars, Coherent, row' = row
             PROVE  Coherent'
  OBVIOUS
<1>1. ASSUME NEW r \in Readers, MissLocal(r) \/ Query(r) \/ QueryThrows(r)
      PROVE  Coherent'
  BY <1>1, QueryCoheres
<1>2. TypeOK
  BY DEF CacheInv
<1>3. ASSUME UNCHANGED reader, redis' \in {redis, Absent},
             \A i \in Instances : localCache'[i] \in {localCache[i], Absent}
      PROVE  Coherent'
  BY <1>3 DEF Coherent, Fresh
<1>4. CASE SaveShop \/ CommitUpdate
  <2>1. row' # row
    BY <1>2, <1>4, VersionAssumption DEF SaveShop, CommitUpdate, TypeOK, Versions
  <2> QED BY <2>1
<1>5. ASSUME NEW i \in Instances, UpdateRow(i) \/ LocalExpires(i)
      PROVE  Coherent'
  BY <1>2, <1>3, <1>5 DEF UpdateRow, LocalExpires, stores, TypeOK
<1>6. CASE InvalidateLocal \/ DeleteRedis \/ SendCompensation \/ DeleteThrows \/ AbortUpdate
  BY <1>2, <1>3, <1>6 DEF InvalidateLocal, DeleteRedis, SendCompensation, DeleteThrows, AbortUpdate,
                          stores, TypeOK
<1>7. ASSUME NEW i \in Instances, NEW n \in mq, Receive(i, n)
      PROVE  Coherent'
  BY <1>2, <1>3, <1>7 DEF Receive, TypeOK
<1>8. ASSUME NEW i \in Instances, Compensate(i) \/ CompensationThrows(i)
      PROVE  Coherent'
  BY <1>3, <1>8 DEF Compensate, CompensationThrows
<1>9. CASE RedisExpires
  BY <1>3, <1>9 DEF RedisExpires
<1>10. CASE UNCHANGED vars
  BY <1>3, <1>10 DEF vars
<1> QED BY <1>1, <1>4, <1>5, <1>6, <1>7, <1>8, <1>9, <1>10 DEF Next, UpdateStep

(***************************************************************************)
(* Once the caches and the queries agree with MySQL, only a commit parts   *)
(* them, for any number of instances and queries and every fault.          *)
(***************************************************************************)
THEOREM CommitsAloneStale == Spec => OnlyCommitsStale
  BY CacheInitially, CacheStep, CoherentStep, PTL DEF Spec, OnlyCommitsStale
=============================================================================
