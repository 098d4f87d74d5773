------------------------------ MODULE ShopCache ------------------------------
(***************************************************************************)
(* The two-level cache of one shop: Caffeine on every instance, Redis in   *)
(* front of MySQL, readers that fill both on a miss, updates that delete   *)
(* both inside their transaction, and RocketMQ messages that repeat a      *)
(* delete Redis did not take.                                              *)
(*                                                                         *)
(* A shop is abstracted to the number of its last update: 0 before it is   *)
(* saved, 1 as saved.  An update holds the row's lock until it commits, so *)
(* there is one at a time.  Both stores drop an entry when its TTL ends    *)
(* (Caffeine also when it is full), which may be at any moment.            *)
(***************************************************************************)
EXTENDS Integers

CONSTANTS
  Instances,
  Readers,         \* request threads that call queryWithTwoLevelCache
  Home,            \* the instance a reader runs on
  MaxVersion,      \* bound on the number of updates
  Faults,          \* what may go wrong, a subset of FaultKinds
  Absent,          \* no entry under the key
  Nowhere          \* the instance of an update that is not there

FaultKinds ==
  {"query",        \* a call of a query to Redis or MySQL throws
   "delete",       \* a delete in Redis throws, having run or not
   "send",         \* the compensation message cannot be sent
   "abort"}        \* the update rolls back after its deletes

ASSUME HomeAssumption == Home \in [Readers -> Instances] /\ Nowhere \notin Instances

ASSUME VersionAssumption == MaxVersion \in Nat \ {0} /\ Absent \notin Int

ASSUME FaultsAssumption == Faults \subseteq FaultKinds

VARIABLES
  row,             \* the shop as committed in MySQL
  redis,           \* cache:shop:{id}; 0 is the cached empty string
  localCache,      \* the Caffeine entry of each instance
  reader,          \* where a query stands and the shop it holds
  update,          \* where the update transaction stands, and its instance
  mq,              \* updates whose compensation message the broker holds
  compensation     \* what the message listener of an instance is doing

stores == <<row, redis, localCache>>
vars == <<row, redis, localCache, reader, update, mq, compensation>>

Fault(f) == f \in Faults

Versions == 0 .. MaxVersion
ReaderSteps == {"idle", "redis", "db", "fill", "keep"}
UpdateSteps == {"idle", "updated", "deleting", "sending", "committing"}

TypeOK ==
  /\ row \in Versions
  /\ redis \in Versions \cup {Absent}
  /\ localCache \in [Instances -> (Versions \ {0}) \cup {Absent}]
  /\ reader \in [Readers -> [at : ReaderSteps, shop : Versions]]
  /\ update \in [at : UpdateSteps, on : Instances \cup {Nowhere}]
  /\ mq \subseteq Versions
  /\ compensation \in [Instances -> Versions]        \* 0: none at hand

NoUpdate == [at |-> "idle", on |-> Nowhere]

Init ==
  /\ row \in {0, 1}
  /\ redis = Absent
  /\ localCache = [i \in Instances |-> Absent]
  /\ reader = [r \in Readers |-> [at |-> "idle", shop |-> 0]]
  /\ update = NoUpdate
  /\ mq = {}
  /\ compensation = [i \in Instances |-> 0]

-----------------------------------------------------------------------------
(* queryWithTwoLevelCache.  A hit in Caffeine changes nothing.             *)

Goes(r, step, shop) == reader' = [reader EXCEPT ![r] = [at |-> step, shop |-> shop]]

MissLocal(r) ==
  /\ reader[r].at = "idle" /\ localCache[Home[r]] = Absent
  /\ Goes(r, "redis", 0)
  /\ UNCHANGED <<stores, update, mq, compensation>>

\* A hit, the cached empty string, or a miss.
ReadRedis(r) ==
  /\ reader[r].at = "redis"
  /\ \/ redis \notin {Absent, 0} /\ Goes(r, "keep", redis)
     \/ redis = 0 /\ Goes(r, "idle", 0)
     \/ redis = Absent /\ Goes(r, "db", 0)
  /\ UNCHANGED <<stores, update, mq, compensation>>

LoadRow(r) ==
  /\ reader[r].at = "db"
  /\ Goes(r, "fill", row)
  /\ UNCHANGED <<stores, update, mq, compensation>>

Fill(r, done) ==
  LET shop == reader[r].shop
  IN  /\ reader[r].at = "fill"
      /\ redis' = shop
      /\ IF done THEN Goes(r, "idle", 0) ELSE Goes(r, "keep", shop)
      /\ UNCHANGED <<row, localCache, update, mq, compensation>>

\* Mutant: the empty string is kept in Caffeine as well.
FillBoth(r) == Fill(r, FALSE)

\* set with CACHE_SHOP_TTL; for a shop that is not there the empty string with
\* CACHE_NULL_TTL, in Redis only.
FillRedis(r) == Fill(r, reader[r].shop = 0)

FillLocal(r) ==
  /\ reader[r].at = "keep"
  /\ localCache' = [localCache EXCEPT ![Home[r]] = reader[r].shop]
  /\ Goes(r, "idle", 0)
  /\ UNCHANGED <<row, redis, update, mq, compensation>>

\* A call to Redis or MySQL throws and the request fails; a set may have run.
QueryThrows(r) ==
  /\ Fault("query")
  /\ reader[r].at \in {"redis", "db", "fill"}
  /\ \/ redis' = redis
     \/ reader[r].at = "fill" /\ redis' = reader[r].shop
  /\ Goes(r, "idle", 0)
  /\ UNCHANGED <<row, localCache, update, mq, compensation>>

-----------------------------------------------------------------------------
(* save commits at once and deletes nothing; update deletes inside its     *)
(* transaction.                                                            *)

SaveShop ==
  /\ row = 0
  /\ row' = 1
  /\ UNCHANGED <<redis, localCache, reader, update, mq, compensation>>

UpdateRow(i) ==
  /\ update.at = "idle" /\ row \in 1 .. MaxVersion - 1
  /\ update' = [at |-> "updated", on |-> i]
  /\ UNCHANGED <<stores, reader, mq, compensation>>

UpdateGoes(from, to) == update.at = from /\ update' = [update EXCEPT !.at = to]

InvalidateLocal ==
  /\ UpdateGoes("updated", "deleting")
  /\ localCache' = [localCache EXCEPT ![update.on] = Absent]
  /\ UNCHANGED <<row, redis, reader, mq, compensation>>

\* Mutant: the update refreshes Redis with the new shop.
RefreshRedis ==
  /\ UpdateGoes("deleting", "committing")
  /\ redis' = row + 1
  /\ UNCHANGED <<row, localCache, reader, mq, compensation>>

DeleteRedis ==
  /\ UpdateGoes("deleting", "committing")
  /\ redis' = Absent
  /\ UNCHANGED <<row, localCache, reader, mq, compensation>>

DeleteThrows ==
  /\ Fault("delete")
  /\ UpdateGoes("deleting", "sending")
  /\ redis' \in {redis, Absent}
  /\ UNCHANGED <<row, localCache, reader, mq, compensation>>

\* The message goes out before the commit; a failing send is only logged.
SendCompensation ==
  /\ UpdateGoes("sending", "committing")
  /\ \/ mq' = mq \cup {row + 1}
     \/ Fault("send") /\ UNCHANGED mq
  /\ UNCHANGED <<stores, reader, compensation>>

CommitUpdate ==
  /\ update.at = "committing"
  /\ row' = row + 1
  /\ update' = NoUpdate
  /\ UNCHANGED <<redis, localCache, reader, mq, compensation>>

\* refreshGeoAfterWrite or the commit throws, or the process dies.
AbortUpdate ==
  /\ Fault("abort")
  /\ update.at # "idle"
  /\ update' = NoUpdate
  /\ UNCHANGED <<stores, reader, mq, compensation>>

-----------------------------------------------------------------------------
(* CacheDeleteCompensationConsumer: one instance of the group gets the     *)
(* message, invalidates its own Caffeine and deletes in Redis.             *)

Receive(i, n) ==
  /\ compensation[i] = 0 /\ n \in mq
  /\ compensation' = [compensation EXCEPT ![i] = n]
  /\ localCache' = [localCache EXCEPT ![i] = Absent]
  /\ UNCHANGED <<row, redis, reader, update, mq>>

\* Mutant: the message carries the shop, and the listener writes it.
CompensateWithShop(i) ==
  /\ compensation[i] # 0
  /\ redis' = compensation[i]
  /\ mq' = mq \ {compensation[i]}
  /\ compensation' = [compensation EXCEPT ![i] = 0]
  /\ UNCHANGED <<row, localCache, reader, update>>

Compensate(i) ==
  /\ compensation[i] # 0
  /\ redis' = Absent
  /\ mq' = mq \ {compensation[i]}
  /\ compensation' = [compensation EXCEPT ![i] = 0]
  /\ UNCHANGED <<row, localCache, reader, update>>

\* The exception leaves the message in the broker; the delete may have run.
CompensationThrows(i) ==
  /\ Fault("delete")
  /\ compensation[i] # 0
  /\ redis' \in {redis, Absent}
  /\ compensation' = [compensation EXCEPT ![i] = 0]
  /\ UNCHANGED <<row, localCache, reader, update, mq>>

-----------------------------------------------------------------------------

\* Mutant: shops are cached without a TTL, only the empty string has one.
BlankExpires ==
  /\ redis = 0
  /\ redis' = Absent
  /\ UNCHANGED <<row, localCache, reader, update, mq, compensation>>

RedisExpires ==
  /\ redis # Absent
  /\ redis' = Absent
  /\ UNCHANGED <<row, localCache, reader, update, mq, compensation>>

LocalExpires(i) ==
  /\ localCache[i] # Absent
  /\ localCache' = [localCache EXCEPT ![i] = Absent]
  /\ UNCHANGED <<row, redis, reader, update, mq, compensation>>

Query(r) == ReadRedis(r) \/ LoadRow(r) \/ FillRedis(r) \/ FillLocal(r)

UpdateStep == InvalidateLocal \/ DeleteRedis \/ SendCompensation \/ CommitUpdate

Next ==
  \/ \E r \in Readers : MissLocal(r) \/ Query(r) \/ QueryThrows(r)
  \/ SaveShop
  \/ \E i \in Instances : UpdateRow(i) \/ LocalExpires(i)
  \/ UpdateStep \/ DeleteThrows \/ AbortUpdate
  \/ \E i \in Instances : \/ \E n \in mq : Receive(i, n)
                          \/ Compensate(i) \/ CompensationThrows(i)
  \/ RedisExpires

Spec == Init /\ [][Next]_vars

\* A query and an update that have started go on, and TTLs end.
Fairness ==
  /\ \A r \in Readers : WF_vars(Query(r))
  /\ WF_vars(UpdateStep)
  /\ WF_vars(RedisExpires)
  /\ \A i \in Instances : WF_vars(LocalExpires(i))

FairSpec == Spec /\ Fairness

-----------------------------------------------------------------------------

(***************************************************************************)
(* The caches and the queries only ever hold a shop that MySQL has         *)
(* committed, also when an update rolls back after its deletes: nothing    *)
(* but a query's own read of MySQL is put in a cache                       *)
(* (deleteCacheAfterDbUpdate, CacheDeleteCompensationConsumer).            *)
(***************************************************************************)
CommittedOnly ==
  /\ redis # Absent => redis <= row
  /\ \A i \in Instances : localCache[i] # Absent => localCache[i] <= row
  /\ \A r \in Readers : reader[r].shop <= row

Fresh(n) == redis \in {Absent, n} /\ \A i \in Instances : localCache[i] \in {Absent, n}

(***************************************************************************)
(* Once the shop stays as it is, every copy of an older one, and the empty *)
(* string cached before it was saved, leaves both levels on every          *)
(* instance, with failing deletes and lost compensation messages: the TTL  *)
(* is the last resort that set and CacheDeleteCompensationProducer name.   *)
(***************************************************************************)
CachesConverge == \A n \in Versions : <>[](row = n) => <>[]Fresh(n)

\* Both levels, and the queries about to fill them, agree with MySQL.
Coherent ==
  /\ Fresh(row)
  /\ \A r \in Readers : reader[r].at \in {"fill", "keep"} => reader[r].shop = row

(***************************************************************************)
(* ... and does not come back: caches and queries that agree with MySQL    *)
(* disagree again only when a shop is committed.  An update that has not   *)
(* committed, its deletes, its rollback and the compensation messages of   *)
(* earlier ones do not part them.                                          *)
(***************************************************************************)
OnlyCommitsStale == [][Coherent => Coherent' \/ row' # row]_vars

(***************************************************************************)
(* The caches are deleted after the database update has taken effect       *)
(* (README, deleteCacheAfterDbUpdate): no query that misses both levels    *)
(* reads the old shop when the deletes are done, to put it back.           *)
(***************************************************************************)
DeletedAfterCommit ==
  [][\A r \in Readers : LoadRow(r) => update.at # "committing"]_vars
=============================================================================
