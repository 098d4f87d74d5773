# Verification of MerchantFlow

TLA+ models of MerchantFlow (a Spring Boot shop-review and flash-sale service
over MySQL, Redis and RocketMQ), the TLC runs that check them on small
instances, and TLAPS proofs of what matters most.  Paths below are relative to
`src/`; `J` stands for `src/main/java/com/hmdp`.

## 1. Inventory

| Component | State | Operations | Interacts with | Correct when |
|---|---|---|---|---|
| Seckill orders (`J/service/impl/VoucherOrderServiceImpl.java`, `J/mq/SeckillOrderConsumer.java`, `J/task/VoucherOrderTimeoutTask.java`, `seckill.lua`, `seckill-rollback.lua`) | `tb_seckill_voucher.stock`, `tb_voucher_order.status`, Redis `seckill:stock:*` and `seckill:order:*`, broker topic, Redisson `lock:order:*` | seckill, consume, pay, cancel, time out | everything below writes the same Redis keys | no unit oversold or lost, one order per user and voucher, an admitted user is served, orders settle |
| Voucher publication (`J/service/impl/VoucherServiceImpl.java`) | voucher rows, `seckill:stock:*` | addSeckillVoucher | seckill | nothing is sold before the rows are there |
| Redis reconciliation (`J/task/RedisDataReconcileTask.java`) | `lock:merchantflow:redis-reconcile`, `seckill:*`, `shop:geo:*`, shop type list | startup and periodic reconcile | seckill, GEO | only orphans are repaired, one instance at a time, Redis returns to MySQL's stock |
| Shop cache (`J/utils/CacheClient.java`, `J/service/impl/ShopServiceImpl.java`, `J/mq/CacheDeleteCompensation*.java`) | `cache:shop:*` in Redis, Caffeine per instance, compensation topic | query, update, compensation | MySQL, broker | a stale value leaves the caches |
| Shop GEO index (`J/service/impl/ShopServiceImpl.java`) | `shop:geo:{type}` | save, update, reconcile | MySQL | the set of a type lists its shops |
| Shop types (`J/service/impl/ShopTypeServiceImpl.java`) | one Redis list | query | reconcile task | read-only data |
| Locks (`J/utils/SimpleRedisLock.java`, `unlock.lua`, the mutex of `CacheClient`) | one key per lock | tryLock, unlock | cache rebuild, reconcile | one holder; unlock never frees another's lock |
| Ids (`J/utils/RedisIdWorker.java`) | `icr:order:{day}` | nextId | seckill | distinct |
| Rate limit (`J/aspect/RateLimitAspect.java`) | a counter with a TTL | around | seckill, login | at most twice `max` calls in a window's time; nobody refused without cause |
| AK/SK (`J/aspect/AkSkAuthAspect.java`) | `aksk:nonce:*` | validate | controllers | a nonce is accepted once |
| Login and session (`J/service/impl/UserServiceImpl.java`, `J/utils/RefreshTokenInterceptor.java`) | `login:token:*`, a ThreadLocal | login, logout, every request | all controllers | no use after logout, no leak between requests |
| Sign-in (`J/service/impl/UserServiceImpl.java`) | a bitmap per user and month | sign, signCount | | the count is the run of days up to today |
| Blogs, likes, feed (`J/service/impl/BlogServiceImpl.java`) | `blog:liked:*`, `feed:*`, `liked` column | likeBlog, saveBlog, queryBlogOfFollow | follow | counter and set part only by a broken call or a race; scrolling skips no blog |
| Follow (`J/service/impl/FollowServiceImpl.java`) | `tb_follow`, `follows:*` | follow, unfollow | feed | set equals rows |
| Comments (`J/service/impl/BlogCommentsServiceImpl.java`) | rows, `comments` and `liked` columns, a Redis set | create, delete, like | blogs | counters and rows, counters and sets part only by a broken call, a race or a repeated deletion |
| AI chat (`J/service/impl/ChatServiceImpl.java`, `J/config/ChatConfig.java`) | emitter, active call, closed flag, bounded executor, `chat:*` | chat, history, clear | model service | a closed stream stops its call, every chat ends, the session keeps what was shown |
| Web pages (`frontend/js/common.js`, `frontend/info.html`, `frontend/shop-detail.html`) | a page's own data | format a price, scroll the feed, order | every controller | a price reads back; the feed skips no blog; a promised order lands |

Where the difficulty lies: the request thread, the consumer threads, the
timeout task and the reconcile task of several instances meet on the same rows
and keys; Redis, MySQL and the broker have no common transaction, so every pair
of writes can be cut by a failure; delivery is at least once; locks have leases.
The list of these places, line by line, is `hazards` in `PROJECT.json`.

## 2. Modules

| Module | Composes | Questions |
|---|---|---|
| `VoucherLedger` | | what MySQL promises of stock and orders (abstract) |
| `SeckillOrder` | extends `VoucherLedger` | the order flow under faults; implements the ledger |
| `RedisReconcile` | extends `SeckillOrder` with the task | orphan repair against reservations in flight, stock overwrite, lock expiry |
| `ShopCache` | database, Redis, instances, broker | stale reads, compensation, TTL as last resort |
| `ShopGeo` | writes of shops and the task's rebuild | which of two rebuilds from which list wins, and does it matter in the end |
| `ChatReply` | | what a client and a session see of a chat (abstract) |
| `ChatStream` | pool, model call, emitter, callbacks, session | cancellation races, limits; implements `ChatReply` |
| `IdWorker`, `RateLimit`, `SignIn`, `BlogCommunity`, `FeedScroll`, `PriceText` | side by side in `MCServices` | six small services without shared state |

Each `MC*` module holds the constants of an instance for TLC; each `*Proofs`
module the theorems about the module it is named after, `SeckillClaimProofs` a
second part of those about `SeckillOrder`, `ServiceProofs` those about `IdWorker`,
`RateLimit` and `BlogCommunity`, and `ReadingProofs` those about `SignIn`,
`PriceText` and `FeedScroll`.  `Positional` is the number a row of digits stands
for, which `SignIn` and `PriceText` share.  `RECURSIVE` is not used: recursion is
written as recursive functions, which can be proved about.

## 3. The order flow

### 3.1 `VoucherLedger`

The two columns that count: `stock` and `order` (the status of each row, "none"
without a row).  `Create`, `Pay` and `Cancel` are what a committed transaction
does to both.  It states `StockConserved` and `OneOrderPerUser` and says nothing
of Redis, locks, messages or crashes.

### 3.2 `SeckillOrder`

Extends the ledger with everything in front of it.

| Variable | In the program |
|---|---|
| `sale` | the voucher's rows in MySQL and its begin and end time |
| `redisStock`, `redisMembers` | `seckill:stock:{id}`, `seckill:order:{id}` |
| `request[o]` | where the HTTP request that drew order id `o` stands |
| `mq` | ids of messages the broker holds |
| `userLock[u]` | `lock:order:{u}`, with its lease |
| `worker[t]` | what consumer thread `t` does, with which message, and whether its transaction has an insert to commit |
| `cancel[o]` | where the cancel transaction of `o` stands |
| `rowLock[v]` | the transaction that holds the row of `v` in `tb_seckill_voucher` |
| `stock`, `order` | the committed rows |

| Actions | Code |
|---|---|
| `AddSeckillVoucher`, `CommitSeckillVoucher`, `TimePasses` | publication: Redis inside the transaction, rows when it commits; begin and end time |
| `ValidateSeckillVoucher`, `Reserve`/`Refuse`, `Send`/`SendThrows`, `RollbackSeckillReservation` | `seckillVoucher`, one action per call to MySQL, Redis or the broker |
| `Deliver`, `CountOrders`, `TakeStock`, `SaveOrder`, `Unlock`, `CommitOrder`, `Ack`, `FailOrder` | `onMessage`, `handleVoucherOrder`, `createVoucherOrder`: tryLock, count, conditional decrement, insert, `finally` unlock, then the commit and the acknowledgement; any exception rolls back and leaves the message |
| `PayOrder` | the conditional update of `payOrder` |
| `MarkCanceled`, `RestoreMySqlStock`, `RestoreRedis`, `CommitCancel`, `RestoreRedisThrows`, `AbortCancel` | `cancelOrder` and `cancelTimeoutOrder`, one transaction with a Redis call inside |
| `CrashRequest`, `CrashWorker`, `LoseMessage`, `LeaseEnds` | the environment |

MySQL is seen through what is committed.  An update takes the row lock and
reads the committed value; the effects of a transaction appear in one step, at
its commit.  The count of `createVoucherOrder` is a snapshot read and takes no
lock.  The insert checks the primary key and, when `UniqueKey` holds, the unique
key of `docker/mysql/init/01_hmdp.sql` (the schema in
`src/main/resources/db/hmdp.sql` has none).  A consumer that holds the voucher's
row and inserts an id whose cancel waits for that row is a deadlock InnoDB breaks
by rolling either back (`Deadlocked`).

The constant `Faults` says what may go wrong: a send that throws with or without
the message stored, a Redis call that throws having run or not, a database
failure, a crash, a lease that lapses under its holder, a lost message.

### 3.3 Runs

`seckill_faults` has two requests of one user for one unit (a second click, a
retry, a purchase after a cancel), which is what every one-order question needs,
and two consumer threads, which make redelivery concurrent.  `seckill_settles` has
three users with a request each for two units.  More buyers than units make them
compete, and the second unit is what lets a redelivered message hold the
voucher's row while the order the first delivery created is being cancelled:
only then does InnoDB find a deadlock and roll one of the two back (`Deadlocked`,
`AbortCancel`).  `seckill_two_vouchers` has two requests of one user for two
vouchers.  No counter needs a bound: requests run once and their number bounds
everything else.

| Run | Faults | Checks | Shows |
|---|---|---|---|
| `seckill_faults` | all | `OneOrderPerUser`, `StockConserved`, `RedisConserved`, `LedgerSpec` | with every fault at once no user gets two orders, both stores conserve their units and the flow implements the ledger |
| `seckill_settles` | none, but for deadlocks | `AdmissionHonoured`, `RedisWithinMySql`, `MessagesDrain`, `OrdersSettle` | whoever Redis admits gets an order or already has one, although Redis is restored before a cancel commits; Redis never offers more than MySQL has, cancels under way aside; nothing waits for ever; the broker's messages are all gone again and again, and so are the unpaid orders, though deadlocks make consumers and cancels fail and try again |
| `seckill_two_vouchers` | none | `PromisedOrderLands` violated | the second of two vouchers a user buys at once is dropped at `tryLock` |

The last one is a finding; `findings` in `PROJECT.json` quotes the line it and
`reconcile_in_flight`, `cache_before_commit` and `rate_window` contradict.
`PromisedOrderLands` fails in a second way, with the same run and one voucher
(`VoucherOf <- OneVoucherOf` in its cfg): buy, cancel, buy again.  `cancelOrder`
takes the user out of the one-order set, so the second purchase is admitted and
answered with `ok(orderId)`, but the count of `createVoucherOrder` includes
canceled rows and the consumer drops the message.

`RedisWithinMySql` also holds when messages are lost and locks lapse (theorem
`RedisStaysWithin`), not when a call's answer is lost: a rollback of a
reservation whose message did arrive puts a sold unit on sale.  Without the
unique key (`UniqueKey = FALSE` in `seckill_faults.cfg`) `OneOrderPerUser` fails:
the user's lock is released before the transaction commits.

Fairness (`FairSpec`): a request that has validated runs on; the broker offers a
message as long as it holds it; a consumer thread runs its handler (`TakeStock`
waits for a row, so it has its own weak fairness); the timeout task cancels what
stays unpaid; a cancel transaction runs on; a lease without a live holder ends.
Nothing obliges a user to pay or to cancel.  All of it is weak fairness: each of
these steps is retried or scheduled for ever (`@Scheduled`, redelivery).  The
liveness run has no faults, because with a fault that may recur for ever
nothing is promised; the retries the code needs without any fault are part of it:
a consumer whose insert meets a duplicate key or is rolled back by a deadlock,
and a cancel that is.

Mutants: an operator whose comment starts with "Mutant" is a variation of the
definition after it, used to see that a property depends on the code.  No
specification refers to them.

### 3.4 Proofs

The first part of `SeckillOrderProofs` is about the ledger alone: it conserves
stock (`LedgerConserves`) and, with the unique key, holds one order per user and
voucher (`LedgerOneOrder`), from three lemmas on how `Live` grows and shrinks.

The second is about the flow: for any finite set of users and orders, any
vouchers, threads, stock, and any subset of the faults,

- `Invariance`: `IInv` is inductive.  `TypeOK` alone is not: the decrement at
  `CommitOrder` needs the unit that was there at `TakeStock`.  `IInv` adds who
  holds a row and what that guarantees (`HolderInv`, `WriterInv`: a worker with
  an insert pending holds its voucher's row, the committed stock is positive, and
  no order of the same buyer exists), what a cancel transaction relies on
  (`CancelInv`: its order stays unpaid), that row locks have owners (`RowInv`),
  and that a voucher without a Redis stock has no members (`KeyInv`);
- `TypeCorrect`: type correctness, hence a stock column that is never negative;
- `ImplementsLedger`: the flow implements `LedgerSpec`; each step is a `Create`,
  a `Pay`, a `Cancel` or leaves the ledger alone;
- `Conserves`, `OneOrder`: the ledger's theorems carried over, `OneOrder` under
  `ASSUME UniqueKey`;
- `RedisConserves`: Redis conserves its units, one step per action that writes
  Redis.

Assumptions on the constants are those named in the two modules; TLC evaluates
them in every run.

`SeckillClaimProofs` relates the two stores.  An id *claims* a unit from the
reservation to the end of its order or of its message.  `ClaimInv` says that
whoever claims is a member of the voucher's set in Redis and that no two ids of
a user claim at once; counting the claims gives `RedisStaysWithin`, as long as
no call's answer is lost (`Calm`: lost messages and lapsing locks only).
`AdmitInv` adds who holds the user's lock and what becomes of each admitted
message; it gives `Admission`, without faults and for users who ask for one
voucher each, which is what `seckill_two_vouchers` shows to be necessary.

Only model-checked: `MessagesDrain` and `OrdersSettle` (TLAPS 1.4.5 reasons about
neither ENABLED nor fairness).

## 4. Reconciliation

`RedisReconcile` extends `SeckillOrder`: every action of the order flow stays as
it is and may happen between any two steps of a run.  `run[r]` is what a runner
(a thread of some instance in `RedisDataReconcileTask.reconcile`) is doing, with
the local variables of `reconcileSeckillState` and `repairOrphanReservations`
that outlive a call: the vouchers still to do, the stock listed at the start,
the members read, the orphan at hand.  `reconcileLock` is the Redis key.

| Actions | Code |
|---|---|
| `StartRun`, `LockExpires`, `EndRun` | `setIfAbsent` with its TTL; `finally { delete }`, which compares no token |
| `ListVouchers` | `now` and `list()`, read once a run, with the stock column |
| `ReadMembers`, `CountMember`, `RemoveOrphan`, `ReturnUnit` | `members`, the count of rows, `SREM`, `INCR`, four calls |
| `CompareStock`, `WriteStock` | `get`, then `set` of the listed stock while the sale is open |
| `FailRun`, `CrashRun` | an exception of any call, which skips to `finally`; the process dies |

The GEO sets (`ShopGeo`) and the type list a run rebuilds before the vouchers
touch other data; here they are the time between `StartRun` and `ListVouchers`.  The branch
for a member that is not a number (`RedisDataReconcileTask:232`) cannot be
reached: only user ids are written.
`RunFaults` says whether calls throw, processes die, and whether a run may
outlive the lock.

| Run | Instance | Checks | Shows |
|---|---|---|---|
| `reconcile_ledger` | two users, two runners, failing calls, deaths | `TypeOK`, `LedgerSpec`, `OnlyLapsesOverlap`, `OnlyOrdersPartStocks` | runs overlap only once a lock has lapsed under its runner, failures and deaths do not make them; nothing the task writes to Redis, even when it puts units of orders in flight back on sale, reaches MySQL's ledger; stocks in step part only with an order |
| `reconcile_repairs` | one request, lost answers, crashes, failing rollbacks | `OrphansRepaired`, `StocksConverge` | a reservation left behind is given back in the end, sale over or not; while the sale is open both stocks meet again once requests stop |
| `reconcile_in_flight` | one request, no fault | `OnlyOrphansReturned` violated | a run counts no row, the order commits, the run takes the buyer's mark and puts the unit back on sale |

One unit, one voucher and one or two requests are enough for these questions:
each is about one reservation against one run, and the second user of
`reconcile_ledger` is the one that buys the unit a run gave back.  Two runners
suffice for `OnlyLapsesOverlap`, which speaks of pairs.  A run that outlives its
lock (`"slow"`) is not among the faults of the run: nothing renews the lock or compares
its token, so two runners then work side by side, and the states pass seven
million.  With one request (`OrderIds = {o1}`, `Users = {u1}`,
`RunFaults = {"throw", "die", "slow"}` in `reconcile_ledger.cfg`) there are 391,242
and all four properties hold; the theorems cover it without a bound.

Fairness: the flow's own, a run that starts again and again (`@Scheduled`), goes
on once started, and a lock that expires.  `reconcile_repairs` has no
`RunFaults`: a run that fails every time repairs nothing.

One difference between code and configuration has no model: the task's delay is
read from `hmdp.cache.reconcile-delay-ms`, `application.yaml` sets
`reconcile.delay-ms`, so the default applies.

`RedisReconcileProofs` proves, for any number of runners and any faults, runs
that overlap included, that the inductive invariant of `SeckillOrderProofs`
survives the task.  `RInv` adds that a runner knows the voucher it works on and,
before it writes, that the listed stock is a number.  Hence
`ReconcileTypeCorrect` and `ReconcileImplementsLedger`, and what the ledger promises
with it: `ReconcileConserves` and, with the unique key, `ReconcileOneOrder`.
`LapsesAloneOverlap`, for any faults: runs that do not overlap, each with the lock in
its name, are made to overlap by nothing but the lock's end under its runner.
`RedisConserved` does not survive: giving back the unit of an order in flight is
the finding above.

`OrdersAlonePartStocks` is the stable half of `StocksConverge`, for overlapping runs and
any faults.  In an `InStep` state both stocks agree, members have orders, and no request,
message, transaction or run has something left to write (`FlowRests`,
`RunsRest`); only reserving or canceling an order of the voucher ends it.  The proof
rests on order rows never going away (`OrdersStay`): what the consumer or a run has
counted still counts when it acts on it.

## 5. The shop cache

`ShopCache` is one shop on several instances.  The shop is abstracted to the
number of its last update; 0 is "not saved" and, in Redis, the cached empty
string.  `redis` and `localCache[i]` are the two levels, `reader[r]` a query with
the shop it holds, `update` the update transaction, `mq` and `compensation[i]`
the compensation messages and their listener.

| Actions | Code |
|---|---|
| `MissLocal`, `ReadRedis`, `LoadRow`, `FillRedis`, `FillLocal`, `QueryThrows` | `CacheClient.queryWithTwoLevelCache`, one action per call |
| `SaveShop` | `ShopServiceImpl.save`, which commits at once and deletes nothing |
| `UpdateRow`, `InvalidateLocal`, `DeleteRedis`/`DeleteThrows`, `SendCompensation`, `CommitUpdate`, `AbortUpdate` | `ShopServiceImpl.update` and `deleteCacheAfterDbUpdate`: the deletes, and the message, come before the commit |
| `Receive`, `Compensate`, `CompensationThrows` | `CacheDeleteCompensationConsumer`: one instance of the group gets a message |
| `RedisExpires`, `LocalExpires` | the TTLs, and Caffeine's size limit: at any time |

Updates hold the row's lock until they commit, so there is one at a time.  A
message is identified by the update that sent it: a rolled-back update and the
next may share one, which only drops a delete an expiry can replace.

| Run | Instance | Checks | Shows |
|---|---|---|---|
| `cache_converges` | two instances with a reader each, every fault, fairness | `TypeOK`, `CommittedOnly`, `CachesConverge`, `OnlyCommitsStale` | whatever is rolled back or repeated, a cache holds committed shops only; every stale copy and every stale empty string goes in the end, and only a commit brings one back |
| `cache_before_commit` | one instance, one reader, no fault | `DeletedAfterCommit` violated | a query after the deletes reads the old shop and puts it back |

`MaxVersion` (3) bounds the updates to two after the save: a reader can hold a
shop two updates old, and an aborted update may repeat without bound.  Two
instances tell the one that updates, or gets the message, from the one that does
not.

Fairness: a query and an update that have started go on, and TTLs end.  Nothing
is asked of the broker: convergence rests on the TTL alone, the last resort the
comments in `set` and `CacheDeleteCompensationProducer` name.  A fault may recur
for ever; a query that throws ends.  Nothing keeps two queries that miss from
rebuilding the entry at once: the mutex the project's README names is in
`querywithlogicalExpire`, which has no caller.

`ShopCacheProofs` proves `CacheTypeCorrect` and `OnlyCommitted` for any number of
instances, readers and updates.  The invariant adds that an update under way has
room for its number and that a query about to fill Caffeine holds a saved shop.
`CommitsAloneStale` is the stable half of convergence: in a `Coherent` state (caches,
queries and the row agree), no expiry, query, rollback or message,
repeated or lost, makes a copy stale; only a step that changes the row does.

Only model-checked: that such a state is reached (`CachesConverge`), and
`OrphansRepaired` and `StocksConverge` of the reconciliation, liveness all three.

## 6. The GEO sets

`ShopGeo`: `rows` is what is committed of `tb_shop`, `geo[t]` the members of
`shop:geo:{t}` with their places, `writer[w]` a save or an update with the list of
rows its transaction sees, `run[r]` the task with the one list it read.

| Actions | Code |
|---|---|
| `BeginUpdate`, `UpdateById`, `DeleteOld`, `DeleteNew`, `Add`, `Commit`, `Abort` | `ShopServiceImpl.update` and `refreshGeoAfterWrite`: a transaction that deletes the sets of the old and the new type and writes the new one from its own view, before it commits |
| `Save`, `DeleteNew`, `List`, `Add` | `ShopServiceImpl.save`: the insert commits at once, the list is read later |
| `StartRun`, `DeleteType`, `AddType`, `RunFails` | `rebuildShopGeo`, `DEL` and `GEOADD` per type |

Any two of them can interleave, so a set can show a move that was rolled back, a
place a shop has left, or nothing.  `geo_converges` (two shops, two types, one of
them with two places, two writers, two writes, one failure, one runner) shows
that the task mends all of it: `GeoConverges`, in the end no set disagrees with
the rows, and `GeoRefilled`, none that has shops to show stays missing.
`OnlyWritesUnsettle`: sets that are right, with no older list in the hands of a
write or a run, stay right until the next write.  Two
writes let a move and a save, or two moves of one shop, meet; the bound on the
writes is what "in the end" means.  `rows` starts with any content.
`Unlocated` is empty: `x` and `y` are NOT NULL in both schemas, and the code for
shops without coordinates cannot run.

Fairness: a write that has started ends; runs start again and again
(`@Scheduled`) and go on.  The failures are bounded, since a task that always
fails mends nothing.

`ShopGeoProofs` proves `GeoTypeCorrect` for any shops, types, writers and runners:
no set lists a shop under a type, or at a place of a type, that it has never had.
`WritesAloneUnsettle` proves `OnlyWritesUnsettle` for them, overlapping and broken runs
included.  That the sets get there (`GeoConverges`, `GeoRefilled`) is liveness and only
model-checked.

## 7. The AI chat

`ChatReply` says what a chat promises: the client is shown a growing prefix of one
answer and then one end; an answer kept in the session was shown whole; who is
told `[DONE]` will find it there.  `ChatStream` is the code.

| Variables and actions | Code |
|---|---|
| `threads`, `queue`, `Chat`, `Take` | the executor of `ChatConfig`, and `chat` with its `RejectedExecutionException` |
| `Start`, `AnnounceCall`, `ExecuteOrCancel`, `Respond`, `ReadText`, `ReadEnd`, `CallThrows`, `SaveAnswer`, `Finish`, `Fail` | the task of `chat`, `doChatLoop` and `parseStreamResponse`: limits, `streamClosed`, `activeCall` |
| `emitter`, `callbacks`, `Disconnect`, `EmitterEnds` | Spring's `SseEmitter`: open until completed, timed out or failed; its callbacks run later, one after the other, on another thread |
| `CloseStream`, `TakeCall`, `CancelCall`, `ReturnFromClose` | `closeStream` in three steps: the flag, `getAndSet(null)`, `cancel` |

`chat_streams`: three chats for one thread and one place in the queue (one runs,
one waits, one is refused), one event and one character as limits with texts of
length one and two, so that each limit is met and passed, and a client that goes
away, an emitter that times out and a Redis that throws at any step.  Data without a
text, or that does not parse, counts as an event and says nothing: a text of
length zero.  With `Sizes = {0, 1, 2}` all properties hold too, over 1,255,946 states
instead of 862,090; the run leaves it to the theorems.

| Property | Shows |
|---|---|
| `NoOrphanCall` | no model call goes on behind a closed stream, however `closeStream` and `doChatLoop` interleave |
| `NobodyLeftWaiting` | when a task is over, so is its emitter: refusals, limits, failures included |
| `ImplementsReply` | the stream implements `ChatReply`, with the ending as the only mapped variable |
| `AnswerKept` | who has read `[DONE]` has the answer in the session, once and as shown |
| `ChatsEnd` | every accepted chat gives its thread back |

Fairness: the pool takes a waiting task and a task goes on.  Nothing is asked of
the model or of the client: a model that never answers is ended by the call
timeout of the HTTP client (`ChatConfig`), which is a step of the thread (`CallThrows`).

`ChatStreamProofs` proves `ChatTypeCorrect` (pool bounds and limits),
`ClosedCallsCanceled` and `ClientsAnswered` for any chats, bounds and faults.  The
invariant relates the flag, the reference and the position of either thread: a
call that is announced is either still in the reference, or taken by a closer
that is about to cancel it, or seen canceled by the thread.  `ImplementsReplySpec` is
the refinement, for any instance: `Maps` names the four things a step can do to
the abstract chat, `ToldInv` says that an event sent is the end of its emitter,
that an answer is stored at most once, and that a task about to say `[DONE]` has
stored what was shown; `QueueInv`, that the queue holds waiting tasks, each once.
`AnswersKept` is proved of `ChatReply` alone (`ReplyKeeps`) and carried over by the
refinement.
`ChatsEnd` is only model-checked.

## 8. Small services

`MCServices` is the disjoint union of six models; `service` says which of them
runs.  One run, `services`, checks them side by side: no step of one can disturb
another.  `rate_window` runs `RateLimit` alone, for the claim it breaks.  The clocks are bounded, so behaviours stop
(`CHECK_DEADLOCK FALSE`).

| Model | Code | Bounds | Properties |
|---|---|---|---|
| `IdWorker` | `RedisIdWorker.nextId`: clock, `INCR` of the day, shift and or | three calls, one on a clock a second ahead, days of two seconds | `DistinctIds` |
| `RateLimit` | the Lua script of `RateLimitAspect` | limit two, windows of three seconds, more than two windows | `TwiceTheLimitAtMost`, `RefusedOnlyWhenSpent`; `LimitInWindow` in `rate_window` |
| `SignIn` | `sign`, `signCount`: the bitmap, `BITFIELD u(day) 0`, the shifts | two months of five days | `CountsTheRun` |
| `BlogCommunity` | `likeBlog`, `createComment`, `deleteComment`, `likeComment`, call by call, each of which may throw | two users, two requests under way, two comments; six requests sent, one call that throws | `CommunityTypeOK`, `OnlyBreaksAndRacesUnbalance`, `OnlyBreaksAndRacesUnbalanceComments`, `CommentsNotOvercounted`, `OnlyRepeatedDeletesMiscount` |
| `FeedScroll` | the push of `saveBlog`, `queryBlogOfFollow`, the queries and the list of `info.html` | three blogs, two scores, pages of two, two queries under way, four sent | `NothingSkipped` |
| `PriceText` | `formatPrice` of `common.js`, both ways | prices up to four digits | `ShownPriceReadsBack` |

`rate_window` is a finding: `README.md:27` and `README.md:88` call the limit a sliding
window, which lets no more than `max` requests through in any window's time.  The
script counts in fixed windows that begin with their first request: with a limit
of two per three seconds, four get through within three seconds.
`TwiceTheLimitAtMost` is what the code does keep.

Six requests are one more than the longest story (create a comment, delete it
twice at once, or like it and try twice to take that back), two under way are
what a race needs.  Users, requests and comments are not told apart, nor are the
queries of a page (`Interchanged`).  The scores of blogs meet because there are
fewer of them than blogs.

What the code does not keep, and the properties therefore say:

- `likeBlog` reads the score and then writes the count and the set without a
  transaction.  A `ZADD` or `ZREM` that throws after the update, or two clicks of
  one user that both read before one writes, part the two for good, and the
  user's next click is decided by the set.  `OnlyBreaksAndRacesUnbalance` says
  that nothing else does.  `likeComment`, set first and count second, has the same
  two ways and a third, `deleteComment`, which empties the set before it commits.
- `removeById` of a comment that another request has just removed is not looked
  at: the author's second click takes the count down twice.  Hence
  `CommentsNotOvercounted` is an inequality, and `OnlyRepeatedDeletesMiscount` names
  the only way to the other side.
- `tb_blog.comments` defaults to NULL, and the code never sets it: for a new blog it
  is NULL, and NULL + 1 is NULL.  The properties about it speak of blogs that have
  a count.
- The feed shows blogs twice: the page asks without waiting, `isReachBottom` is
  reset by the next scroll event, and answers are appended as they come.  An
  answer of a list that has been opened anew since moves the page on past blogs
  it never showed, whence `params.current`.  `offset` is counted within one page
  only, so four or more blogs of one score hold the page: it asks for the same two for
  ever.  `NothingSkipped` is what is left: as
  long as the list is current, what was there at the top is shown or still ahead.
- `PriceText`: a text with one decimal becomes a tenth of its price ("1.5" is 15
  cents).  `formatPrice` compares with the length of its empty result, so its
  branch for one decimal (`common.js:66`) is never taken.  No page passes a text.

`ServiceProofs` proves `IdsDistinct` for any calls and clocks, as long as a day's
calls fit into the counter's bits.  Its invariant says that a day's counter is
the number of calls that counted there, with different numbers.
For `BlogCommunity`, with any users, requests, comments, calls that throw and bounds, it
proves `CommunityTypeCorrect` (with `WorkInv`: a request is some user's and works on a
comment that has been created), `NeverOvercounted` and, step by step,
`LikesPartByBreaksAndRaces`, `CommentLikesPartByBreaksAndRaces` and
`MiscountsAreRepeatedDeletes`.  The proofs count requests between two writes: a
step moves one request into or out of such a set, and one user into or out of
the other side of the equation, or it is one of the named exceptions.

For `RateLimit` it proves, for any limit and window, `LimitTwiceAtMost` and
`RefusalsAreSpent`.  The invariant says that the windows let through do not
overlap and that a window holds one request for each value of its counter
(`WindowsInv`), and that a counter alive has counted its own window's requests
(`SpentInv`); any span of a window's length meets two windows at most.

`ReadingProofs` is about what a client reads.

- `SignInRunCounted` and `PricesReadBack`: for months, bitmaps and prices of any
  length.  The induction theorems of the library have an operator for a
  parameter, which the provers cannot instantiate; `Inductive` and `Complete` say
  the same of a set, from its least element outside (`WFMin` with
  `NatLessThanWellFounded`).  With them the recursive functions are shown to
  satisfy their own equations (`ValueUpTo`, `LowOnesDef`), and from these follows
  what one more bit does to the low ones of a number (`LowOnesOfNext`) and that a
  leading zero does not change it (`LeadingZero`).
- `ScrollSkipsNothing`, for any blogs, scores and queries.  The invariant says of
  every current answer, and of the page, what `NothingSkipped` says of the page: a blog
  that was there at the top is shown, on that answer's page, or beyond it.  Its
  lemmas say how `offset` moves over a page whose blogs may share a score.

## 9. Not modelled

- Uploads, thread snapshots, the fault laboratory, metrics, DTOs, mappers,
  container files: input and output without a protocol.
- The vendored scripts of `frontend/js` (Vue, Element) are third-party code; the k6
  scripts of `lab` send requests in a loop; the rest of `common.js` sets headers and
  redirects.  Nearly all lines of JavaScript in the repository are Vue's, nearly
  all of the program is Java, which is what these models are about.
- Authentication (login and session, AK/SK signatures) is outside their subject.
- `SimpleRedisLock`, `unlock.lua`, `querywithpassThrough`, `querywithlogicalExpire` and
  the rebuild mutex of `CacheClient` have no caller.
- Follow writes a row and then a set and never compares them again; `saveBlog`
  loses the pushes behind one that throws.  The hazards say so; there is no
  property that the code could keep.
- The shop type list has no writer.  Queries change nothing, those for orders,
  blogs, nearby shops and chat histories alike.  Chat sessions are keys that
  expire by themselves.
- The timeout task's `LIMIT 100`: each order is cancelled under its own fairness,
  so starvation by a batch of orders whose cancel always fails is not covered.
