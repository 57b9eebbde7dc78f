# Verification of api-scaffold

TLA+ models of the shop backend in `src/app` (FastAPI, SQLAlchemy on PostgreSQL,
Redis), model-checked with TLC, and proofs about them checked with TLAPS. What
makes this program hard is not any one handler but what happens between two of
its awaits: another request commits, the sweeper wakes, a lock is released, a
key expires. The models therefore keep the statements to PostgreSQL and the commands
to Redis apart and let everything else happen in between. The one exception is an
`UPDATE` that is its whole transaction: it takes effect in the same step as its
`COMMIT` (section 2, Orders, says why nothing is lost).

## 1. Inventory

| Component | State | Operations | What makes it correct |
|---|---|---|---|
| Orders and stock (`domains/store/service.py`, `data.py`, `models.py`, `router.py`) | rows `orders`, `order_items`, `products.stock`; Redis `payment:{id}` | create, pay, cancel, refund, ship, complete an order; create a product, correct its stock | no oversold or partial order; statuses follow the diagram of `OrderStatus`; each withdrawal returns its units once; a late payment never succeeds; a payment id pays one order |
| Expiry sweeper (`store/tasks.py`, `cancel_expired`) | the ids of the current round | scan, cancel one order, end of round, sleep, cancellation | overdue orders are cancelled, whatever else runs; a failed round does not end the task |
| Product cache (`store/cache.py`, `onshelf.py`, product routes) | Redis `store:product:{id}`, `store:products:ver`, pages per version, `{key}:lock` | read detail, read list, rebuild; create, update, sell, delist, relist | staleness only for reasons the design accepts; one rebuild at a time; a dead rebuilder does not block a key |
| Sessions (`domains/auth`: login, logout, tokens, passwords) | `users.password_hash`; Redis `auth:user:{id}:ver`, `jwt:blacklist:{jti}` | login, authenticated request, logout, change of password | a revoked token is never accepted again; an old password does not outlive its change |
| Rate limiter (`core/ratelimit.py`) | Redis `rate:{path}:{ip}` | INCR, EXPIRE | no client is locked out for good |
| Accounts (`domains/auth`: register, update_username; `seed.py`) | `users.username` and its unique index | register, rename, seed | one account per name; the answer tells what happened |
| Redis client (`core/redis.py`) | `_redis`, `_loop` | get, init, close | no command over a client of another event loop; none left open |
| Process (`main.py` lifespan, `core/metrics.py`, `core/request_id.py`, `core/exceptions.py`) | the expiry task, the metrics' counters | start, shutdown; the way of a request through the middleware | clean shutdown; every request counted once, with the status it got |
| Settings, logging, health checks, migrations, load test | - | - | not modelled, see section 9 |

How they interact. Every request passes CORS, metrics and the request id before
its route; routes authenticate with the session code, then call a service
function that runs one database session per request. Orders and the sweeper
share rows of `orders` and `products` and meet only at PostgreSQL row locks; the
sweeper calls the same `_restock_order_core` as cancel, refund and an overdue
payment. Every commit that changes a product is followed by deletions in Redis,
in a separate step that may be overtaken or lost. The lifespan starts and ends
the sweeper and owns the Redis client that both it and the requests use.

Hard behaviours: statements of two transactions interleave; row locks are taken
in the order of the lines of a basket, so transactions can deadlock; decisions
use a status loaded before other requests moved it; a check and the write it
protects are apart (user names, token versions, rate limits); a connection
breaks, or the process dies, between any two steps; keys and locks expire by
themselves; one exception ends a whole round of the sweeper; an exception takes
another way through the middleware than an answer.

## 2. Modules

| Module | Stands for |
|---|---|
| `StoreTypes` | data of the store: statuses, lines, baskets |
| `OrderBook` | abstract specification: every operation on orders and stock is atomic |
| `Orders` | the handlers and the sweeper as they run, one action per statement, command or commit |
| `OrdersInv` | inductive invariant of `Orders` |
| `Catalog` | cache and catalogue, one action per Redis command or SQL statement |
| `Admission` | abstract specification: one register says of every token whether it is good, logout and change of password are atomic |
| `Sessions` | login, tokens, logout, passwords, login limiter |
| `Names` | abstract specification: user names as a registry that decides at one moment |
| `Accounts` | register, update_username, create_admin over the unique index |
| `Server` | one process: lifespan, sweeper task, Redis client, middleware |
| `App` | `Server` and `Accounts` composed |
| `MCOrders`, `MCCatalog`, `MCSessions`, `MCApp` | instances for TLC |
| `OrderBookProofs`, `OrdersProofs`, `OrdersRefinement`, `OrdersAnswers`, `CatalogProofs`, `SessionsProofs`, `AccountsProofs`, `AppProofs` | section 5 |

`Orders` instantiates `OrderBook` (`Book == INSTANCE OrderBook`) under the identity
mapping on the committed rows; `Accounts` instantiates `Names` (`Registry`), with the
abstract state of a request computed from its place and outcome. `Sessions` instantiates
`Admission` (`Door`), where the life of a token is computed from blacklist, version and
`exp`, and the standing of a request from its place and from what it met on arrival.
`App` instantiates `Server` for the requests that are not runs of the seed script.
Operators whose comment starts with "Mutant" are not part of a specification. Each is a
plausible bug in one definition; putting it in that definition's place breaks the
property that `PROJECT.json` names beside it.

### Orders

`status`, `items`, `owner`, `rows`, `stock` are the committed rows. A
transaction that runs is described by the locks it holds (`orderLock`,
`stockLock`) and by `delta`, its uncommitted change of each stock row; the
new status of an order under restock is implied by where its handler stands.
Isolation is READ COMMITTED as PostgreSQL implements it: a conditional `UPDATE`
whose condition is false on the committed row (and the transaction's own
writes) matches nothing and returns at once (`DeductRefused`,
`TransitionRefused`, `UpdateRefused`); if it is true and another transaction
holds the row, the statement waits (the action is not enabled) and the condition
is evaluated again once the row is free.

| Actions | Code |
|---|---|
| `StartCreate`, `StartOrderOp`, `StartEdit`, `Respond` | the routes, `get_order`, the 404s, the end of the session |
| `Deduct`, `DeductRefused`, `SaveOrder`, `SaveViolatesUnique` | `create_order`: the loop, the commit, the unique constraint of `order_items` |
| `Dedup`, `Replay`, `CheckPayable` | `pay_order`: SET NX of the payment key, the GET of a key that was taken, the status and the deadline |
| `UpdateStatus`, `UpdateRefused`, `Reload` | the tail of `pay_order`, `ship_order`, `complete_order`: the conditional UPDATE with its COMMIT, the refusal, the read after the commit |
| `Transition`, `TransitionRefused`, `AddStock`, `AddStockOverflows`, `CommitRestock` | `_restock_order_core` |
| `WriteStock`, `CreateProduct` | `update_product`, `create_product` |
| `InvalidateDetail` | the deletions of detail keys after a commit |
| `Scan`, `SweepNext`, `SweepEnd` | `cancel_expired`, `order_expiry_loop` |
| `DeadlockVictim`, `Fault` | an exception in the middle of a request: deadlock detection, a broken connection, the death of the process |
| `TimePasses`, `PaymentKeyExpires` | the deadline of an order, the 24 h of a payment key |

`UpdateStatus` and `WriteStock` are transactions of one statement, and the statement and
its COMMIT are one step. Between the two the handler would hold one row lock and do
nothing but commit: a failure there undoes the statement, which is `Fault` before it; who
waits for the row finds after the COMMIT what it finds after the step; who reads the
committed row in between could as well have read it before. The handler waits for no
other row meanwhile, so it is in no deadlock. The read that follows the commit is apart
(`Reload`): when it fails, the client gets 500 for an order that has moved on.

A payment key may end at any time except between the `SET` of the request that took it and
that request's `UPDATE` (`PaymentKeyExpires`): 24 h are assumed to be enough for that. In
particular it may end, or be taken by another order, between the `SET NX` and the `GET` of
a replay.

`seen` and `late` in a request record what the handler loaded and whether the deadline
had passed when it came in; `supply`, `paidWith`, `scanned` and `dirty` are history for
the properties; `scanned` is the ids the sweeper's round began with, `dirty` the
products whose detail key a commit owes a deletion; a handler that breaks takes its own
debts out, and no one else's. A basket is a set of lines, so a product named twice must
have two quantities (twice the same line is not represented; the constraint fails in
both cases). Two requests that may break independently are stronger than a process that
dies as a whole: a crash is a sequence of `Fault` steps.

### Catalog

| Actions | Code |
|---|---|
| `StartDetail`, `StartList`, `SetVersion` | the product routes, `_products_version` |
| `Get`, `Lock`, `Load`, `LoadFails`, `Fill`, `Unlock`, `Reread`, `Answer` | `_get_or_set` |
| `CreateProduct`, `UpdateProduct`, `Sell`, `StartSetActive`, `CommitActive` | the commits of `service.py` and `onshelf.py` |
| `Bump`, `Drop`, `Mark` | `invalidate_products`, `invalidate_product`, the marker of a delisted product |
| `Expire`, `LockExpires`, `Crash` | TTLs; a request that dies between two commands |

All pages of a list version are one key. `excused` is history: the keys whose
value nobody is going to replace before its TTL ends. A key enters it when it is
written with a value older than the database (the window between `loader()` and
`SET`, which the design accepts), when the writer that owed a deletion died, when
the product is created under a cached "", or when a page is written for a list
version that a second reader's `SET 1` makes come once more. The properties say that
nothing else makes a page stale.

### Sessions

One user and one client address stand for all, because every key carries the id
of the user, the token or the client. A login is INCR, EXPIRE, the check of the
password, the read of the version and the signature; a change of password is
commit, GET of the version, SET of that version plus one. History: `late` is what
was already revoked when a request arrived, `stale` the tokens issued before the
last change of the password, `orphaned` what a request that died still owed (the TTL
of the counter, the move of the version).

In `Admission` a request asks, is let in or turned away by what the register said when
it asked, and leaves; a logout takes its token out of the register and a change of
password every token, in one step. `CheckRevoked` and `CheckVersion`, two commands with
anything in between, are one `Enter`; the SET of the blacklist key is `Logout`, the SET
of the version (`WriteEpoch`) is `ChangePassword` (its GET and the commit before it
stutter). A request that was barred may still get in when its token lapsed meanwhile: a
blacklist key lives no longer than its token.

### Names, Accounts

`Load`, `Check`, `Flush`, `Commit`, `Refresh` are the statements of `register`,
`update_username` and `create_admin`; what decides is the unique index in `Flush`,
where a statement waits for a transaction that wrote the same name or row. In
`Names` a request asks, is granted or refused at one moment, and is answered; a
request that breaks may have been granted.

### Server, App

`Startup`, `Shutdown`, `Closed`, `ForgetClient`, `NextLoop` are the lifespan,
`close_redis` and the event loops (tests run the application without a lifespan,
each call on a loop of its own). `held` is the client a task got from `get_redis` and
may still send commands over, until the task lets go of it at the end of its request or
round. The `Sweeper...` actions are `order_expiry_loop`. The
pipeline of a request is three actions: `Receive`, then either `Respond` (an answer
or a business error, which passes every layer) or `Raise` (an exception, which is
counted by the metrics and answered by `handle_unhandled` outside of them), and
`Leave`. `Respond` may be followed by a failure to close the session: the client
has its answer and the metrics count 500. In `App`, `register` and `rename` are the
handlers of `Accounts`; any other route answers, raises and uses Redis as it likes.

## 3. What the runs check

| Run | Properties | What it shows |
|---|---|---|
| `orders_core` | `IInv`, `LocksBelongToTransactions`, `SuccessMeansDone`, `RefusalsAreFinal`, `ChangesAreInvalidated`, `WaitingEnds`, `RoundSettles`, `RefinesBook`, `LatePaymentRefused` | all order operations of two handlers and the sweeper, on orders that lock two products in either order, so deadlocks and races for the last unit happen; nobody waits for a lock in vain, nobody is refused for a change that is then rolled back, and a round of the sweeper that ends has settled what it scanned |
| `orders_pay` | `PaymentIdBindsOneOrder`, `SuccessMeansDone` | two payment ids, two orders, connections that break before or after a commit, expiry of the keys |
| `orders_faults` | `TypeOK`, `Conserved`, `ChangesAreInvalidated` | faults, stock corrections, new products, baskets that violate the unique constraint, overflow of the stock column |
| `orders_live` | `RequestsEnd`, `OverdueSettled` | every request is answered although cancels and orders deadlock; an overdue order leaves `pending` unless the sweeper loses deadlocks for ever |
| `catalog_stale` | `TypeOK`, `DetailStaleOnlyByRace`, `ListStaleOnlyByRace` | two readers and two writers of one product, every write |
| `catalog_lock` | `OneRebuilder`, `DetailStaleOnlyByRace`, `ListStaleOnlyByRace`, `AskedProductsAreCached` | from an empty Redis, with requests that die at any command and loaders that fail |
| `sessions_revoke` | `TypeOK`, `LogoutIsFinal`, `PasswordChangeRevokes`, `TokensProveThePassword`, `WindowIsBounded`, `RefinesAdmission` | logins, requests, logouts and changes of password that do not overlap, with crashes; two Redis keys act as one register |
| `app_names` | `TypeOK`, `NamesUnique`, `AnswersTellTheTruth`, `HeldClientsWork`, `CleanShutdown`, `RefinesNames` | two requests and the seed script over two names, with faults, through two event loops with start and shutdown |

Four more runs, `orders_cancelled_pay`, `orders_poison`, `catalog_none` and
`sessions_epoch` (section 6), find that the code does not do what a line of the
repository says.

Bounds, and why they suffice. In `Orders`, two handlers and the sweeper are three
transactions; every race above is between two of them and the third is the
witness that arrives between. Two orders make two transactions compete for a row
without sharing an order; two products are the least for a deadlock. `InitStock`
is chosen so that the second order is refused (`orders_core`), or both can be
placed (`orders_live`, `orders_pay`). `MaxQty` 2 and `MaxStock` 3 in
`orders_faults` let a restock overflow after an edit and a basket name a product
twice. `StartCreate` starts only while an order id is left for it: the bound on
the number of orders. With two orders and two products, edits of stock make the
state space too large for one run, so edits are checked with one product.

In `Catalog`, `MaxRev`, `MaxUnits` and `MaxVer` let every writer be overtaken by
another one; `catalog_stale` starts with a product and a version key and
`catalog_lock` without either, so that two readers can start the version at 1. In
`Sessions`, two tokens, two requests and two changes of password are what a stale
version needs (`MaxPwd` is 3, and 5 in `sessions_epoch`, where overlapping changes are to
lower the version); `Limit` is 1, so that the second login of a window is
refused. In `App`, two requests and the seed script are three transactions for
two names (each can hold one and want the other), and two event loops are the
least for a client that belongs to a loop that has ended.

Symmetry is used for handlers, orders, payment ids, readers, writers, requests,
tokens and names, which no definition tells apart, and in no run with a liveness
property. Only `app_names` turns off the detection of deadlocks: a process really
stops after the shutdown on its last loop.

## 4. Fairness

`Orders!Fairness` is strong for the steps of each task: PostgreSQL keeps a queue
of waiters for a row lock, so a statement that becomes able to run again and
again does run, and asyncio resumes every coroutine whose await is done. Weak
fairness of `DeadlockVictim` is PostgreSQL's deadlock detection; weak fairness
of `SweepStep` is the loop in `tasks.py`, which sleeps and goes on whatever
happened. No fairness makes clients send requests, connections break or deadlines
pass, and none keeps PostgreSQL from choosing the sweeper as the victim of each
deadlock: `OverdueSettled` states that exception. `Catalog!Fairness` is weak for the
steps of readers (no step of a reader waits for another one: the loser of the lock
sleeps 50 ms and goes on) and for the expiry of locks (Redis deletes a key with a
TTL); it lets readers crash and loaders fail, for ever if they do, and
`AskedProductsAreCached` excludes just that. `Sessions` and `App` have safety
properties only.

## 5. Proofs

Every theorem holds for all sets of handlers, requests, users, names, products, keys,
payment ids and baskets (finite where an assumption says so) and all values of the
bounds, under the named assumptions next to the constants: `StoreAssumption` (quantities
are positive, the initial stock fits the column, order ids are finite),
`OrdersAssumption` (baskets are non-empty sets of lines, corrections fit the column, the
sweeper is not a request handler, handlers are finite), `CatalogAssumption`,
`SessionsAssumption`, `AccountsAssumption`, `AppAssumption` (ranges; readers are not
writers, product ids are not list versions; writers, requests and tokens are finite),
and in each that `None` is none of the values. Every one is evaluated by TLC in the
runs.

| Theorem | Statement |
|---|---|
| `OrdersProofs!Invariant` | `Spec => []IInv` |
| `OrdersProofs!TypeCorrect` | `Spec => []TypeOK`, with `0 <= stock <= MaxStock` |
| `OrdersProofs!LockDiscipline` | `Spec => []LocksBelongToTransactions` |
| `OrdersRefinement!Refinement` | `Spec => RefinesBook` |
| `OrdersProofs!NoVainWait` | `Spec => []WaitingEnds` |
| `OrdersRefinement!RoundsSettle` | `Spec => []RoundSettles` |
| `OrderBookProofs!Conservation` | the order book conserves units |
| `OrdersRefinement!UnitsConserved` | `Spec => []Conserved` |
| `OrdersAnswers!SuccessIsTrue` | `Spec => []SuccessMeansDone` |
| `OrdersAnswers!RefusalIsFinal` | `Spec => []RefusalsAreFinal` |
| `OrdersAnswers!OneOrderPerPaymentId` | `Spec => []PaymentIdBindsOneOrder` |
| `OrdersAnswers!LatePayment` | `Spec => LatePaymentRefused` |
| `OrdersAnswers!KeysAreOwed` | `Spec => []ChangesAreInvalidated` |
| `CatalogProofs!RebuildExclusion` | `Spec => []OneRebuilder` |
| `CatalogProofs!CacheTypes` | `Spec => []TypeOK` |
| `CatalogProofs!StaleDetails`, `StalePages` | `Spec => []DetailStaleOnlyByRace`, `[]ListStaleOnlyByRace` |
| `SessionsProofs!LogoutFinal`, `ChangeRevokes`, `TokensProve`, `LimiterIsBounded` | `LogoutIsFinal`, `PasswordChangeRevokes`, `TokensProveThePassword`, `WindowIsBounded` |
| `SessionsProofs!SessionTypes` | `Spec => []TypeOK`, with the version never ahead of the passwords |
| `SessionsProofs!SessionsImplementAdmission` | `SerialChanges` implies `Spec => RefinesAdmission` |
| `AccountsProofs!UniqueNames`, `NamesAreAtomic` | `Spec => []NamesUnique`, `Spec => RefinesNames` |
| `AppProofs!AppAccounts`, `AppNamesUnique` | the same two for the whole application |
| `AppProofs!AppTypes`, `TruthfulAnswers`, `RedisFollowsTheLoop`, `ShutdownIsClean` | the safety properties of `App` |

*The invariant of Orders.* Neither the types nor the lock discipline is inductive: a
commit adds `delta` to `stock`, and nothing in them says what `delta` is. `IInv` says what
a handler knows at each place of its code. In the loop of `create_order`, `delta` is
minus the lines it is done with; in the loop of `_restock_order_core`, plus the
lines it is done with, and the order it holds is still in `from_status` because it
holds its row; wherever a handler has loaded an order, its lines are those of the row.
`StockBounds` says that what a task would commit stays within the column. The proof
has one lemma per action and, under it, one step per conjunct the action can
disturb; `OtherHandler` carries what the other tasks know over a step that does not
touch their rows. Most of the invariant survives because a row that carries a
`delta` is locked by its owner.

*The refinement.* `SaveOrder` is `Place`, `CommitRestock` is `Withdraw`,
`UpdateStatus` is `Advance`, `WriteStock` is `SetStock`; each needs `IInv` to know that
`delta` is the whole basket at that point. All other steps stutter.

*Waiting.* `WaitingEnds` speaks of sets `S` of tasks that contain whomever their members
wait for. A lock belongs to a running transaction, so `S` has a transaction that can go on,
or all its transactions wait for each other. A map of a finite set into itself permutes a
part of the set (lemma `Circle`: the smallest part it maps into itself, which exists
because the subsets of a finite set are well-founded), and such a part is a deadlock, which
PostgreSQL's detector breaks. This is why the handlers must be finite.

*Rounds.* `RInv` adds to `IInv` that every scanned order that is still pending is in the
batch or is the one the sweeper works on (`Accounted`). A visit ends only with the order
withdrawn or found to have left `pending`, and no order returns there (`NoWayBack`);
whatever else ends a visit ends the round.

*Conservation.* A sum over orders would need induction. The units that live orders
hold are a set of tokens instead, `<<order, i>>` with `i` up to the quantity: an
operation adds or removes the tokens of one order, and the library's facts about
cardinality give the change. The result comes down to `Orders` by the refinement.

*Answers.* `OrdersAnswers` rests on two facts about every step: statuses move along the
diagram and overdue orders stay overdue (`Forward`). So what a handler loaded bounds what
its order can be later: if it was not pending when loaded it never is again, which
makes a late payment impossible; a status reached is left only along the diagram, which
makes a success answer true when it is sent, and a refusal final: what refused a cancel
was committed, because the conditional `UPDATE` waits for a row that is not. `KeysBind`
(an order paid with a key is the one its key names) holds because only the handler that
owns the key passes `Dedup`. `EditsOwe` closes the invariant behind `ChangesAreInvalidated`: a correction owes its
deletion before it has written.

*Catalog.* `OneRebuilder` says nothing of a lock that was deleted under its holder, so
the invariant is that whoever rebuilds a key holds its lock (`RebuildersHold`). For types,
`Moving` counts the writers that still move the list version; each has a version to
go to. Freshness is `FInv`: details and the current page are fresh, excused or owed, and
pages of versions to come are empty or excused; lemma `Steady` covers all steps that
leave rows and version alone, the rest are commits, `Bump` and `SetVersion`.

*Sessions.* `SInv` says of each place of a request what it has passed (`LogoutHolds`,
`ChangeHolds`) and of each token older than the password that it is behind the version
or the version is about to move (`StaleHolds`). For the types, a change owes one
number each: the version plus the changes that will move it never exceeds the last
password, and the last password plus the changes before their commit never exceeds
`MaxPwd` (`Numbers`), however changes overlap.

For the refinement, `late` tells what was revoked when a request arrived. `GateHolds` says
that these histories agree with the keys at any time (a logout that was answered is a
blacklist entry as long as the token lives, an answered change is a version that is no
longer current), so that the abstract `gate` is decided as the abstract register decides
it, and `SInv` that a barred request fails one of the two checks unless its token
lapsed. Each step then has an abstract action or a stutter
(`ArrivalRefines`, `TimeRefines`, `StepRefines`). With changes that overlap, the SET of an
old version would revive tokens, a step `Admission` does not have: hence the hypothesis
`SerialChanges`.

*Accounts and App.* `Claimed`: between its flush and its commit a transaction has the
name to itself. `RowsReserved` adds that a registration has its row to itself until it
commits, which makes 409 mean that nothing was created. `PInv` is about the process
(from the moment it closes nobody is left who would build a client; a client that is
held is that of the running loop and open, `HoldersRun`), `QInv` about the
pipeline (each request in one place, counted once, told its outcome). The steps of
`App` map to steps of `Accounts` or leave it alone, so its theorems carry over.

*Only model-checked.* `RequestsEnd`, `OverdueSettled`, `AskedProductsAreCached`:
liveness under fairness is beyond the prover. What can be proved of the first two is
proved: that no wait is in vain (`NoVainWait`) and that a round settles its orders
(`RoundsSettle`). What is left to TLC is that enabled steps do come. Every safety
property of the passing runs is proved. The four runs of section 6 are counterexamples
and need no proof.

## 6. Where code and documents disagree

- `orders_cancelled_pay`: a replay of a payment id answers 200 for an order that was
  cancelled; `service.py:129` says such an order still gets 409.
- `orders_poison`: after an administrator raised a stock to the limit of the column, the
  restock of an overdue order fails in each round and ends the round, so that order
  (and whatever the query lists behind it) is never cancelled, against `README.md:129`.
- `catalog_none`: a reader that loses the rebuild lock and finds the key still empty
  50 ms later is told that an existing product does not exist (`cache.py:95` reads
  None as "does not exist").
- `sessions_epoch`: overlapping changes of password can lower the token version;
  `auth/service.py:88` says that it only gets larger.

## 7. Hazards and what the properties leave open

`PROJECT.json` lists all hazards with their lines. Five have no property: the status in
the body of a refund's answer (`service.py:209`; bodies are not modelled), a stock edit
that overwrites deductions made since the row was loaded (`service.py:59`; `supply` counts
what it overwrites as a correction), a login with the old password whose token is signed
after the change (`auth/router.py:40`; a token is old when it was issued before the
change), a Redis that loses its keys (`auth/service.py:20`; the code has no answer to it
and every property of tokens would fail at once), and the count and the rows of a list
read by two statements (`data.py:25`; pagination changes no state).

Other properties exempt one hazard by name and say that nothing else does the same harm:
the stale pages of a rebuild overtaken by a writer, of a delist that overlaps a relist, of
a product created under a cached "" and of a version started twice; and what a request that
died still owed (the deletion of a key after a commit, the move of a token version, the TTL
of the login counter). The notes of the hazards say which.

Some properties carry a condition that the code does not meet without it. `OneRebuilder`
speaks of rebuilds shorter than the lock's 5 s. `LogoutIsFinal` exempts tokens past
their `exp`: a request that decoded a token in its last second may find the blacklist
key gone. `PasswordChangeRevokes` and `TokensProveThePassword` speak of changes that do
not overlap (`SerialChanges`), as does `RefinesAdmission` where it is checked and proved;
`sessions_epoch` shows what overlap does. `PaymentIdBindsOneOrder` speaks of the life of
the key, which is assumed to last from its `SET` to the `UPDATE` of the same request.
`ChangesAreInvalidated`, `WindowIsBounded` and `TokensProveThePassword`
exempt what exactly the request that died still owed.

## 8. What is done, what could follow

Built in this order: the store (`StoreTypes`, `OrderBook`, `Orders`) with the sweeper,
the faults and the refinement; `OrdersInv` and its proofs; `Catalog`; `Sessions`;
`Accounts` with its abstract specification; `Server` and `App`; then the proofs of
every safety property, of the refinement of `Admission` and of the safety cores of the
liveness properties.

Could follow: a Redis that restarts without its keys, once the code has an answer to
it; the bodies of order answers; the page and the count of a list; `Orders` and `Catalog`
composed, so that `Sell` is the commit of an order.

## 9. Not modelled

Prices, totals, timestamps, pagination and the bodies of answers: no property speaks of
them and no control depends on them. Roles: no route changes them (`Orders` takes an
authenticated user and the set of administrators for granted). `CACHE_ENABLED=False`,
which removes the cache. Loss of keys by Redis. The normalisation of metric labels, the
durations, the format of the log. The `X-Request-ID` of an answer, which no control depends
on (`src/tests/core/test_request_id.py:32` tests it). Settings and paths are read once at
start and validated field by field. Health checks answer what the two servers answer.
Migrations are generated schema (the constraints they create are in the models), the load
test is a client.

Liveness, what is ENABLED, and what recursive definitions compute for every input
are out of the prover's reach; no module has a RECURSIVE operator.

## 10. Running

    tlc -config MCOrders_core.cfg MCOrders
    tlapm OrdersProofs.tla

Each `.cfg` belongs to the MC module whose name it begins with. The largest run takes
two to three minutes on two cores, all proofs about as long.
