# Karzintell: models and proofs

Karzintell is an online shop: a NestJS API over MySQL (TypeORM) and Redis
(`apps/api`), a Next.js front end (`apps/web`), and the scripts that bring a push
to the server (`scripts`). This directory models what is hard to get right in it:
the money and the stock (inventory, checkout, orders, payments, wallet), what
several requests share without a lock (carts, caches, sessions, one-time codes,
roles, categories, the product form, the search index), what runs by itself (the
expiry cron, the job queue, the connection pool) and the deployment. TLC checks
the models on small instances, and the TLA+ proof system proves the most
important invariants for every value of the constants.

Paths below are relative to `apps/api/src/modules` unless they start with
`docs/`, `test/`, `scripts/`, `common/`, `database/` or `apps/`.

## 1. The system

| Component | State it keeps | Operations | Talks to |
|---|---|---|---|
| Inventory (`inventory/inventory.service.ts`) | `inventory` rows (quantity, reserved) per variant and warehouse, `stock_movements`, the cache `product_variants.stock_total`, stock alerts | `setQuantity`, `move`, `reserve`, `commit`, `release`, `recalcVariantStock`, warehouse administration, alerts | called inside the transactions of Orders and Payments; staff call it directly |
| Orders (`orders/orders.service.ts`, `order-expiry.cron.ts`, `database/entities/order-status.ts`) | `orders`, `order_items`, `order_status_histories`, `shipments` | `checkout`, `markPaid`, `changeStatus`, `expirePendingOrders` (every minute), shipments, notes | Cart, Coupons, Inventory, Redis, Notifications |
| Payments (`payments/payments.service.ts`) | `payments` | `init`, `payWithWallet`, `handleCallback`, `initWalletCharge`, `refund` | gateways over HTTP, Orders, Wallet |
| Gateways (`payments/gateways.ts`) | none of its own | `request`, `verify` for Zarinpal, IDPay, Zibal, Mellat, Saman | the banks |
| Wallet (`wallet/wallet.service.ts`) | `wallets.balance`, `wallet_transactions`, whose description marks a withdrawal as waiting, paid or rejected | `credit`, `debit`, `requestWithdrawal`, `approveWithdrawal`, `rejectWithdrawal` | called by Payments and by administrators |
| Coupons (`coupons/coupons.service.ts`) | `coupons.used_count`, `coupon_usages` | `validate`, `consume`, administration | called by Cart and Orders |
| Cart (`cart/cart.service.ts`) | `carts`, `cart_items` | `addItem`, `updateItem`, `removeItem`, coupon, `merge`, `markConverted`, reminder cron | Coupons, Inventory (reads) |
| Redis (`common/redis.service.ts`) | keys with a lifetime, counters, a list; a map in memory when Redis is away | `get`, `set`, `del`, `delByPattern`, `incrWithTtl`, lists | everybody |
| Authentication (`auth/`) | `refresh_tokens`, `otp_codes`, counters of codes and failed logins | login, refresh rotation, one-time codes, change and reset of the password | Redis, Roles, the browser's cookie |
| Roles (`rbac/`) and administrators (`admin-users/`) | roles, `role_user`, a cache of permissions in Redis | `getEffectivePermissions`, `assignRoles`, `remove`, invalidation | every guarded request |
| Job queue (`common/queue.service.ts`) | a Redis list, jobs under way and in their pause | `enqueue`, worker, retry | Notifications |
| Connection pool (`app.module.ts`, `database/data-source.ts`) | 1 to 10 connections, 5 by default | one per transaction, one per statement outside | every service |
| Catalogue (`catalog/`) and the product form (`apps/web/app/admin/products/_form.tsx`) | categories, products, variants; the browser's query cache and form | category edits, product create, update, status, remove, `syncVariants` | Inventory, Search |
| Search (`search/search.service.ts`) | the documents in Meilisearch | `upsertProduct`, `removeProduct`, `reindexAll` | Meilisearch |
| Settings, banners, permissions, tree | values cached in Redis for a time | cached read, change and invalidate | Redis |
| Deployment (`scripts/`) | the listener's connection and timer, the local tree and builds, the server's files, backups and running processes | webhook, build, upload, backup, migrate, roll back | GitHub, smee.io, the server |
| Shipping (`shipping/shipping.service.ts`) | zones and methods with their cost and the amount from which they are free | `methodsFor`, `resolveForCheckout`, administration | the checkout page, Orders, Settings |
| Notifications, reviews, tickets, wishlist, compare, files, audit, users, dashboard, health, seed | records | create, read, update, delete | |

How they interact. A checkout is one MySQL transaction that inserts the order,
reserves its units, consumes the coupon and closes the cart. Paying is a
conversation of three parties: `init` writes a payment and sends the customer to
the gateway; the gateway calls back, possibly twice, late or never; the callback
asks the gateway, and one transaction records the payment and calls `markPaid`,
which takes the units out of the warehouse. Meanwhile the cron cancels what was
not paid in time, and administrators move orders along a state machine.
Notifications come after the commits, go through the job queue and are allowed to
fail. Carts, categories, roles and sessions are written without transactions.

What is hard about it:

* *Concurrency.* A Node process interleaves its requests at every `await`, and
  several processes share the database. Some reads are `SELECT ... FOR UPDATE`,
  most are plain reads whose result is used several awaits later.
* *Snapshots.* In MySQL's REPEATABLE READ a plain `SELECT` sees the snapshot of
  the transaction's first plain read, a locking one the latest commit; the code
  mixes both in one transaction.
* *Failure.* A transaction may be rolled back at any line, by a refused line, a
  deadlock or a lost connection; a process may die between a commit and what
  comes after it, or between two statements; Redis may forget, and when its
  connection is lost the process uses its own memory until it is started again.
* *Delivery.* Callbacks are duplicated, delayed and reordered; answers to the
  browser are lost or come late; clients retry; webhooks arrive while nobody
  listens.
* *Resources.* A transaction that holds a connection asks for a second one.

What makes each component correct:

* Inventory: never promise more than there is; all lines of a call or none; the
  cache and the audit trail agree with the rows; nobody keeps a row for ever.
* Orders: what is reserved is reserved for a waiting order; the units of a packed
  order have left the warehouse, and nothing else has; an overdue order goes away; the status follows the state machine.
* Payments and wallet: a recorded payment has settled its order; a paid order has
  money behind it; no credit is lost or made twice; the balance is the sum of the
  book; a withdrawal's marker tells what has become of its money.
* Checkout: one order per key; the coupon's counter counts; a refused or dead
  request leaves nothing behind.
* Carts: the units a visitor asks for are not multiplied by merges and saves.
* Prices: an order costs what the customer was shown when it was placed.
* Sessions, codes, limits: the honest user is neither signed out nor taken for a
  thief; a code opens one session; who is limited is let in again.
* Roles and caches: a super admin remains; a revoked permission is served for a
  bounded time.
* Jobs and pool: an accepted job is neither run twice at once nor left behind;
  only transactions with two connections can block each other.
* Catalogue and search: the tree stays a tree; the stock a form saves is the
  stock there is; the search shows what is for sale.
* Deployment: the listener never goes deaf; success means that the commit is on the
  server and its processes have been asked to restart; a rollback brings back a
  build that matches the schema.

## 2. Modules

| Module | Models | Composition |
|---|---|---|
| `StockOps` | what each inventory call checks and does to one row, as operators | used by the next five |
| `StockLedger` | abstract: a call takes effect on all its rows at one instant, when every line is allowed, or not at all | |
| `Inventory` | the inventory with transactions: row locks, line by line, the snapshot-read cache, movements, roll-back | implements `StockLedger` |
| `OrderLifecycle` | orders, payments, wallet balance, gateway, cron and administrators, interleaved | the rows of `StockOps` |
| `Checkout` | the checkout request step by step, with the idempotency key, the coupon and the carts | the ledger's atomic calls |
| `Refund` | `PaymentsService.refund` and `changeStatus` as two transactions with row locks | |
| `Account` | abstract: a balance never negative, and a book of which every line names the balance it left | |
| `WalletBook` | the wallet's row, lock and entries; credits, debits, withdrawals and their approval and rejection | implements `Account` |
| `JobQueue`, `RateLimits` | the queue with its worker, attempts, pauses, outages and restarts; the counters with their time to live | `MCProgress` |
| `ConnectionPool` | transactions that take a second connection, single queries, first come first served | `MCServices` |
| `CacheAside` | read through, store for a time, change and delete; Redis and memory | same |
| `Sessions` | tabs, one cookie, the rotation of refresh tokens and the theft alarm | same |
| `OneTimeCodes` | read, count, compare and consume a code in several statements | same |
| `Carts` | guest's and user's carts of one visitor, item by item; merge, coupon, conversion | same |
| `Pricing` | what cart page and checkout page show and what checkout charges, with changes of prices, coupons, rates and methods | same |
| `CategoryTree`, `Staff` | check-then-write on the tree and on the holders of super_admin | same |
| `ProductForm`, `ProductIndex` | the form, the answers it is filled with, the stock; the rows and the index's documents | same |
| `Deployment` | listener, deploy and server script as one state machine with failures at every command | a run of its own |
| `StockProofs`, `InventoryProofs`, `OrderProofs`, `CheckoutProofs`, `WalletProofs`, `ServiceProofs`, `CatalogueProofs` | the theorems about the parts | extend the modules they are about |
| `CompositionProofs` | that the run of all parts implements each of them | extends `MCServices` and the proofs of its parts |
| `MCInventory`, `MCOrderLifecycle`, `MCCheckout`, `MCServices`, `MCProgress` | the small instances | |

**The scenes of `MCServices` and `MCProgress`.** The parts they join share no
state, so nothing is gained by their product. A behaviour chooses a `scene` at
the start; that part takes its own steps, the others keep their initial state, and
the states of the parts add up instead of multiplying. Every invariant is checked
in every state: it is interesting in its own scene, and says of the others that
the initial state satisfies it. What does share state is composed inside a
module: the inventory, the coupon, the key and the carts in `Checkout`; orders,
stock, payments, wallet and cron in `OrderLifecycle`; counters, codes and
sessions are kept in separate tables by the code and are separate here.

### How they correspond to the code

`PROJECT.json` maps every definition to its lines; this is the reading guide.

**StockOps.** `ReserveRow`, `CommitRow`, `ReleaseRow`, `MoveRow` and `SetRow` are
the assignments of the five methods, clamps included, and `Allowed` gathers their
exceptions (`OUT_OF_STOCK`, `INVALID_QUANTITY`, `INVENTORY_RESERVED`). A missing
row is `<<0, 0>>` (`ensureRow`). `Movement` is the `stock_movements` record, with
commit's `qtyBefore` as the code computes it (new quantity plus line quantity,
which differs from the old quantity when the clamp bites).

**Inventory.** One transaction is `Begin`, then for each line `WriteRow` (lock,
check, write) and `RecalcVariantStock`, then `Commit`; a refused line is `Refuse`.
`image` is what the transaction's plain reads see: the snapshot its caller has
taken, overlaid with its own writes. For stand-alone `move` and `setQuantity` the
snapshot is taken by the first plain read, which comes after the first lock.
`lock` is the lock of an inventory row, `totalLock` of the variant's row that the
`UPDATE` of the cache takes. `LockWaitFails` is MySQL's deadlock detection or lock
wait timeout; `CallerFails` is any other roll-back.

**OrderLifecycle.** A handler `h` is a request or a callback; `pc[h]` says before
which await it stands, and `hOrder`, `hPayment`, `hUser`, `seen` hold what it has
read. A plain read is a step of its own; the rest of a transaction after its last
plain read runs on locked rows and is one step. `seen` is the payment status that
`markPaid` compares, read on the snapshot: in `handleCallback` the first plain
read of the transaction is markPaid's own `SELECT` of the order, after the
payment's row was updated and locked (`plock`); in `payWithWallet` it is
`ensureWallet`'s. `puser` is whether `payments.payload` still names the wallet to
credit. `outs` counts the times the units of an order left the warehouse,
`returns` the times they came back; `outOfTurn` is history: the orders whose units
`markPaid` or the cron moved without asking whether they still waited for their
payment (`Notes`). `changeStatus` holds the order row from its
first statement and is one step. Each cron run `j` lists (`ListStale`) and then
works through its list (`ExpireOne`, `ExpireFails`).

**Checkout.** Each request stands at one of the places of `pc`. `cartRead` is the
cart that `getUserCartOrFail` found and that will be closed, `viewed` the one that
`view` found and that will be ordered: they are two queries. `Dies` is a refusal
for a reason outside the model, a failing statement or a crash. `KeyForgotten`
is the end of the key's day, a Redis restart, or the fall-back to memory.

**Refund.** The outer transaction (credit, payment, order) and the inner one
(`changeStatus`, on another connection) are two owners of locks.

**WalletBook.** A clerk is one request. It reads or inserts the wallet without a
lock (`ensureWallet`), waits for the row (`LockWallet`) and posts: balance, entry
and marker in one step, since the transaction holds the row until it commits.
Approving and rejecting read the withdrawal before that, and use what they read.

**JobQueue.** `Enqueue` pushes, or executes at once without Redis. `Execute` is
the start of a handler; a job that fails waits (`backoff`) and is pushed again
until `GiveUp`. `counted` are the jobs that count against `MaxConcurrency`.
`LoseRedis` is for good until `Restart`, as `common/redis.service.ts` never
connects again, and a restart loses what was running or waiting in memory.

**ConnectionPool.** A transaction (`tx`) holds a connection; `LookUp` asks for the
second one of `defaultWarehouseId` (`inventory/inventory.service.ts:46`).

**CacheAside.** One key is the permissions of a user, the settings, the tree or
the banners. `Load` reads the database, `Store` writes the entry: between the two
a writer may `Change` and `Invalidate`. A value carries its version and the ticks
it has been outdated. `PatternKeys` are those deleted by `delByPattern`, which
finds no key in Redis (`common/redis.service.ts:80`: the pattern lacks the prefix).

**Sessions.** `errand[r]` follows one call of a tab from the sending to the
answer: `ReadSession`, `RevokeOwn` and `IssueTokens` are the three statements of
`refresh`; `Alarm` is the end of all sessions when a revoked token is presented;
`SetRefreshCookie` happens when the answer reaches the browser, `LoseCall` when
it does not.

**RateLimits.** `CountInRedis` and `SetExpiry` are INCR and EXPIRE, two commands;
`VisitorDies` may come between them. Time is ticks of the counters' time to live.

**OneTimeCodes.** `ReadCode` (the latest unconsumed code and its attempts),
`CompareCode` (attempts written back as read plus one, hash compared),
`ConsumeCode`. `overlapped` is history: two requests had the code in hand at once.

**Carts.** A shopper is one request; `save(cart)` writes all columns it has read
(`SaveCart`), `save(item)` inserts the row again when it was deleted. `asked` and
`ordered` are history; `mixedUp` records the overlaps under which the code does
multiply units, which `NoUnitsFromNowhere` names. A checkout looks twice, as
`getUserCartOrFail` does: `closes` is the cart its own query finds and
`markConverted` closes, `cart` the one that its view finds, creates or is given,
and `ReadOrder` takes the lines from the second. A merge and an attaching request
may come between the two.

**Pricing.** Three pieces of code compute amounts: `CartView` (`view`), `Costs`
(`methodsFor`) and, in the order's request, `PriceOrder` and `ShipOrder`. The page
holds answers of the first two (`sheet`), asked for at different times; the key of
its query ties the costs to the amount they were asked for (`LoadCart`). `news` is
history: what has changed since the page asked. A request (`deal`) reads the cart
(`StartDeal`), then the prices of the day and the coupon, then rates or method, and
the shop may change between these steps; `asShown` is history too. A change of
settings is the moment at which reads return it, the cache in between is
`CacheAside`'s. `shown` is the final amount of the checkout page (`ShownFor`), in
which shipping is free as long as no method is chosen; `announced` is the total of
the cart page, with the flat cost.

**CategoryTree.** `Walk` is one query of the loop to the root; then the write.
`crossed` is history: which kinds of edits have overlapped.

**Staff.** `CountSupers`, `DeleteRoles`, `InsertRoles` are the statements of
`assignRoles`; `RemoveRoles`, `EraseAccount` of `remove`. `clashed` and
`brokenOff` are history.

**ProductForm.** A row of the form has the stock that was shown, what was held
and what was on the shelf when it was read (history). `SyncVariants` is the API's
reaction to the one variant that the form sends.

**ProductIndex.** A request writes the row, builds the document from a second
read and sends it. `doubtful` are the products whose index may have missed a
change, `alone` those a request has had for itself.

**Deployment.** `stage` is the command that the deploy has reached; `api` and
`web` have the files, the backup and what the running process has loaded, named by
the commit they were built from. Touching `tmp/restart.txt` sets `due` and nothing
else: `HostReloads` is the host restarting a process, because it was asked to or
because the process was idle, at any time or never. `configured` says whether the
server has the credentials that the migrations need; without them they are skipped
and the rollout goes on (`SkipMigrations`), and somebody may create them later
(`Configure`). `brokeOff`, `strayed`, `migrated` and `gitFailed` are history.

## 3. What the runs check

| Run | Instance | Shows |
|---|---|---|
| `Inventory` | 2 variants, 1 warehouse, 3 transactions, 12 possible calls, symmetry over transactions | `NoOversell`, `StockTotalExact`, `AuditEndsAtStock` in every interleaving with roll-backs; `ImplementsLedger`, the refinement |
| `OrderPayments` | 2 orders for 1 unit, 2 payments, 1 charge, 2 handlers, 1 cron run, 2 callbacks per payment, never all at once (`Few`) | `PaidPaymentSettlesOrder`, `PaidMeansMoney`; `NoLeakedReservation`, `FulfilmentBacked`: what is reserved and what has left the warehouse; `WalletConserved`: no lost, no doubled credit |
| `OrderExpiry` | 2 orders, 2 overlapping cron runs | `OverdueLeavesPending`; `FulfilmentBacked` when the runs overlap |
| `Services` | one scene for each of `Checkout`, `WalletBook`, `ConnectionPool`, `CacheAside`, `Sessions`, `OneTimeCodes`, `Carts`, `Pricing`, `CategoryTree`, `Staff`, `ProductIndex`, `ProductForm` | the properties of the table below |
| `Progress` | one scene for each of `JobQueue`, `RateLimits` and the locks of `Inventory`; no symmetry | `EachJobInOnePlace`, `ExecutionsBounded`; liveness: `JobsEnd`, `LimitLifts`, `RowsAreFreed` |
| `Deployment` | 2 pushes | `NeverSilent`, `SuccessMeansDeployed`, `RollbackRestores` |
| `OrderRevival` | 1 order, 1 payment | refutes `StatusFollowsMachine` |
| `OrderTwicePaid` | 1 order, 2 payments | refutes `CommitOnce` |
| `OrderChargeRetry` | 1 charge | refutes `PaidChargeCredited` |
| `CheckoutKey` | the requests of the checkout scene | refutes `OneOrderPerKey` |
| `Refund` | 1 order, 1 administrator | refutes `RefundReachesWallet` |
| `FormVariants` | 2 variants, 1 administrator | refutes `VariantsKept` |

The properties of `Services`:

| Scene | Properties |
|---|---|
| checkout | `UsageCounted`, `AnsweredWithOrder`, `ReservedForOrders`: counter, answers and reservations match the committed orders |
| wallet | `KeepsAccount` (refinement of `Account`), `MarkerTellsMoney` |
| pool | `StuckOnlyByTransactions`: requests block each other only when every connection is held by a transaction that wants a second one |
| cache | `StalenessBounded`: no entry is served more than its lifetime and one request after it was outdated, whatever goes wrong; `StaleOnlyIfOvertaken`: without trouble, outdated entries are those whose fill was overtaken by the delete |
| sessions | `AlarmHasCause`, `StaysSignedIn` |
| codes | `CodeUsedOnce` |
| carts | `NoUnitsFromNowhere` |
| pricing | `ChargedAsShown`: the amount of an order is the one that was shown, unless what the page relied on has changed since, or an item's price since it was added; without a shipping method it is more, by just the flat cost that the checkout page leaves out |
| categories | `TreeSound` |
| staff | `SuperAdminRemains` |
| index, form | `IndexFollows`, `StockFollowsShelf` |

Several of these properties name the overlap under which they do not hold
(`overtaken`, `overlapped`, `mixedUp`, `crossed`, `clashed`, `misread`,
`doubtful`, `outOfTurn`, `brokeOff`, `strayed`). The variables with these names are history: no guard reads them. Each
is set by one particular overlap, in the step that makes it, and without this
exception the property would fail; what it claims is that nothing else breaks it.

Deadlock is only checked in `Deployment`, whose listener goes on for ever: elsewhere
requests, callbacks and transactions are finite in the
instances, and a shop where nobody does anything is a legitimate end. (The pool can
really get stuck; `StuckOnlyByTransactions` says when.)

### The bounds, and why they are enough

* Three transactions make a lock cycle with a third one waiting behind it; two
  variants are the least for a call of several lines, a partial failure and a
  cycle. Quantities of one and two against a stock of two reach the refusals and
  the clamps.
* `OrderPayments` goes through three situations, which `Few`
  (`MCOrderLifecycle`) keeps apart. Two handlers and two payments of one order give
  the overlaps `markPaid` is exposed to: two callbacks of different payments, a
  callback and a payment from the wallet, or, with one payment, a duplicated callback
  (`MaxDeliveries = 2`). Two orders with one payment compete for one unit
  (`MCScarce`): the second is placed when the first has expired or was cancelled, and
  the first may still be revived by its callback, which takes the unit that the
  second has reserved or bought. A charge whose callback comes twice overlaps with
  the payment of an order from the same wallet. More at once is what the proofs
  cover, which are about `Spec` without this bound.
* Three requests of the checkout let two share a key while a third one competes
  for the last units and for the coupon; with three units of one variant and two
  of the other the last request is refused after its first line.
* Wallet: two clerks, one withdrawal and three entries (`MaxEntries`) let a charge,
  a payment, a rejection and a second rejection overlap; `WalletProofs` covers
  any number.
* Pool: two connections and three clients, the least for "all connections held by
  transactions while another waits".
* Cache: one key that is deleted by name and one by pattern, one reader and one
  writer, one change (`MaxVersion`), lifetime of two ticks, requests of at most one
  (`MaxRequest`); `ServiceProofs` covers any values.
* Sessions: two tabs, of which one makes two calls, two calls each (`MaxCalls`)
  and two tokens (`MaxTokens`): a refresh, the repetition after a lost answer, and
  the other tab with the same cookie.
* Codes: two requests, two codes and two attempts; carts: two requests at once of
  four in all (`MaxRequests`), two carts, quantities up to three with two in stock,
  so that the smaller of the two limits bites in addItem and merge.
* Prices: two variants, a coupon for one of them and one for a cart of 50 or more,
  one method, two or three values of each price, rate and method, and three changes
  of shop or cart (`MaxSteps`), so that amounts fall on both sides of every limit
  and a discount is cut at its maximum; orders follow each other, one request at a
  time. `CheckoutProofs` covers any values.
* Categories: three, the least for a cycle that is not between parent and child,
  and two editors. Staff: three accounts, two requests at once.
* Index: one product, two editors, three changes. Form: two variants, one browser,
  a shelf of two units, so that one may be reserved and one free.
* Deployment: two pushes after the initial build (`MaxCommits = 2`), so that the
  build on the server, its backup and the tree can all differ, and a webhook for the
  first push can come after the second; `ServiceProofs` proves the three properties
  for any number.
* Jobs: three jobs, one place for concurrent ones (`MaxConcurrency`), three
  attempts, two starts of the process (`MaxStarts`). Limits: two visitors; a
  minute, an hour and the window of failed logins are one, three and two ticks.
* The other variables are bounded by the program: `outs` and `returns` by handlers
  and state machine, counters of limits by the limit, attempts by
  `OtpMaxAttempts`.

### Fairness

* `LocksFairness` (`Inventory`): a transaction that can go on does, and a blocked
  one fails in the end (`innodb_lock_wait_timeout` is always on). No fairness for
  `Begin`.
* `OrderLifecycle!FairSpec`: only the cron. It is started every minute
  (`order-expiry.cron.ts:10`), goes through its list (weak fairness), and the
  transaction that expires an order does not fail every time it is tried (strong
  fairness): it fails when its locks are taken or the connection is lost, and
  neither lasts. Customers, administrators and gateways owe nothing. The
  refutation of `StatusFollowsMachine` uses the same specification.
* `JobFairness`: the worker loop goes on taking jobs (`common/queue.service.ts:68`)
  and each job's handler or pause ends: handlers are calls with a timeout, pauses
  are timers. Nothing makes Redis come back; `JobsEnd` allows for it.
* `LimitFairness`: time passes, and a process between INCR and EXPIRE goes on or
  dies.
* `Refund!Spec`: a request under way goes on, a lock wait times out.

### Disagreements the runs show

1. **`OrderRevival`.** `docs/01-architecture.md:201` (every change of status goes
   along the state machine) and `test/unit.spec.ts:72` (final statuses have no
   way out). `markPaid` (`orders.service.ts:224`) and the cron (`:457`) write the
   status without reading it under a lock: a late callback revives a cancelled
   order, the cron cancels one that was paid since it was listed.
2. **`OrderTwicePaid`.** `orders.service.ts:219`, "// idempotent". The read of
   line 217 takes no lock, so two overlapping payments of one order both commit
   its units.
3. **`OrderChargeRetry`.** `docs/03-api-design.md:225`, the callback is
   retry-safe. A failed verification overwrites the payload that names the wallet
   (`payments.service.ts:167`); the next, successful one credits nobody (`:178`).
4. **`CheckoutKey`.** `orders.service.ts:51` and `docs/01-architecture.md:110`,
   the key protects the checkout. It is set after the commit (`:183`).
5. **`Refund`.** `payments.service.ts:242`. Line 261 locks the order, line 262
   waits for that lock on another connection.
6. **`FormVariants`.** `apps/web/app/admin/products/_form.tsx:579`, editing an old
   product loses no data, "more variants" included. The form sends its default
   variant alone (`:250`), and `syncVariants` (`catalog/products.service.ts:360`)
   deletes the others or takes them out of sale.

### Also met while reading

Not given a run, because nothing in the repository promises otherwise, or because
a property above names it as its exception:

* Orders and stock: the reservation window is 60 minutes by default
  (`config/configuration.ts:133`) where `docs/01-architecture.md:200` says 15; a
  failed second callback overwrites a payment recorded as paid
  (`payments.service.ts:167`); the coupon limits are checked before the
  transaction and can be overshot; `release` of an order that was released before
  takes units reserved by another one, and `commit` for an order that was revived
  takes no unit when there is none (both cut off at 0); with several warehouses `stock_total` can
  keep a stale sum.
* Wallet: two rejections of one withdrawal, or a rejection and an approval, both
  find it waiting, and the amount is paid back twice, or paid back and paid out
  (`wallet/wallet.service.ts:163`). `MarkerTellsMoney` states what does hold.
* Sessions: two tabs that refresh with the same cookie are enough to be taken for
  a thief, since `refreshPromise` belongs to one tab (`apps/web/lib/api-client.ts:24`).
* Roles: `update` can suspend the last super admin, as only `assignRoles` has the
  guard (`admin-users/admin-users.service.ts:283`).
* Form: an untouched form that is saved while units are reserved lowers the
  quantity by them (`catalog/products.service.ts:99`), with a second warehouse it
  raises it; a form opened from the query cache (30 s,
  `apps/web/app/providers.tsx:28`) undoes what was sold since; a variant that was
  taken out of sale keeps its default flag.
* Search: `reindexAll` never removes a document, so an error of `removeProduct`
  stays although `search/search.service.ts:26` speaks of a manual repair; reviews
  and stock do not reach the index at all.
* Prices: the cart shows free shipping for a coupon of free shipping
  (`cart/cart.service.ts:112`, the code `FREESHIP` is what the reminder of line 278
  promises it for), but checkout computes the flat cost from the amount alone
  (`orders/orders.service.ts:116`) and charges it; and `validate` refuses a coupon
  whose discount is 0, so that a coupon for shipping only cannot be used at all.
  Without a method, because none is offered for the address or while they are being
  loaded, the checkout page shows shipping as free and a final amount without it
  (`apps/web/app/(shop)/checkout/page.tsx:123` and `:276`), although line 203 says
  that it will be computed later and the cart page has counted the flat cost; the
  order is charged the flat cost (`ChargedAsShown`). `resolveForCheckout` accepts a method of any active zone,
  whatever the address (`shipping/shipping.service.ts:82`).
* Reviews: `moderate` saves the status and recomputes the average in separate
  statements (`reviews/reviews.service.ts:119`); of two moderations of one product
  the older average may be written last, and stays until the next one.
* Jobs: the worker is never started when Redis is down as the process starts; jobs
  that run or wait in memory are lost when it dies.
* Deployment: webhooks that arrive during a deploy (`scripts/ci-listener.js:101`)
  or while the listener is disconnected are forgotten; a failure of git is logged
  and the old tree is deployed as a success (`scripts/local-deploy.js:149`); a run
  that breaks off between extraction and migration leaves its files to be the
  next run's backup, so that a later rollback restores a build whose migrations
  never ran, and so does a run that skips them (`scripts/deploy-on-server.sh:145`)
  once `.env` has been created as it advises. A restart is only asked for: a process
  that is not found (`:264`, `:270`) and an answer other than 200 (`:236`,
  `scripts/local-deploy.js:236`) are logged, and the deploy is a success.
* Carts: `getUserCartOrFail` finds the cart to close (`cart/cart.service.ts:241`) and
  its view finds the one to order (`:243`). If a guest cart is attached to the user
  in between, or the first is merged or converted, the one that is ordered stays open
  and can be ordered again; one line of history, `mixedUp`, stands for all of these.

## 4. What is proved

| Theorem | Statement |
|---|---|
| `InventoryTypes`, `InventoryNoOversell`, `InventoryAudit`, `InventoryImplementsLedger` | for every set of variants, transactions and calls, every finite set of warehouses |
| `InventoryTotals` | the same, where the calls that name a variant name it in one warehouse (`OneHome`) |
| `OrderTypes`, `OrderNoOversell`, `OrderPaymentSettles`, `OrderFulfilmentBacked`, `OrderPaidMeansMoney`, `OrderNoLeak`, `OrderWallet` | for every finite set of orders and payments, any handlers and cron runs, any quantities and amounts |
| `CheckoutTypes`, `CheckoutUsageCounted`, `CheckoutAnswered`, `CheckoutReserved` | for every finite set of requests, any keys, carts and quantities |
| `CartTypes`, `CartNoUnits` | for every finite set of requests at one time, any number of carts, any quantities and limits |
| `PricesAsShown` | for every finite set of variants, any coupons, methods, prices and rates |
| `WalletTypes`, `WalletKeepsAccount`, `WalletMarkers` | for every set of requests and withdrawals, any amounts |
| `OnlyTransactionsGetStuck` | for every number of requests and any size of the pool |
| `SessionAlarm`, `SessionStays` | for every set of tabs, any number of refreshes |
| `IndexKeepsUp` | for every set of products, requests that overlap, restarts of the index |
| `StaffKeepsSuper` | for every finite set of accounts, any number of requests at once |
| `CacheStaleness`, `CacheOutdated` | for every set of keys, readers and writers, any lifetime and length of requests |
| `CodeOnce` | for every number of requests, codes and attempts |
| `JobsInPlace`, `JobsNotRepeated`, `ProgressTypes` | for every set of jobs, any attempts and concurrency; any visitors, limits and windows |
| `TreeStaysSound`, `FormKeepsStock` | for every set of categories and editors, of variants and browsers |
| `DeployTypes`, `DeployNeverSilent`, `DeploySuccess`, `DeployRollback` | for every number of pushes |
| `ServicesParts`, `ServicesTypes` | for the run of all the parts: it implements each of them, and every part keeps its types |

Assumptions: each module's named `ASSUME` (`InventoryAssumption`,
`OrderAssumption`, `CheckoutAssumption`, `WalletAssumption`, ...), which say that
the constants have their types, that the initial stock promises no more than it
holds, that quantities and amounts are not negative, and that the null values lie
outside their sets. Where a property sums over warehouses, orders, payments or
requests, the set of these is assumed to be finite, as the tables are. TLC
evaluates each assumption in a passing run. `OneHome` is no assumption of a module
but a hypothesis of one theorem; it describes a shop whose calls go to one
warehouse, as those of orders do (`defaultWarehouseId`,
`inventory/inventory.service.ts:46`), and the run `Inventory` satisfies it. Without
it `StockTotalExact` is false, see "Also met while reading".

**Sums.** Totals are written with `SumFunctionOnSet` of the community module
`Functions`, which chooses a function on all subsets of a set by a recursive
equation. `StockProofs` shows that the equation has a solution, and what the sum
over a set becomes when an element is added or removed or a term changes
(`SumAdd`, `SumRemove`, `SumChange`, `SumLess`). None of this needs an
induction theorem with an operator for its parameter: each lemma looks at the set
of its counterexamples and takes a least one, a number (`LeastNat`)
or a set by inclusion (`LeastSubset`), which the rule leads to a smaller one.

**Inventory.** Neither `NoOversell` nor the refinement is inductive: a committing
transaction writes its `image`, and one has to know that the image is still the
effect of the call on the rows as they are *now*. `TxInv` says it: a running
transaction holds exactly the rows of the lines it has passed, and on each of them
its call was allowed and its image is `Effect` of the committed row. No other
transaction can change a row that is held, so the fact survives their steps. At
`Commit` all lines have been passed, which makes the step a `Perform` of the
ledger; every other step leaves `stock` alone. `EffectType` and `EffectSafe`
(`StockProofs`) say that an allowed call keeps a row's type and its safety.
For the audit, `AuditInv` says that a row's last committed movement names its
quantity; the step that matters is `Commit`, where `CommitFacts` makes the quantity
in the entry the one of the image that is written.
For the cache, `CacheInv` follows the lock of the variant's row: a transaction that
holds it has written a row of that variant, and the total it has computed is the
sum over its image, except for the variant it has yet to recompute (`stale`). That
the image of the variant's other rows is the stock needs `OneHome`: nobody writes
those rows. `InventoryTotals` therefore has that hypothesis, and `TypeOK` does not.

**OrderLifecycle.** `NoOversell` follows from the row lemmas alone: `CommitRow`
and `ReleaseRow` keep a row safe whatever the order's history is, and that is why
a doubled commit or release cannot oversell. The statements about payments need
the phases of a handler: `HandlerInv` says what each `pc` implies (the payment's
lock is held in "settle"; an order read as paid has been paid, and stays settled),
`PaymentInv` relates a payment's state to its order and its gateway's session,
and `OrderInv` says how often the units of an order left and came back in
each status: exactly once, for an order that was never moved out of turn. One lemma
per action shows that the invariant is preserved. `NoLeakedReservation` is inductive once every
step is seen as one of four (`StepUnits`): it leaves units and pending orders alone,
or reserves for an order that becomes pending, or gives the units of an order up
and takes it out of the pending ones, if it was one of them, or puts units back.
A second commit or release of one order only lowers what is reserved, which is why
the property is a bound and no equation. `FulfilmentBacked` is an equation, for the
variants of which no order was moved out of turn: there `UnitsInv` says that the
quantity is the initial one less the units of the orders that hold theirs, and what
is reserved is what pending orders wait for, so that none of the clamps cuts
anything off; a step adds or removes one order on each side (`MovesUnits`). For the
other variants nothing of the kind is true of the code: a revived order is packed
although its unit may have been sold to someone else. `WalletConserved` needs that a payment from
the wallet belongs to an order; a charge enters the sum when it is first credited
(`Credits`), and a second callback finds it there.

**Checkout.** The counter is the number of usages because a request consumes at
most once: `RequestInv` says that a request that has not passed its transaction
has no order, so the usage it inserts is new. For the reservations the same fact
makes the sum over the orders grow by the units of one cart, by just what
`PlaceOrder` reserves; every other step keeps orders and stock, and `viewed` of a
request that has ordered does not change again.

**Carts.** `NoUnitsFromNowhere` is far from inductive: a request that has read a
cart writes what it has read, when the cart may hold less. `Shares` says that the
units asked for can be divided among the carts, the orders and the requests that
still have units to add, so that each cart *and everything a request remembers of
it* fits into the cart's share. A merge hands the guest cart's share over, an order
turns a share into ordered units, and a save of an older number stays within the
share it was read from. `OneEmpties` is why a share is handed over once: unless
`mixedUp`, only one request at a time empties a cart. A checkout empties the cart
that its second look finds, and from `ReadOrder` on `OneEmpties` also says that it is
the cart that it will close; between the two looks it has no share yet.

**Pricing.** `SheetInv`: the costs on the page are those of the amount it shows, as
long as the terms have not changed, and the cart on the page is the cart's view as
long as cart, coupons and rates have not. `DealInv` carries this through the steps
of the request: until the prices are read, the cart it has read is the one that was
shown; after it, the amount is the one the shown total was made of. Without a method
the two totals the customer has seen differ by the flat cost, unless the coupon makes
shipping free on the cart page.

**WalletBook.** `LockHeld` says what the row lock is worth: who is about to post
holds it, and the balance it has read is the balance. That makes each posting a
step of `Account`. For the markers, `ClerksFollow` and `BookFollows` say that a
withdrawal about to be posted is the only one of its request, and that a
repayment is only under way for a request with a marker.

**ConnectionPool.** `PoolInv`: the free connections and those held, first and
second, add up to the size of the pool; a request waits only when none is free, and
is in the queue once. So when all requests that hold a connection wait for another,
each of them is a transaction that wants its second.

**Sessions.** `Suspects`: a refresh in flight whose token has been replaced was
overtaken by the refresh of another tab; `NewTokens` and `Successors` follow a
token from the answer that names it to the cookie. **ProductIndex.** `Sole` and
`Knows`: of a product that one request alone is concerned with, the index holds
what that request has read or written; every other product is in doubt until the
next write or rebuild.

**Staff.** `OthersStay`: unless requests clashed, one that takes the role away is
alone, and the super admins but its target are not empty. **CacheAside.** `Young`:
the ticks an entry has been outdated and its remaining time to live add up to at
most lifetime and request, and the value a reader holds is no more outdated than
its request is old; `FillsFollow` gives the cause of a fill that is outdated.
**OneTimeCodes.** `SoleUse`: as long as one request at a time had a code in hand,
its row counts the tries, and only the holder can accept it. **JobQueue.** `Counts`
carries the failures of a job with it from list to handler to pause, so the
executions stay below the attempts even across restarts.

**CategoryTree.** A cycle is a set of categories that contains the parent of each
of its members. `Shape` and `NoLoops` say of the only move under way that a set
which the move would close contains the cursor of its walk; a walk that has come
out at a root has therefore found none. **ProductForm.** `FormsHonest`: a row read
while nothing was held shows what was on the shelf, in the cache and in the form.

**Deployment.** The invariant follows one deploy: `TreeFollows` places the local
tree between the commit that was asked for and the head, `FilesFollow` says what is
on the server at each stage, `BackupKept` that until the migrations have run the
backup is the build that was migrated last, and that the process runs it, is due to
restart, or has loaded something else while there was a backup.

**Types.** The type invariants of the two runs that join parts are proved from
those of the parts (`FormTyped`, `IndexTyped`, `SessionTyped`, ...). Two of them say
more than types. In `ProductForm` the row that is shown exists, because the
variants that are listed have a least one, and the stock in it is not negative,
because `FormInv` keeps what is reserved below the quantity. In `ProductIndex` the
document that is built is one of a product that was inserted (`Carries`). In
`RateLimits` no counter goes further than one beyond its limit.

**The joined runs.** `EveryPartSteps`: a step of `MCServices` is, for each part, one
of its own steps or none; with the initial states this is `ServicesParts`, that the
run implements all the specifications at once. So each theorem about a part holds
of the run. `ProgressParts` is the same for `MCProgress`.

**Only model-checked.** Liveness (`RowsAreFreed`, `OverdueLeavesPending`,
`JobsEnd`, `LimitLifts`) is outside the prover's reach: it needs fairness and
ENABLED. The refutations are counterexamples that TLC finds; `Refund` has no
property that holds and so no theorem. Every invariant and action property that a
passing run checks is proved, `StockTotalExact` under `OneHome`, the others without
a hypothesis.

## 5. Assumptions about what is not in this repository

* MySQL/InnoDB: REPEATABLE READ, row locks held to the end of the transaction,
  plain reads on the snapshot, deadlocks broken, lock waits bounded.
* TypeORM: `save()` writes the row it is given. TypeORM finds the columns to
  write by comparing the entity with a plain read of its own; in a transaction
  that has read before, that is a read of the snapshot, and a column that was
  changed by others and is changed back to the snapshot's value would be taken for
  unchanged. The theorems about stock and wallet hold for a `save()` that writes.
* mysql2's pool answers waiting requests first come first served, without limit.
* Redis executes each command at one instant; an outage keeps its data.
* Meilisearch applies what it is sent in the order it is sent.
* The gateway confirms what was paid and nothing else, any number of times.
* Node's HTTP client reports the end of a connection that the listener destroys
  before the reconnection timer fires.

## 6. What is not modelled

* *Around the prices.* The choice of a zone by province and city
  (`shipping/shipping.service.ts:29`), the discount per line of an order
  (`orders/orders.service.ts:164`),
  the other conditions of checkout (variant for sale, address, stock): its refusals
  because of them are `EndRequest` in `Pricing` and `Dies` in `Checkout`. The page's
  older answers for other amounts, which its query cache keeps for 30 seconds, are
  taken to be asked for again.
* *Record keeping.* Stock alerts, warehouse administration, shipments, notes,
  profiles, addresses, attributes, brands, images, reviews, tickets, wishlist,
  compare, pages, files, audit and the dashboard: single statements or lists of one
  user, without an order of steps that something depends on. Two of them have small
  races that decide nothing: the average rating (`reviews/reviews.service.ts:169`)
  may be written from an older read, and the compare list may grow past four.
* *The reminder of abandoned carts* (`cart/cart.service.ts:253`) sends messages and
  keeps a key of its own in Redis; it changes no cart.
* *Several warehouses* are in `Inventory`'s constants and in its proofs, but the
  runs use one, because `stock_total` is exact only then.
* *The process that starts a deploy failing to start at all* (it would leave
  `isDeploying` set), and the rollback of installed packages, which the script does
  not attempt.
* Two thirds of the repository's lines are tool scripts and skills of editors under
  `.agents`, which are no part of the shop; the rest that is not mapped is mostly
  pages, controllers, entities, migrations and seed data.

`PROJECT.json` gives the reason for each component.

## 7. What could come next

The shop with two warehouses, once `recalcVariantStock` sums with locked rows.
