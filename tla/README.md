# Unnati Retail OS: a TLA+ model of the terminal and its sync

Unnati is a point of sale for Nepalese shops. A terminal (Flutter, `apps/unnati_pos`)
keeps all its data in SQLite and works without a network; every local change also
writes a row into the table `sync_queue`, which a sync loop pushes to a Go server
(`backend`), which applies the rows to PostgreSQL. This directory models what must be
right in that: the local transactions, the outbox, the sync loop, the server's handlers
and its queue. Paths below are relative to `src/`; `lib/` is `apps/unnati_pos/lib/`.

## 1. The system

| part | state | operations | talks to |
|---|---|---|---|
| Sales engine: `lib/services/sales_service.dart`, `lib/data/repositories/sale_repository.dart`, `lib/services/audit_logger_service.dart` | SQLite `products`, `sales`, `sale_items`, `audit_trail`, `sync_queue` | `completeSale`, `cancelSale`, `createSale`, `holdBill`, `resumeHeldBill`, `logAction` | writes the outbox in the same transaction |
| Stock-in: `lib/data/repositories/supplier_repository.dart` | `purchase_orders`, `suppliers`, `products` | `processStockIn` | the outbox |
| Sync engine: `lib/services/sync_service.dart`, `lib/presentation/core/providers/sync_status_provider.dart` | `sync_queue.status`, `SyncState.isSyncing` | `syncNow`, `triggerManualSync`, `purgeOldSyncedItems` | POST `/api/v1/sync/push` |
| Sync API: `backend/internal/api/sync_handler.go` and the triggers of `backend/db/migrations/001_initial_schema.up.sql` | PostgreSQL tables | `Push`, `apply...Delta` | answers accepted / conflicts / errors |
| Redis queue: `backend/internal/queue/redis_queue.go` | lists `unnati:sync_queue`, `unnati:sync_dlq` | `Enqueue`, consumer, retries, dead letters | PostgreSQL; nothing enqueues to it at this commit |
| Tokens and devices: `backend/internal/middleware/auth.go`, `sync_handler.go:341-390` | a token per device, `device_registry` | `GenerateToken`, `JWTAuth`, `RegisterDevice`, `updateDeviceLastSync` | in front of every route; a goroutine per push |
| Audit tool: `backend/cmd/audit_check/main.go` | none | one scan of `sales` | reads PostgreSQL |
| Cart and VAT: `cart_provider.dart`, `cart_panel.dart`, `vat_service.dart` | cart in memory | add, change, switch unit, total | meant to call the sales engine (not wired to it) |
| Setup wizard, reports, import, printing, backup, Fonepay, screens | small or none | | |

What is hard in it:

* `completeSale` awaits twice before it opens its transaction (timestamp and uuid, then
  the query for the last bill, then the transaction), so checkouts overlap.
* `localSeq`, the order of the outbox, is a timestamp taken before those awaits.
* The sync loop marks, posts, and settles in separate statements; the WorkManager task
  and the button share nothing but the table; the POST has a 30 s timeout the server
  does not hear of; the app may be killed anywhere.
* The server applies a batch item by item outside a transaction, with a SELECT and an
  upsert as two statements, and triggers that change other tables and stamps.
* The consumer of the Redis queue takes an item out before it processes it and pushes it
  back after a failure; Redis may lose its last second, repeat an RPUSH or evict a key.
* A push starts a goroutine nobody waits for, which writes the row a registration writes.
* Clocks: `created_at` is kept in whole seconds, `localSeq` in microseconds, the server
  stamps UPDATEs with its own clock and INSERTs with the device's.

What makes each part correct is stated by the properties of section 3;
`PROJECT.json` lists the hazards line by line with the properties that cover them.

## 2. Modules

| module | models | composed with |
|---|---|---|
| `SaleBook` | abstract: a book of bills where bill, stock and notice to the server move in one step | implemented by `SalesEngine` |
| `SalesEngine` | the local operations over SQLite, calls in flight, kills | `Book == INSTANCE SaleBook WITH ...` |
| `Delivery` | abstract: at-least-once delivery of rows | implemented by `SyncEngine` |
| `SyncEngine` | `syncNow` step by step against `Push`, the button, faults | `Outbox == INSTANCE Delivery WITH ...` |
| `SyncServer` | what `Push` does to the tables, with triggers, handlers interleaved | |
| `RedisQueue` | enqueue, consumer, retries, dead letters, faults of Redis and of the process | the other statement of the consumer, the overdue sweep, is in `SyncServer` |
| `DeviceApi` | tokens, the check in front of the routes, registration, the goroutine of a push | what `Push` does with the rows is in `SyncServer` |
| `AuditCheck` | the scan of the audit tool, as a function | extended by `Replication`, evaluated on its server |
| `Billing` | VAT, cart edits, conversions, held lines, fiscal year, as functions | instantiated by `MCSalesEngine` |
| `Replication` | several terminals, the payloads their operations enqueue, one server | condenses the terminal of `SalesEngine`, the sync of `SyncEngine` and the server of `SyncServer` |
| `MC...` | instances for TLC | |
| `SalesEngineProofs`, `SyncEngineProofs`, `SyncServerProofs`, `DeviceApiProofs`, `RedisQueueProofs`, `ReplicationProofs` | theorems | extend the modules they are about |
| `SaleBookProofs` | theorems about balances, the refinement, and `Billing` | extends `SalesEngineProofs` |
| `FiniteSums` | lemmas about sums over finite sets | extended by the proofs that count |

**SalesEngine.** A Drift transaction is one action (SQLite commits or rolls back the
whole of it); what lies outside is interleaved. `completeSale` is `StartSale`
(timestamp, uuid, year of the number), `ReadLastBill` (the awaited query; the
`fiscal_year` column is computed again after it) and `CommitSale` or `RejectSale`.
`createSale`, `holdBill`, `cancelSale` (with the `logAction` it awaits) and
`processStockIn` have one transaction each and are one action each. `resumeHeldBill`
loads a bill by its id and looks at no status (`sale_repository.dart:266`), so that
`ResumeHeldBill` may load an issued bill; `drafts` remembers which ids a billing screen
may hold again, and `SaleBook!PutBack` is the hold of an issued bill. No screen calls
`holdBill` or `resumeHeldBill` at this commit. `AppCrash` forgets the calls in flight and the drafts. `LastBills` is a set because
`created_at` cannot tell apart bills of one second. `queue` keeps every row ever
inserted, with the position of its transaction (`txn`, not in the code) so that orders
can be compared. Carts map products to quantities; prices, VAT and texts are left out.

**SyncEngine.** One action per await of `syncNow`: `SelectRows`, `MarkSyncing`, `Post`,
`MarkAccepted`, `HandleConflict`, `MarkError`, `Finish`, `ResetToPending`.
`LocalFailure` is a statement that throws outside the `try` block or in a `catch`
clause, `UpdateFails` one inside it. `Post` opens a request the server works on
(`ApplyDelta`, `ApplyFails`, `Reply`, `ServerCrash`) whether or not the caller waits;
`GiveUp` is the timeout. A row's payload is reduced to what the server makes of it:
`good` (accepted), `bad` (always an error) or `conflict`. All three occur: a
`sale_items` row carries no `id` and the server refuses the empty uuid; a product row
of `processStockIn` carries no `updated_at`, so any stored version is newer than it.
The early return of a terminal that is not configured yet changes nothing and is left out.

**SyncServer.** Handlers take one item at a time; a statement with its triggers is one
action, and the SELECT before the upsert of a product or a sale is an action of its
own. The inputs are full entities, as `domain/sync.go:45` and `database.dart:209`
promise. `written`, `openingDebt`, `saleAnswers` and `sweptAt` are history variables: nothing
reads them but properties.

A ledger entry is stored with the `is_overdue` it is pushed with, and its due date may be
NULL. A sweep (`MarkOverdue`, which the Redis consumer runs) marks entries past due beside
the pushes. Device clocks run ahead of the server's by `Skew` at most; the trigger sets the
stamp of such a version back to the server's time at its first UPDATE.

**RedisQueue.** `lists` are the two Redis keys, `disk` what Redis has synced of them,
`consumer` where the goroutine is and the item it holds: `pop` (BLPOP), `apply`
(`applyToAnalytics`), `backoff` (the sleep before the item is pushed back), `bury`
(`sendToDLQ`). An item is its retry count and what the consumer makes of it: a sale line
(an UPDATE of the stock), a payload that does not decode, or anything else. `Push` is an
RPUSH that succeeds, fails, or is sent again by go-redis after a lost answer and appends
twice; `RedisCrash` brings the lists back as last synced, `Evict` is the LRU policy,
`Restart` the death of the process with the item the consumer holds. `tally` is history.

**DeviceApi.** A request that passes `JWTAuth` is a handler's `call`; `Push` ends it and
may leave a `touch`, the goroutine, which takes its time (`BeginTouch`, the statement's
`NOW()`) and writes the row (`WriteTouch`) in two steps, because the row may be locked
and other goroutines and `RegisterDevice` write it too. `contact` is history: when a
batch that names the device was first taken. The device is the `device_id` of the body;
nothing compares it with the one in the token's claims. A shutdown waits for requests but not for
goroutines, a kill for neither (`ServerRestart`). No route of this commit generates a
token, so `GenerateToken` is enabled for the staff `LogsIn` names.

**Billing.** Whole paisa and whole quantities; the screen sets no discount. `SalesTotals`
is the arithmetic the cart (`cart_provider.dart:197-199`) and `completeSale` share,
`VatServiceTotals` that of `createSale` and `holdBill`. The id of a held line is a
`String.hashCode` (`sale_repository.dart:237`); that two products or drafts never share
one is assumed. The facts about it are named
assumptions of `MCSalesEngine` over all carts within four edits of the empty one.

**Replication.** The full entities `SyncServer` is fed with are not what the terminals
send. Here each operation enqueues its own payload, reduced to what the server's answer
depends on: the UUID columns it carries, whether its times have a zone, its
`updated_at`, and the columns a property speaks of. The Go structs fill in the rest with
zero values, which PostgreSQL then refuses (`Refused`), loses against the stored version
(`Conflicting`) or stores (`Stored`). An operation is one instant and one action; a
`syncNow` is `StartSync`, `ApplyNext` per row and `Settle` or `Interrupt`. Overlapping
syncs, kills and the awaits of a checkout are in the modules above and left out here.
`NextNumber` keeps the constant branch code `B1` of all terminals and the year filter of
the query: an `INV-` bill of `createSale`, whose year label is 112 years off, is not seen
by it. Staff and devices are
taken to be registered with UUIDs. What the module shows of each payload:

| row | answer |
|---|---|
| `sales` of `completeSale` | stored, unless another terminal's bill has the number |
| `sale_items` of `completeSale` | refused: no `id` |
| `sales` of `createSale` | refused: local times without a zone (`sale_repository.dart:369`) |
| `products`, `sales` of `cancelSale` | refused: only `id`, the change and `updated_at` |
| `audit_trail` of `cancelSale` | accepted and dropped |
| `products` of `processStockIn` | conflict if the server knows the product, else refused |
| `purchase_orders` of `processStockIn` | refused: the id is a number of milliseconds |
| `suppliers` of `processStockIn` | stored, with what it lacks overwritten: name, `is_active` |
| `device_registry` of the setup wizard (not modelled) | accepted and dropped |

Spots that do not compile at this commit are modelled by their evident meaning:
`sync_handler.go:202` (`_, err :=` redeclares `err`), `:397` (escaped back quotes), the
trigger on `suppliers` (`001_initial_schema.up.sql:155`) before its function (359),
`bill_number UNIQUE` (`:186`) on a hypertable partitioned by `sold_at` (`:228`), which
TimescaleDB refuses, and the columns `supplier_repository.dart` writes that `database.dart` does not declare
(`currentPayable`, `staffId`, `paymentMethod`).

## 3. Runs

| run | question | bounds |
|---|---|---|
| `sales_engine` | do bills, stock, payables, audit and outbox agree under overlapping calls, cancellations, deliveries, a change of year and kills? does the engine implement `SaleBook`? | 3 sales of one cart with 2 products (one scarce), 2 orders of 2 suppliers, unpaid or overpaid, 2 instants in one second, 4 transactions, year changing at the second instant |
| `sync_engine` | can overlapping syncs and faults confirm, strand or lose a row? does the engine implement `Delivery`? | 2 rows (good, conflict), 2 runners, 2 requests, 2 network faults, 1 local fault, 1 kill |
| `sync_liveness` | is everything delivered, does the button come back? | 2 rows (refused, good), 2 runners, 2 requests, 2 faults |
| `replication` | what reaches the server of the payloads really enqueued? does the audit tool pass? | 2 terminals, 3 sales, 1 order, 1 product, 1 supplier, 3 operations, 1 fault, batches as large as the outbox |
| `sync_server` | are stock, bills, debts and overdue marks what was pushed and swept, each delta once? | 2 handlers, 3 product versions, 3 versions of 2 bills with one number, 2 lines, 1 customer, 3 ledger rows of 2 entries (one pushed with and without the mark, one without a due date), 3 instants, device clocks 1 ahead |
| `redis_queue` | is an item ever lost, doubled, retried for ever or deducted twice without a fault that explains it? | 3 items (two lines, one unreadable), stock for some of them, 2 retries, 2 faults of any kind |
| `device_api` | does a late goroutine, a registration or a dead token leave a wrong `last_sync_at`? | 2 devices (the second only named by batches with the first's token), 2 staff (one without a row), 2 handlers, a token life of 1 tick, 2 instants, 1 fault |

What they show, property by property:

* `OutboxMatchesBooks`, `ImplementsBook`: bill, stock and outbox move together ("The UI
  never sees a partial sale", "No orphaned syncs").
* `RecordsQueuedInOrder`: rows about one record are queued in commit order although
  the stamps are taken early. The clock of the model never goes back: a terminal whose
  clock is set back is outside it.
* `BillsContinuous`: no gap in the series of a year, unless a checkout straddles the
  change of year. The premise is needed: the number and the `fiscal_year` column are
  computed from two readings of the clock, and a bill stored under the other year hides
  its number from the next query.
* `StockMatchesBills`: opening plus deliveries less completed bills, unless a held bill
  was cancelled. `PayableMatchesOrders`: what a supplier is owed is the sum over its
  orders of what is left to pay, an overpaid order owing nothing.
* `IssuedBillsImmutable`: an issued bill keeps its number, year and lines and is at most
  cancelled, or else it becomes a hold, with the year kept and no line lost, by
  `holdBill` on an id that was resumed. `BillsContinuous` and `StockMatchesBills` have the
  premise that no issued bill was held over in this way.
* `SyncedMeansApplied`, `ImplementsDelivery`: no row is marked synced or purged before
  the server answered for it. `SyncingIsOwned`: without kills and local failures, no
  interleaving strands a row in `syncing`.
* `EventuallyDelivered`, `ManualSyncEnds`: under `FairSpec`, see section 4.
* `StockAccounted`, `DebtMatchesLedger`: triggers count every line and entry once.
  `SaleIsLatest`: the last write of a bill wins in whatever order versions come, and
  whatever their statuses. `NoOlderOverwrites`: no product version is
  replaced by an older one, until a version from the future has been stored.
* `SyncedMeansStored`: what the terminal may purge, of the rows a handler stores
  (`audit_trail` has none, see the table above), stands in the server's tables, also
  after a lost answer and when two terminals issued one number.
* `BillsArrive`: a bill reaches the server although rows of its batch are refused, and
  even from a batch that is in conflict for ever: the server stores it although the
  terminal never learns of it. The premise "unless another bill got its number" is needed
  because of `B1`.
* `AuditPasses`: at every moment, between any two rows, the server's bills have no gap and
  start at 1: the audit tool, which cannot see missing first bills, is right when it
  reports none. This needs `Push` to apply a batch in its order (mutant `DueAny`).
* `OverdueAsSwept`: an entry is marked exactly if it was first pushed marked or a sweep ran
  after its due date: no sweep misses one, no resend sets a mark or takes one away.
* `CopiesConserved`: as long as Redis keeps its data, each lost call, lost answer or kill
  costs or adds one copy of one item, and nothing else does. `RetriesCounted`: the count
  that travels with an item bounds its attempts. `DeductedOnce`: a line is deducted again
  only after a fault that hides whether it was. `QueueDrains`: no item circulates for ever.
* `LastSyncBacked`: `last_sync_at` is no earlier than a batch naming the device, sent with
  a live token (of whichever device);
  `RegistrationKeepsHistory`; `PushNoted`: a batch is noted in the end. What does *not*
  hold, and is not stated: the column may go back (a goroutine that began earlier writes
  later), and it is set although every row of the batch is refused.

The functions of `Billing` are checked by the assumptions of `MCSalesEngine`:
`CartsPriced` (a line's price is always that of its unit), `ServicesAgree` (both services
come to the same totals), `HoldKeepsSingleLines` (a hold keeps a cart exactly when no
product stands on two lines), `ConversionsInvert`, `FiscalYearsDiffer` (the two
fiscal-year functions agree on the year's change except on the first fifteen days of
August to December, and are 112 years apart: one adds the 57 years between the calendars,
the other subtracts them). `ScanCountsJumps` of `MCReplication`: the audit tool counts
every jump once, the gap before the least number apart. All but `FiscalYearsDiffer` are
proved for every argument too, in the form section 5 says.

Five runs end in a violation and document a disagreement between the code and its own
comments (`PROJECT.json`, findings): `bill_numbers` (two overlapping checkouts issue one
number), `cancel_held` (a cancelled held bill creates stock), `sync_crash` (a kill
leaves rows `syncing` for ever), `sync_conflict` (a conflict is never settled: its
handler throws and the whole batch is reset), `replication_starved` (refused line rows
fill every batch).

Other disagreements met while modelling, which hold without any race and need no run:

* "Sales are mostly append-only (completed bills don't change)", "Only allow updates for:
  held→completed, draft→cancelled" (`sync_handler.go:200-201`): the ON CONFLICT clause
  (`:208`) compares stamps and no status. A later version takes a bill from any status to
  any other, also from `cancelled` back to `completed`; and `completed` to `cancelled`, the
  one change a terminal sends, is not among those the comment allows. `SaleIsLatest` states
  what the code does, not what the comment says.
* "We NEVER delete the invoice" (Zero-Deletion Policy, `sales_service.dart:391`):
  `resumeHeldBill` (`sale_repository.dart:266`) loads an issued bill as readily as a held
  one, and `holdBill` upserts under its id (`:231`), so that the bill loses its number, date
  and status, while the server keeps what it was sent. Only the lack of a caller prevents
  it; `IssuedBillsImmutable` names it as the one exception.
* Rows of tables without a handler are answered `accepted` (`sync_handler.go:123-125`):
  the audit entries `audit_logger_service.dart:46` maps "to the central Postgres vault"
  and the wizard's handshake are marked synced, purged, and nowhere on the server.
* A supplier row of three columns is stored as a full entity ("Full JSON of the changed
  entity", `domain/sync.go:45`): `name` becomes empty, `is_active` false, and
  `current_payable`, which changed, is not in the SET list.
* "sync operations survive API restarts" (`redis_queue.go:5`): the item in the consumer
  does not, since BLPOP has removed it. The "graceful shutdown checks" (`:65`) see a
  context nobody cancels. The consumer deducts stock which the trigger on `sale_items`
  has deducted already; nothing enqueues at this commit.
* A token lives 24 hours (`auth.go:105`) beside the "48+ hours" offline of
  `sync_service.dart:11`; no route issues one and nothing stores `jwt_token`. The health
  poll (`sync_status_provider.dart:97-105`) sends no token, is answered 401 and shows
  "offline". `delete_sale` is the owner's on the server (`staff.go:39-57`) and the
  manager's too in the app (`role_guard.dart:15`).
* `switchUnit` keeps the quantity, and the stock knows one unit: a box sells one piece.
* `_completeCashSale` prints a tax invoice without calling the sales engine
  (`totals_panel.dart:227`) and clears whatever cart is there after the print dialog.
* `INV-` numbers are milliseconds modulo 100000 (`sale_repository.dart:387`) and come
  again every 100 seconds.

Why the bounds are enough. The numbering, ordering and stock hazards need two calls in
flight and one call before them that set the scene: three sales. Two orders of one
or two suppliers, unpaid or overpaid, make a debt a sum in which an overpaid order must
count for nothing. One cart is enough, since rejections depend on the scarce product,
which a delivery or a cancellation brings back; that a hold with another cart loses no line
is left to `BillsImmutable`. A debit beside a credit makes the ledger a sum. Two instants in one
second give equal `created_at` and different `localSeq`; four transactions allow sale,
cancellation, hold and delivery in any order. A row is confirmed, reset and resent
within two requests; two runners are what the app has; a second fault is needed to lose
the answer of a resend. Two handlers are needed for the race between SELECT and upsert,
and three versions of a product for an older one to meet a newer one twice. Two lines
exceed the smaller stocks together but not singly. In `replication` three operations put
any two kinds of row beside a bill, and two terminals are what a clash of numbers needs;
the starvation is shown with batches of 2 instead of 50, which two sales fill as fifty
would. Two retries instead of five give a first failure, a push back and a last failure;
two faults are a lost call beside a crash or an error. Two handlers are needed for one
goroutine to overtake another, and two instants to tell their times apart; a token of one
tick runs out within them. Three bills are needed for a gap between two.
Symmetry is used for sale ids, order
ids, suppliers and handlers, never with liveness. Deadlock is checked in `sync_server`;
the other runs stop
when their bounds are used up.

## 4. Fairness

`FairSpec` assumes that the background sync starts again and again, that a `syncNow`
that was started goes from await to await, and that the server goes on with a request
while it lives. Comments (`sync_service.dart:6`, `:34`) name a WorkManager period of 15
minutes; no code registers it at this commit and the only caller is the developer panel,
so this is the intended deployment, not what the code alone ensures. The button is not
assumed to be pressed. Faults are finitely many in a run (`MaxFaults`) and otherwise
unconstrained; kills, local failures and conflicts are excluded from `sync_liveness`
because each of them breaks `EventuallyDelivered`: a kill strands rows (`sync_crash`), a
local failure between the mark and the `try` strands them too and leaves `isSyncing`
set, and a conflict resets its batch for ever (`sync_conflict`). So do `_kBatchSize` refused rows at the
head of the queue: they fill every batch. The run keeps fewer refused rows than a
batch holds.

In `Replication` it assumes that every terminal syncs again and again and that the server
answers each row and the batch; operations are not assumed to happen, and a request or
its answer is lost `MaxFaults` times at most.

In `RedisQueue` only the consumer is fair: its loop never ends while the process lives,
and compose restarts the process (`restart: unless-stopped`). Nobody has to enqueue, and
faults are `MaxFaults` at most. In `DeviceApi` the two steps of a started goroutine are
fair (the Go scheduler, and row locks that are released); `PushNoted` allows for a restart
or a failing statement, whose result `updateDeviceLastSync` does not look at.

## 5. Proofs

Every safety invariant and action property of the passing runs, and both refinements, are
theorems. They hold for every value of the constants that satisfies the named assumptions
(`BatchAssumption`, `CartsAssumption`, ...), which TLC evaluates in every run. Beyond the
shape of the inputs these say that sales, orders and items are finite sets
(`SalesEngine!FiniteAssumption`, `RedisQueue!ItemsAssumption`), without which the sums
mean nothing; the bounds of the runs (clock, faults, transactions) are any natural numbers.

**Sums** (`FiniteSums`). The stock, payables, debts and copies are sums over finite sets,
which the community modules define by recursion. The induction theorems of the library
take a predicate as a parameter, which the provers cannot instantiate; each lemma is
proved by a minimal counterexample instead: the subsets where it fails are a set, and
proper inclusion on finite sets is well founded (`MinimalSet`, `LeastNumber`). What the
proofs use is that one index more adds one summand (`SumInsert`), that one value changed
changes the sum by the difference (`SumExcept`), and that one index shifts it
(`SumShift`).

**Terminal** (`SalesEngineProofs`, `SaleBookProofs`). The invariant `Books` is the type
invariant with: status and series fit, drafts name bills that exist
(`DraftsExist`), a call in flight has no record
yet (`CallsAreFresh`), no order without supplier, no stamp in the future. From it:

* `TypeCorrect`, `BillsImmutable`: `holdBill` is the one operation that overwrites a bill,
  only one that was resumed since the app started, it keeps the year and loses no line.
* `OutboxAlwaysMatches`: with rows naming records (`RowsNameRecords`) beside the rows of
  bills (`BillsQueued`) and orders (`OrdersQueued`).
* `RecordsAlwaysInOrder`: a stamp is taken before the awaits, but no row speaks of a sale
  before its commit, and every later row is stamped at the clock.
* `BillsAlwaysContinuous`: the number a call has read has its predecessor on a bill, and
  bills stay (`CallsContinuous`); under the premises only, hence `SeriesKept` and `OverwrittenStays`.
* `StockAlwaysMatches`, `PayableAlwaysMatches`: each action moves one summand.
* `EngineImplementsBook`: each action is a step of `SaleBook` or a stutter.
* `TotalsAgree`, `ConversionsInvert`, `EditsKeepPrices`, `CartsStayPriced`,
  `HoldKeepsLastLines`: the facts of `Billing` for all amounts, factors, price lists and
  carts. `CartsStayPriced` is `CartsPriced` for any number of edits.

**Sync** (`SyncEngineProofs`).

* `TypeCorrect`; in particular no step writes `conflict`.
* `NeverConfirmedUnapplied`: `MarkAccepted` marks what an answer names, so the invariant
  says that every answer, in a request or with a call, names applied rows only
  (`AnswersApplied`), and, for the refinement, that rows not yet enqueued are in no batch
  and no request (`OnlyEnqueued`). `applied` and the enqueued rows only grow.
* `NoRowStranded`: `SyncingIsOwned` needs to know that an answer accounts for the batch it
  answers, less what the server still has to do, and that a request has one waiter
  (`BatchesAccounted`).
* `EngineImplementsDelivery`: each step is `Offer`, `Apply`, `Confirm(S)`, `Reopen(S)`,
  `Forget` or a stutter. `Reopen` is what `_resetToPending` and `MarkSyncing` do to rows
  another call has confirmed meanwhile.

**Server** (`SyncServerProofs`, `DeviceApiProofs`).

* `NeverReplacedByOlder`: a stored version's stamp is no later than its row's, nor than the
  clock, unless it came from the future (`StampsCover`).
* `StockAlwaysAccounted`, `DebtAlwaysMatches`: the lines an absolute figure has overwritten
  are stored ones (`LinesStored`); entries are stored once and name known customers
  (`EntriesOnce`), and an unknown customer owes nothing (`Unknown`).
* `BillsStayLatest`: the row is the latest of the versions answered for, and one of them
  (`BillsAnswered`). `OverdueAlwaysAsSwept`: an entry is first stored with the mark it
  is pushed with and not yet swept (`NotDueAtStart`); after that its due date stays (`DueStays`)
  and only a sweep marks it.
* `LastSyncAlwaysBacked`: every request past the check came on a live token (`CallsLive`),
  a goroutine's device was contacted no later than now, or than the time it holds
  (`TouchesBacked`), and contacts lie in the past (`ContactsPast`); the time of contact is
  set once (`ContactKept`), so waiting goroutines stay backed. `HistoryAlwaysKept`: a
  goroutine's time is never null.

**Redis queue** (`RedisQueueProofs`).

* `RetriesAlwaysCounted`, `NeverDeductedTwice`: what has failed plus the attempts the
  copies still have (`Attempts`, summed over both the list and the consumer's item) never
  exceeds the limit times the copies brought about (`FailuresBounded`); likewise what has
  been deducted plus the copies still to be tried (`DeductionsBounded`). Both hold only
  while Redis loses nothing, as the properties say; that no entry exceeds its retry limit
  (`AttemptsCounted`) holds always, for the list on disk too.
* `CopiesAlwaysConserved`: in each step either no item's gap moves, or one item's gap
  widens by at most one and a call is counted (`Paid`); the sum over all items follows.

**Replication** (`ReplicationProofs`). `IInv` adds to the type invariant:

* bills have instants of their own (`BillsDated`), rows tell of records that exist
  (`RowsSound`), the server has no bill but under the number it was issued with
  (`ServerFaithful`); an accepted row has been taken (`AcceptedTook`), which gives
  `SyncedAlwaysStored`;
* a full row's predecessor stands earlier in the same outbox (`Predecessors`, `BillRows`),
  a batch leaves no row out before one it has (`CallsInOrder`), and a number answered for
  is on the server, under this bill or the other terminal's (`NumbersThere`). Hence the
  server's numbers have no gap (`Gapless`), which gives `AuditAlwaysPasses` with
* `AuditCountsJumps`: for every finite set of numbers the scan counts exactly the
  numbers, but the least, whose predecessor is missing. The sorted list exists and is
  unique, and the fold counts the breaks up to each place (least place where it does
  not). `ScanCountsJumps` is its small instance.

Only model-checked: the liveness properties `EventuallyDelivered`, `ManualSyncEnds`,
`BillsArrive`, `QueueDrains` and `PushNoted` (the provers have no rule for fairness, which
is about `ENABLED`); `FiscalYearsDiffer`, which is a finite table; and the five violations,
which are single behaviours.

## 6. Not modelled

* Discounts, net profit and cost prices; fractional quantities and the binary rounding of
  doubles: amounts are whole paisa.
* Bill-level discounts (`vat_service.dart:59`): called by nothing.
* Roles and permissions: `RequireRole` and `RequirePermission` are attached to no route,
  PINs are compared nowhere; a table without state.
* The held bills of the checkout screen: an append and a filter on a list in memory, of
  which a screen shows the number only (`checkout_screen.dart:128`, `:155`).
* The setup wizard: two inserts without a transaction, once per device. A kill in between
  leaves `STORE-1` taken and no handshake, which the server would drop anyway; its ids
  `DEV-...` (`setup_wizard_screen.dart:38`) are no UUIDs.
* `GetStatus`, `GetSyncHealth`, `QueueLength`, status polling: they only read.
* Reports, valuation, import, printing, backup, Fonepay, screens: no state the
  properties are about, or stubs.
* The server's stock against the terminals': no terminal pushes a product row or a line
  the server accepts (section 2), so there is nothing to compare yet.

## 7. Plan

1. Abstract specifications for the server and the queue, to be implemented as `SaleBook`
   and `Delivery` are: a register per bill that takes the latest version (`SyncServer`),
   and a bag of items with attempts (`RedisQueue`). Their refinements would follow from
   the invariants already proved.
2. That `SyncServer` and `SyncEngine` refine what `Replication` condenses them to: today the
   correspondence is stated in section 2 and not checked.
3. The parts of the liveness arguments that need no fairness: what a step of the consumer
   or of a call brings nearer (`QueueDrains`, `ManualSyncEnds`), as action properties.
