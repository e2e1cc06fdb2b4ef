---------------------------- MODULE SalesEngine ----------------------------
(***************************************************************************)
(* The local side of a Unnati point-of-sale terminal: the SQLite tables    *)
(* `products', `sales', `sale_items', `purchase_orders', `suppliers',      *)
(* `audit_trail' and `sync_queue', and the operations that write them      *)
(* (SalesService, SaleRepository, SupplierRepository, AuditLoggerService). *)
(*                                                                         *)
(* A Drift transaction is one step: SQLite commits or rolls back the whole *)
(* of it.  What lies outside the transaction is interleaved.  completeSale *)
(* fixes its timestamp and fiscal year, then awaits the query for the last *)
(* bill, then opens the transaction: three steps, between which other      *)
(* calls run, the clock moves or the process is killed.                    *)
(*                                                                         *)
(* Abstractions.  A cart or a delivery maps each product to a quantity:    *)
(* lines of one product are added up (the running stock check of the loop  *)
(* fails exactly when the sum exceeds the stock, quantities being          *)
(* positive).  Prices, taxes and texts are left out.  A tick of the clock  *)
(* is an instant that localSeq (microseconds) tells apart; `created_at' is *)
(* stored in whole seconds, TicksPerSecond ticks each.                     *)
(***************************************************************************)
EXTENDS Integers, FiniteSets, Functions

CONSTANTS
    Products,        \* ids of the products table
    SaleIds,         \* uuids a sale or a draft may receive
    OrderIds,        \* ids a purchase order may receive
    Suppliers,       \* ids of the suppliers table
    Carts,           \* the non-empty carts a cashier may ring up
    Deliveries,      \* what a supplier may deliver: goods, total, paid
    FiscalYears,     \* the year labels _calculateFiscalYear produces
    FYAt,            \* the label it produces at each instant
    DraftYears,      \* the labels BillDrafts carry (VatService.currentFiscalYear)
    Opening,         \* the opening stock
    MaxClock,        \* bound on the clock
    MaxCommits,      \* bound on the transactions committed
    TicksPerSecond   \* resolution of localSeq over that of created_at

Quantities == [Products -> Nat]
NoYear     == "no year"
NoSupplier == "no supplier"
Nothing    == [p \in Products |-> 0]

ASSUME CartsAssumption ==
    Carts \subseteq {c \in Quantities : \E p \in Products : c[p] > 0}
ASSUME DeliveriesAssumption ==
    Deliveries \subseteq [goods : Quantities, total : Nat, paid : Nat]
ASSUME ClockAssumption ==
    /\ MaxClock \in Nat
    /\ MaxCommits \in Nat
    /\ TicksPerSecond \in Nat \ {0}
    /\ FYAt \in [0..MaxClock -> FiscalYears]
ASSUME LabelAssumption ==
    /\ Opening \in Quantities
    /\ NoYear \notin FiscalYears \cup DraftYears
    /\ NoSupplier \notin Suppliers

\* Ids are texts of bounded length, so there are finitely many.
ASSUME FiniteAssumption == IsFiniteSet(SaleIds) /\ IsFiniteSet(OrderIds)

VARIABLES
    clock,     \* the wall clock of the device
    stock,     \* products.stock_qty
    sales,     \* the sales table with its sale_items
    calls,     \* the completeSale calls in flight, by the uuid of their sale
    drafts,    \* ids of bills loaded into a billing screen
    orders,    \* the purchase_orders table
    payable,   \* suppliers.current_payable
    audit,     \* the audit_trail table
    queue,     \* the rows ever inserted into sync_queue
    commits    \* number of transactions committed

vars == <<clock, stock, sales, calls, drafts, orders, payable, audit, queue, commits>>

AllYears == FiscalYears \cup DraftYears \cup {NoYear}

\* `series' is the shape of bill_number: UROS-<year>-B1-<seq> (SalesService),
\* INV-<yymm>-<ms> (SaleRepository.createSale) or HOLD-<id> (holdBill).
Sale == [status     : {"absent", "held", "completed", "cancelled"},
         series     : {"none", "UROS", "INV", "HOLD"},
         billYear   : AllYears,
         seq        : Nat,
         fiscalYear : AllYears,
         createdAt  : Nat,
         items      : Quantities]

Call == [stage      : {"idle", "started", "numbered"},
         cart       : Quantities,
         now        : 0..MaxClock,
         billYear   : AllYears,
         seq        : Nat,
         fiscalYear : AllYears]

Order == [supplier : Suppliers \cup {NoSupplier}, total : Nat, paid : Nat, goods : Quantities]

NoSale  == [status |-> "absent", series |-> "none", billYear |-> NoYear, seq |-> 0,
            fiscalYear |-> NoYear, createdAt |-> 0, items |-> Nothing]
NoCall  == [stage |-> "idle", cart |-> Nothing, now |-> 0, billYear |-> NoYear,
            seq |-> 0, fiscalYear |-> NoYear]
NoOrder == [supplier |-> NoSupplier, total |-> 0, paid |-> 0, goods |-> Nothing]

Lines(c) == {p \in Products : c[p] > 0}

SecondOf(t) == t \div TicksPerSecond

\* One row of sync_queue; `at' is localSeq and `txn' the position of the
\* inserting transaction in commit order.
Row(table, rec, op, at) ==
    [table |-> table, rec |-> rec, op |-> op, at |-> at, txn |-> commits + 1]

Enqueue(rows) ==
    /\ commits < MaxCommits
    /\ queue' = queue \cup rows
    /\ commits' = commits + 1

Unused(s) == sales[s].status = "absent" /\ calls[s].stage = "idle"

-----------------------------------------------------------------------------
Init ==
    /\ clock = 0
    /\ stock = Opening
    /\ sales = [s \in SaleIds |-> NoSale]
    /\ calls = [s \in SaleIds |-> NoCall]
    /\ drafts = {}
    /\ orders = [o \in OrderIds |-> NoOrder]
    /\ payable = [x \in Suppliers |-> 0]
    /\ audit = {}
    /\ queue = {}
    /\ commits = 0

Tick ==
    /\ clock < MaxClock
    /\ clock' = clock + 1
    /\ UNCHANGED <<stock, sales, calls, drafts, orders, payable, audit, queue, commits>>

-----------------------------------------------------------------------------
(* SalesService.completeSale *)

\* The synchronous part up to the first await: the timestamp, the fresh uuid
\* and the fiscal year the bill number will name.
StartSale(s, c) ==
    /\ Unused(s)
    /\ calls' = [calls EXCEPT ![s] =
          [stage |-> "started", cart |-> c, now |-> clock,
           billYear |-> FYAt[clock], seq |-> 0, fiscalYear |-> NoYear]]
    /\ UNCHANGED <<clock, stock, sales, drafts, orders, payable, audit, queue, commits>>

SalesOf(y) == {s \in SaleIds : sales[s].status # "absent" /\ sales[s].fiscalYear = y}

\* ORDER BY created_at DESC LIMIT 1: any row of the latest second.
LastBills(y) ==
    {s \in SalesOf(y) : \A t \in SalesOf(y) : sales[t].createdAt <= sales[s].createdAt}

\* Slips of NextSeqs: numbering by COUNT(*), and counting down.
NextSeqsByCount(y)  == {Cardinality(SalesOf(y)) + 1}
NextSeqsDownward(y) ==
    IF SalesOf(y) = {} THEN {1} ELSE {sales[s].seq - 2 : s \in LastBills(y)}

\* A bill number of fewer than four parts (INV-..., HOLD-...) restarts at 1.
NextSeqs(y) ==
    IF SalesOf(y) = {} THEN {1}
    ELSE {IF sales[s].series = "UROS" THEN sales[s].seq + 1 ELSE 1 : s \in LastBills(y)}

\* The awaited query answers; _calculateFiscalYear is then evaluated again for
\* the fiscal_year column.
ReadLastBill(s) ==
    /\ calls[s].stage = "started"
    /\ \E n \in NextSeqs(calls[s].billYear) :
         calls' = [calls EXCEPT ![s].stage = "numbered",
                                ![s].seq = n,
                                ![s].fiscalYear = FYAt[clock]]
    /\ UNCHANGED <<clock, stock, sales, drafts, orders, payable, audit, queue, commits>>

\* A slip of Sufficient: the check is left to the screen.
SufficientUnchecked(c) == TRUE

Sufficient(c) == \A p \in Lines(c) : c[p] <= stock[p]

Withdraw(c) == [p \in Products |-> stock[p] - c[p]]

\* The transaction: header, lines, stock and the outbox rows, all stamped with
\* the timestamp taken when the call began.
CommitSale(s) ==
    LET k == calls[s] IN
    /\ k.stage = "numbered"
    /\ Sufficient(k.cart)
    /\ sales' = [sales EXCEPT ![s] =
          [status |-> "completed", series |-> "UROS", billYear |-> k.billYear,
           seq |-> k.seq, fiscalYear |-> k.fiscalYear,
           createdAt |-> SecondOf(k.now), items |-> k.cart]]
    /\ stock' = Withdraw(k.cart)
    /\ Enqueue({Row("sales", s, "INSERT", k.now)}
               \cup {Row("sale_items", <<s, p>>, "INSERT", k.now) : p \in Lines(k.cart)})
    /\ calls' = [calls EXCEPT ![s] = NoCall]
    /\ UNCHANGED <<clock, drafts, orders, payable, audit>>

\* InsufficientStockException: the transaction rolls back, the caller sees it.
RejectSale(s) ==
    /\ calls[s].stage = "numbered"
    /\ ~Sufficient(calls[s].cart)
    /\ calls' = [calls EXCEPT ![s] = NoCall]
    /\ UNCHANGED <<clock, stock, sales, drafts, orders, payable, audit, queue, commits>>

-----------------------------------------------------------------------------
(* SaleRepository *)

\* createSale: no stock check, and a single outbox row.
CreateSale(s, c, y) ==
    /\ Unused(s)
    /\ sales' = [sales EXCEPT ![s] =
          [status |-> "completed", series |-> "INV", billYear |-> NoYear, seq |-> 0,
           fiscalYear |-> y, createdAt |-> SecondOf(clock), items |-> c]]
    /\ stock' = Withdraw(c)
    /\ Enqueue({Row("sales", s, "INSERT", clock)})
    /\ UNCHANGED <<clock, calls, drafts, orders, payable, audit>>

\* holdBill upserts the header and one line per product of the draft; a line
\* of an earlier hold that the draft no longer has stays.  No outbox row.
\* A slip of MayHold: the draft keeps the id of any bill it was copied from.
MayHoldAny(s, y) == calls[s].stage = "idle" /\ y \in DraftYears

MayHold(s, y) ==
    \/ Unused(s) /\ y \in DraftYears
    \/ s \in drafts /\ y = sales[s].fiscalYear

HoldBill(s, c, y) ==
    /\ MayHold(s, y)
    /\ sales' = [sales EXCEPT ![s] =
          [status |-> "held", series |-> "HOLD", billYear |-> NoYear, seq |-> 0,
           fiscalYear |-> y, createdAt |-> SecondOf(clock),
           items |-> [p \in Products |-> IF c[p] > 0 THEN c[p] ELSE sales[s].items[p]]]]
    /\ Enqueue({})
    /\ UNCHANGED <<clock, stock, calls, drafts, orders, payable, audit>>

\* resumeHeldBill selects by id alone: despite its name it loads a bill of any
\* status, and holdBill will then upsert over it.
ResumeHeldBill(s) ==
    /\ sales[s].status # "absent"
    /\ drafts' = drafts \cup {s}
    /\ UNCHANGED <<clock, stock, sales, calls, orders, payable, audit, queue, commits>>

-----------------------------------------------------------------------------
(* SalesService.cancelSale, with the AuditLoggerService.logAction it awaits *)

\* Slips of CancelRows: no audit_trail row; localSeq copied from the sale.
CancelRowsUnaudited(s) ==
    {Row("products", p, "UPDATE", clock) : p \in Lines(sales[s].items)}
    \cup {Row("sales", s, "UPDATE", clock)}
CancelRowsBackdated(s) ==
    {Row("products", p, "UPDATE", clock) : p \in Lines(sales[s].items)}
    \cup {Row("sales", s, "UPDATE", sales[s].createdAt), Row("audit_trail", s, "INSERT", clock)}

CancelRows(s) ==
    {Row("products", p, "UPDATE", clock) : p \in Lines(sales[s].items)}
    \cup {Row("sales", s, "UPDATE", clock), Row("audit_trail", s, "INSERT", clock)}

\* A slip of Cancellable: the "already cancelled" check is dropped.
CancellableAgain(s) == sales[s].status # "absent"

Cancellable(s) == sales[s].status \notin {"absent", "cancelled"}

CancelSale(s) ==
    /\ Cancellable(s)
    /\ sales' = [sales EXCEPT ![s].status = "cancelled"]
    /\ stock' = [p \in Products |-> stock[p] + sales[s].items[p]]
    /\ audit' = audit \cup {[sale |-> s, from |-> sales[s].status, txn |-> commits + 1]}
    /\ Enqueue(CancelRows(s))
    /\ UNCHANGED <<clock, calls, drafts, orders, payable>>

-----------------------------------------------------------------------------
(* SupplierRepository.processStockIn *)

StockInRows(o, x, d) ==
    {Row("products", p, "UPDATE", clock) : p \in Lines(d.goods)}
    \cup {Row("purchase_orders", o, "INSERT", clock)}
    \cup {Row("suppliers", y, "UPDATE", clock) : y \in IF d.paid < d.total THEN {x} ELSE {}}

\* A slip of Debt: what is overpaid is taken off the supplier's other orders.
DebtSigned(d) == d.total - d.paid

Debt(d) == IF d.paid < d.total THEN d.total - d.paid ELSE 0

ProcessStockIn(o, x, d) ==
    /\ orders[o].supplier = NoSupplier
    /\ stock' = [p \in Products |-> stock[p] + d.goods[p]]
    /\ orders' = [orders EXCEPT ![o] =
          [supplier |-> x, total |-> d.total, paid |-> d.paid, goods |-> d.goods]]
    /\ payable' = [payable EXCEPT ![x] = @ + Debt(d)]
    /\ Enqueue(StockInRows(o, x, d))
    /\ UNCHANGED <<clock, sales, calls, drafts, audit>>

-----------------------------------------------------------------------------
\* The process is killed: what was only in memory is gone, an open transaction
\* rolls back.
AppCrash ==
    /\ drafts # {} \/ \E s \in SaleIds : calls[s].stage # "idle"
    /\ calls' = [s \in SaleIds |-> NoCall]
    /\ drafts' = {}
    /\ UNCHANGED <<clock, stock, sales, orders, payable, audit, queue, commits>>

Next ==
    \/ Tick
    \/ \E s \in SaleIds, c \in Carts : StartSale(s, c)
    \/ \E s \in SaleIds : ReadLastBill(s)
    \/ \E s \in SaleIds : CommitSale(s)
    \/ \E s \in SaleIds : RejectSale(s)
    \/ \E s \in SaleIds, c \in Carts, y \in DraftYears : CreateSale(s, c, y)
    \/ \E s \in SaleIds, c \in Carts, y \in AllYears : HoldBill(s, c, y)
    \/ \E s \in SaleIds : ResumeHeldBill(s)
    \/ \E s \in SaleIds : CancelSale(s)
    \/ \E o \in OrderIds, x \in Suppliers, d \in Deliveries : ProcessStockIn(o, x, d)
    \/ AppCrash

Spec == Init /\ [][Next]_vars

-----------------------------------------------------------------------------
(* Properties *)

RowsOf(tables, recs) ==
    [table : tables, rec : recs, op : {"INSERT", "UPDATE"}, at : 0..MaxClock, txn : Nat]

QueueRow ==
    RowsOf({"sales", "audit_trail"}, SaleIds) \cup RowsOf({"sale_items"}, SaleIds \X Products)
    \cup RowsOf({"products"}, Products) \cup RowsOf({"purchase_orders"}, OrderIds)
    \cup RowsOf({"suppliers"}, Suppliers)

\* Every table holds rows of its shape.  Stock is an integer, not a natural
\* number: createSale takes it below zero.
TypeOK ==
    /\ clock \in 0..MaxClock
    /\ stock \in [Products -> Int]
    /\ sales \in [SaleIds -> Sale]
    /\ calls \in [SaleIds -> Call]
    /\ drafts \subseteq SaleIds
    /\ orders \in [OrderIds -> Order]
    /\ payable \in [Suppliers -> Nat]
    /\ audit \subseteq [sale : SaleIds, from : {"held", "completed"}, txn : Nat]
    /\ queue \subseteq QueueRow
    /\ commits \in Nat

Queued(table, rec, op) == \E r \in queue : r.table = table /\ r.rec = rec /\ r.op = op

SaleQueued(s) ==
    /\ Queued("sales", s, "INSERT")
    /\ sales[s].series = "UROS" =>
         \A p \in Lines(sales[s].items) : Queued("sale_items", <<s, p>>, "INSERT")

CancelQueued(s) ==
    /\ Queued("sales", s, "UPDATE")
    /\ Queued("audit_trail", s, "INSERT")
    /\ \A p \in Lines(sales[s].items) : Queued("products", p, "UPDATE")
    /\ \E a \in audit : a.sale = s

OrderQueued(o) ==
    /\ Queued("purchase_orders", o, "INSERT")
    /\ \A p \in Lines(orders[o].goods) : Queued("products", p, "UPDATE")
    /\ orders[o].paid < orders[o].total => Queued("suppliers", orders[o].supplier, "UPDATE")

\* Transactional outbox ("If the transaction commits, the sync entry exists.
\* No orphaned syncs.", sales_service.dart): a bill issued, a bill cancelled
\* and a delivery each have all their sync_queue rows (and the cancellation
\* its audit entry), no line row goes without the row of its bill, and no row
\* names a sale or an order that does not exist, whatever calls were in flight
\* when the process was killed.
OutboxMatchesBooks ==
    /\ \A s \in SaleIds :
         /\ sales[s].series \in {"UROS", "INV"} => SaleQueued(s)
         /\ sales[s].status = "cancelled" => CancelQueued(s)
    /\ \A o \in OrderIds : orders[o].supplier # NoSupplier => OrderQueued(o)
    /\ \A r \in queue :
         /\ r.table = "sales" => sales[r.rec].status # "absent"
         /\ r.table = "sale_items" => Queued("sales", r.rec[1], "INSERT")
         /\ r.table = "purchase_orders" => orders[r.rec].supplier # NoSupplier

\* Rows about one record are sent in the order of localSeq; that order agrees
\* with the order in which their transactions committed, although a sale is
\* stamped before the awaits that precede its transaction.
RecordsQueuedInOrder ==
    \A q, r \in queue :
       (q.table = r.table /\ q.rec = r.rec /\ q.txn < r.txn) => q.at <= r.at

Numbered == {s \in SaleIds : sales[s].series = "UROS"}

HasPredecessor(s) ==
    sales[s].seq > 1 =>
       \E t \in Numbered : /\ sales[t].billYear = sales[s].billYear
                          /\ sales[t].seq = sales[s].seq - 1

\* Issued bills that were resumed and held again: the server was sent the bill,
\* the table keeps a draft under its id.
Overwritten == {s \in SaleIds : sales[s].series = "HOLD" /\ Queued("sales", s, "INSERT")}

\* The IRD series of a fiscal year has no gap, however calls interleave, are
\* rejected, crash or are cancelled afterwards, as long as no checkout straddled
\* a change of fiscal year (its number and its fiscal_year column then differ)
\* and no issued bill has been held over.
BillsContinuous ==
    (/\ \A s \in Numbered : sales[s].billYear = sales[s].fiscalYear
     /\ Overwritten = {})
       => \A s \in Numbered : HasPredecessor(s)

\* _generateIrdBillNumber: "Generates a strictly continuous running sequence
\* per device": no two bills of the terminal carry the same number.
BillNumbersUnique ==
    \A s, t \in Numbered :
       (sales[s].billYear = sales[t].billYear /\ sales[s].seq = sales[t].seq) => s = t

Received(p) ==
    SumFunctionOnSet([o \in OrderIds |-> orders[o].goods[p]], OrderIds)
Issued(p) ==
    SumFunctionOnSet([s \in SaleIds |-> sales[s].items[p]],
                     {s \in SaleIds : sales[s].status = "completed"})
StockIsExplained == \A p \in Products : stock[p] = Opening[p] + Received(p) - Issued(p)

\* Stock is what the opening, the deliveries and the completed bills explain:
\* no sale is deducted twice or restored twice, unless a held bill, whose
\* goods were never withdrawn, has been cancelled, or an issued one held over.
StockMatchesBills ==
    (Overwritten = {} /\ \A a \in audit : a.from # "held") => StockIsExplained

\* cancelSale: "Revert Stock mathematically exactly as it was withdrawn".
CancelRevertsExactly == StockIsExplained

OrdersOf(x) == {o \in OrderIds : orders[o].supplier = x}

\* What a supplier is owed is the sum of what its orders left unpaid; an
\* overpaid order does not lower it.
PayableMatchesOrders ==
    \A x \in Suppliers :
       payable[x] = SumFunctionOnSet(
                      [o \in OrderIds |-> IF orders[o].paid < orders[o].total
                                         THEN orders[o].total - orders[o].paid ELSE 0],
                      OrdersOf(x))

IsIssued(s) == sales[s].series \in {"UROS", "INV"}

Kept(s) == sales'[s] = sales[s] \/ sales'[s] = [sales[s] EXCEPT !.status = "cancelled"]

\* The upsert of a resumed bill: it keeps its year, and every line it had.
HeldOver(s) ==
    /\ s \in drafts
    /\ sales'[s].status = "held" /\ sales'[s].series = "HOLD"
    /\ sales'[s].fiscalYear = sales[s].fiscalYear
    /\ Lines(sales[s].items) \subseteq Lines(sales'[s].items)

\* A bill that was issued is never removed, renumbered, re-dated or changed: it
\* only ever goes to `cancelled', unless it was loaded by resumeHeldBill since
\* the app started and is held over, in which case no line of it is lost.
\* (cancelSale's "Zero-Deletion Policy" knows no such exception.)
IssuedBillsImmutable == [][\A s \in SaleIds : IsIssued(s) => (Kept(s) \/ HeldOver(s))]_vars

-----------------------------------------------------------------------------
(* The engine implements the book of bills *)

KindOfSeries == [none |-> "none", HOLD |-> "parked", UROS |-> "guarded", INV |-> "plain"]

BookOf == [s \in SaleIds |-> [status |-> sales[s].status,
                             kind   |-> KindOfSeries[sales[s].series],
                             items  |-> sales[s].items]]

NoticesOf == [issued   |-> {s \in SaleIds : Queued("sales", s, "INSERT")},
              voided   |-> {s \in SaleIds : Queued("sales", s, "UPDATE")},
              received |-> {o \in OrderIds : Queued("purchase_orders", o, "INSERT")}]

Book == INSTANCE SaleBook
          WITH book     <- BookOf,
               received <- [o \in OrderIds |-> orders[o].goods],
               notices  <- NoticesOf

\* "The UI never sees a partial sale": calls in flight, the clock, the bill
\* numbers and crashes hidden, every step of the engine is one step of the
\* book, in which bill, stock and outbox move together, or no step of it.
ImplementsBook == Book!Spec
=============================================================================
