----------------------------- MODULE SyncServer -----------------------------
(***************************************************************************)
(* What Push does to PostgreSQL: the apply...Delta functions of            *)
(* sync_handler.go with the triggers of the schema that fire under them.   *)
(*                                                                         *)
(* Each item of a batch is applied outside any transaction, so a batch is  *)
(* a sequence of independent items and it is enough to let every handler   *)
(* take one item at a time; any device may push any item again at any time *)
(* (SyncEngine resends).  A statement with its triggers is one step.  The  *)
(* SELECT that precedes the upsert of a product or a sale is a step of its *)
(* own: other handlers run in between.                                     *)
(*                                                                         *)
(* A row is reduced to what the guards and the triggers read and write.    *)
(* suppliers and purchase_orders are upserted as customers are, without    *)
(* the debt.  Device clocks may run ahead of the server's by Skew.  The    *)
(* sweep of overdue debts is run by the Redis consumer (RedisQueue).       *)
(***************************************************************************)
EXTENDS Integers, FiniteSets, Functions

CONSTANTS
    Products, Sales, Customers,  \* ids
    ProductEdits,   \* versions of products devices push
    SaleEdits,      \* versions of bills devices push
    CustomerEdits,  \* versions of customers devices push
    Items,          \* sale_items rows
    Entries,        \* ledger_entries rows
    BillNumbers,
    Handlers,       \* Push handlers at work
    Skew,           \* how far device clocks may run ahead of the server's
    MaxClock        \* bound on the server's clock

Times == 0..MaxClock

NoDue == -1  \* a due_date that is NULL

\* What the schema lets the status of a bill be.
Statuses == {"draft", "held", "completed", "cancelled", "refunded"}

ASSUME DeltasAssumption ==
    /\ ProductEdits  \subseteq [product : Products, stock : Nat, at : Times]
    /\ SaleEdits     \subseteq [sale : Sales, bill : BillNumbers, at : Times,
                                status : Statuses]
    /\ CustomerEdits \subseteq [customer : Customers, debt : Int, at : Times]
    /\ Items         \subseteq [id : Nat, product : Products, qty : Nat]
    /\ Entries       \subseteq [id : Nat, customer : Customers, amount : Nat,
                                type : {"debit", "credit"}, due : Times \cup {NoDue},
                                overdue : BOOLEAN]
ASSUME ClockAssumption == MaxClock \in Nat /\ Skew \in Nat

NoBill == "no bill"
ASSUME BillAssumption == NoBill \notin BillNumbers

VARIABLES
    clock,      \* NOW()
    product,    \* the products table
    sale,       \* the sales table
    customer,   \* the customers table
    items,      \* the sale_items table
    entries,    \* the ledger_entries table, each row as it was first pushed
    overdue,    \* ids of the entries whose is_overdue is now TRUE
    handler,    \* what each handler has read
    \* history: nothing below is kept by the server
    written,    \* by product, the edit last stored, the items stored before it, and
                \* whether a version stored so far was ahead of the clock
    openingDebt,\* by customer, the debt it was inserted with
    saleAnswers,\* bill versions answered without error
    sweptAt     \* by entry, the time of the last sweep since it was stored

vars == <<clock, product, sale, customer, items, entries, overdue, handler, written,
          openingDebt, saleAnswers, sweptAt>>

ProductRow  == [known : BOOLEAN, stock : Nat, updatedAt : Times]
SaleRow     == [bill : BillNumbers \cup {NoBill}, status : Statuses \cup {"none"},
                updatedAt : Times]
CustomerRow == [known : BOOLEAN, debt : Int, updatedAt : Times]

Idle == [pc |-> "idle"]
HandlerState ==
    {Idle} \cup [pc : {"product"}, edit : ProductEdits] \cup [pc : {"sale"}, edit : SaleEdits]

Moves(h, state) == handler' = [handler EXCEPT ![h] = state]

ProductTables  == <<product, written>>
SaleTables     == <<sale, saleAnswers>>
CustomerTables == <<customer, openingDebt, entries, overdue, sweptAt>>

-----------------------------------------------------------------------------
Init ==
    /\ clock = 0
    /\ product = [p \in Products |-> [known |-> FALSE, stock |-> 0, updatedAt |-> 0]]
    /\ sale = [s \in Sales |-> [bill |-> NoBill, status |-> "none", updatedAt |-> 0]]
    /\ customer = [c \in Customers |-> [known |-> FALSE, debt |-> 0, updatedAt |-> 0]]
    /\ items = {} /\ entries = {} /\ overdue = {}
    /\ handler = [h \in Handlers |-> Idle]
    /\ written = [p \in Products |-> [stock |-> 0, at |-> 0, before |-> {}, ahead |-> FALSE]]
    /\ openingDebt = [c \in Customers |-> 0]
    /\ saleAnswers = {}
    /\ sweptAt = [n \in Entries |-> 0]

Tick ==
    /\ clock < MaxClock
    /\ clock' = clock + 1
    /\ UNCHANGED <<items, handler>> /\ UNCHANGED ProductTables
    /\ UNCHANGED SaleTables /\ UNCHANGED CustomerTables

\* A handler is lost between two statements (panic, restart), or its second
\* statement fails: nothing is stored.
HandlerDies(h) ==
    /\ handler[h] # Idle
    /\ Moves(h, Idle)
    /\ UNCHANGED <<clock, items>> /\ UNCHANGED ProductTables
    /\ UNCHANGED SaleTables /\ UNCHANGED CustomerTables

-----------------------------------------------------------------------------
\* Some device has written this version by now.
OnDevice(e) == e.at <= clock + Skew

(* applyProductDelta *)

\* SELECT updated_at: the server's version wins if it is newer.  A SELECT that
\* fails is taken for a missing row: the upsert is tried whatever is there.
ReadProduct(h, e) ==
    LET row == product[e.product] IN
    /\ handler[h] = Idle
    /\ OnDevice(e)
    /\ \/ /\ row.known /\ row.updatedAt > e.at
          /\ UNCHANGED handler
       \/ Moves(h, [pc |-> "product", edit |-> e])
    /\ UNCHANGED <<clock, product, written, items>>
    /\ UNCHANGED SaleTables /\ UNCHANGED CustomerTables

\* A slip of Overwrites: the WHERE clause of the upsert is left out.
OverwritesAlways(e) == TRUE

Overwrites(e) == product[e.product].updatedAt <= e.at

\* INSERT ... ON CONFLICT (id) DO UPDATE ... WHERE; an UPDATE, unlike an INSERT,
\* goes through the trigger that stamps the row with NOW().
WriteProduct(h) ==
    LET e      == handler[h].edit
        row    == product[e.product]
        stores == ~row.known \/ Overwrites(e)
    IN
    /\ handler[h].pc = "product"
    /\ product' = IF ~stores THEN product
                  ELSE [product EXCEPT ![e.product] =
                          [known |-> TRUE, stock |-> e.stock,
                           updatedAt |-> IF row.known THEN clock ELSE e.at]]
    /\ written' = IF ~stores THEN written
                  ELSE [written EXCEPT ![e.product] =
                          [stock |-> e.stock, at |-> e.at, before |-> items,
                           ahead |-> @.ahead \/ e.at > clock]]
    /\ Moves(h, Idle)
    /\ UNCHANGED <<clock, items>> /\ UNCHANGED SaleTables /\ UNCHANGED CustomerTables

-----------------------------------------------------------------------------
(* applySaleItemDelta and the trigger deduct_product_stock *)

\* Slips of NewItem and Deductible: no ON CONFLICT DO NOTHING; no lower bound.
NewItemAlways(i) == TRUE
DeductibleAlways(i) == product[i.product].known

NewItem(i) == \A j \in items : j.id # i.id

\* "Insufficient stock": the trigger raises, the INSERT is rolled back.
Deductible(i) == product[i.product].known /\ product[i.product].stock >= i.qty

InsertItem(i) ==
    /\ NewItem(i) /\ Deductible(i)
    /\ items' = items \cup {i}
    /\ product' = [product EXCEPT ![i.product].stock = @ - i.qty,
                                  ![i.product].updatedAt = clock]
    /\ UNCHANGED <<clock, handler, written>>
    /\ UNCHANGED SaleTables /\ UNCHANGED CustomerTables

-----------------------------------------------------------------------------
(* applySaleDelta *)

\* "Idempotent retry detected": the version is there already.  Here too a
\* failed SELECT leads to the upsert.
ReadSale(h, e) ==
    LET row == sale[e.sale] IN
    /\ handler[h] = Idle
    /\ OnDevice(e)
    /\ \/ /\ row.status # "none" /\ row.updatedAt = e.at
          /\ saleAnswers' = saleAnswers \cup {e}
          /\ UNCHANGED handler
       \/ /\ Moves(h, [pc |-> "sale", edit |-> e])
          /\ UNCHANGED saleAnswers
    /\ UNCHANGED <<clock, sale, items>>
    /\ UNCHANGED ProductTables /\ UNCHANGED CustomerTables

\* A slip of SaleWins: the arriving version always wins.
SaleWinsAlways(e) == TRUE

SaleWins(e) == sale[e.sale].updatedAt <= e.at

\* bill_number is UNIQUE: a new bill under a taken number is an error.
NumberTaken(e) == \E s \in Sales \ {e.sale} : sale[s].bill = e.bill

WriteSale(h) ==
    LET e == handler[h].edit IN
    /\ handler[h].pc = "sale"
    /\ \/ /\ sale[e.sale].status = "none" /\ ~NumberTaken(e)
          /\ sale' = [sale EXCEPT ![e.sale] =
                [bill |-> e.bill, status |-> e.status, updatedAt |-> e.at]]
          /\ saleAnswers' = saleAnswers \cup {e}
       \/ /\ sale[e.sale].status = "none" /\ NumberTaken(e)
          /\ UNCHANGED SaleTables
       \/ /\ sale[e.sale].status # "none"
          /\ sale' = IF SaleWins(e)
                     THEN [sale EXCEPT ![e.sale].status = e.status, ![e.sale].updatedAt = e.at]
                     ELSE sale
          /\ saleAnswers' = saleAnswers \cup {e}
    /\ Moves(h, Idle)
    /\ UNCHANGED <<clock, items>> /\ UNCHANGED ProductTables /\ UNCHANGED CustomerTables

-----------------------------------------------------------------------------
(* applyCustomerDelta, applyLedgerDelta and the trigger update_customer_debt *)

\* A slip of DebtAfterUpsert: the device's figure replaces the running debt.
DebtOfDevice(e) == e.debt

DebtAfterUpsert(e) == customer[e.customer].debt

UpsertCustomer(e) ==
    LET row == customer[e.customer] IN
    /\ OnDevice(e)
    /\ \/ /\ ~row.known
          /\ customer' = [customer EXCEPT ![e.customer] =
                [known |-> TRUE, debt |-> e.debt, updatedAt |-> e.at]]
          /\ openingDebt' = [openingDebt EXCEPT ![e.customer] = e.debt]
       \/ /\ row.known /\ row.updatedAt <= e.at
          /\ customer' = [customer EXCEPT ![e.customer].debt = DebtAfterUpsert(e),
                                          ![e.customer].updatedAt = clock]
          /\ UNCHANGED openingDebt
    /\ UNCHANGED <<clock, items, handler, entries, overdue, sweptAt>>
    /\ UNCHANGED ProductTables /\ UNCHANGED SaleTables

Signed(n) == IF n.type = "debit" THEN n.amount ELSE -n.amount

NewEntry(n) == \A m \in entries : m.id # n.id

\* A slip of OverdueAfterPush: is_overdue is updated on conflict.
OverdueAsPushed(n) == IF n.overdue THEN overdue \cup {n.id} ELSE overdue \ {n.id}

OverdueAfterPush(n) == IF NewEntry(n) /\ n.overdue THEN overdue \cup {n.id} ELSE overdue

\* A ledger entry needs its customer (foreign key) and is stored once, with the
\* is_overdue of the push; pushed again, it is left as it is.
InsertEntry(n) ==
    /\ customer[n.customer].known
    /\ overdue' = OverdueAfterPush(n)
    /\ IF NewEntry(n)
       THEN /\ entries' = entries \cup {n}
            /\ customer' = [customer EXCEPT ![n.customer].debt = @ + Signed(n),
                                            ![n.customer].updatedAt = clock]
       ELSE UNCHANGED <<entries, customer>>
    /\ UNCHANGED <<clock, items, handler, openingDebt, sweptAt>>
    /\ UNCHANGED ProductTables /\ UNCHANGED SaleTables

DueBefore(n, t) == n.type = "debit" /\ n.due # NoDue /\ n.due < t

PastDue(n) == DueBefore(n, clock)

\* The sweep of RedisSyncQueue.applyToAnalytics.
MarkOverdue ==
    /\ overdue' = overdue \cup {n.id : n \in {m \in entries : PastDue(m)}}
    /\ sweptAt' = [n \in Entries |-> IF n \in entries THEN clock ELSE sweptAt[n]]
    /\ UNCHANGED <<clock, items, handler, customer, entries, openingDebt>>
    /\ UNCHANGED ProductTables /\ UNCHANGED SaleTables

-----------------------------------------------------------------------------
Next ==
    \/ Tick \/ MarkOverdue
    \/ \E h \in Handlers : HandlerDies(h) \/ WriteProduct(h) \/ WriteSale(h)
    \/ \E h \in Handlers, e \in ProductEdits : ReadProduct(h, e)
    \/ \E h \in Handlers, e \in SaleEdits : ReadSale(h, e)
    \/ \E i \in Items : InsertItem(i)
    \/ \E e \in CustomerEdits : UpsertCustomer(e)
    \/ \E n \in Entries : InsertEntry(n)

Spec == Init /\ [][Next]_vars

-----------------------------------------------------------------------------
(* Properties *)

\* Tables hold rows of their shape; in particular the trigger keeps stock from
\* going below zero.
TypeOK ==
    /\ clock \in Times
    /\ product \in [Products -> ProductRow]
    /\ sale \in [Sales -> SaleRow]
    /\ customer \in [Customers -> CustomerRow]
    /\ items \subseteq Items /\ entries \subseteq Entries
    /\ handler \in [Handlers -> HandlerState]
    /\ written \in [Products -> [stock : Nat, at : Times, before : SUBSET Items,
                               ahead : BOOLEAN]]
    /\ openingDebt \in [Customers -> Int]
    /\ saleAnswers \subseteq SaleEdits
    /\ overdue \subseteq {n.id : n \in entries}
    /\ sweptAt \in [Entries -> Times]

\* An older version of a product never replaces a newer one, although the
\* version read by the SELECT may be gone when the upsert runs, and although
\* UPDATEs are stamped with the server's clock and INSERTs with the device's;
\* until a device pushes a version from the future, whose stamp the trigger
\* sets back (update_updated_at).
NoOlderOverwrites ==
    [][\A p \in Products : written'[p].ahead \/ written'[p].at >= written[p].at]_vars

\* The server's stock is the last absolute figure stored, less every line
\* inserted since, each once, whatever is pushed twice or by two handlers.
StockAccounted ==
    \A p \in Products :
       LET since == {i \in items \ written[p].before : i.product = p} IN
       product[p].stock =
          written[p].stock - SumFunctionOnSet([i \in Items |-> i.qty], since)

\* The server's bill is the latest of the versions it has answered for, in
\* whatever order and however often they came: a cancelled bill is not revived
\* by a late copy of its sale.  The last write wins whatever the two statuses
\* are, also where the comment of applySaleDelta allows no such change.
SaleIsLatest ==
    \A e \in saleAnswers :
       /\ sale[e.sale].updatedAt >= e.at
       /\ \E f \in saleAnswers : /\ f.sale = e.sale
                                 /\ f.at = sale[e.sale].updatedAt
                                 /\ f.status = sale[e.sale].status

\* A customer owes what it was registered with and what its ledger says since;
\* later versions of the customer do not touch the debt.
DebtMatchesLedger ==
    \A c \in Customers :
       customer[c].debt =
          openingDebt[c] + SumFunctionOnSet([n \in Entries |-> Signed(n)],
                                            {n \in entries : n.customer = c})

\* is_overdue says what the entry was first pushed with, or that it is a debit
\* that was past due at the last sweep since it was stored: no sweep misses one
\* or marks another, and a resend neither sets the mark nor takes it away
\* (applyLedgerDelta, applyToAnalytics).
OverdueAsSwept ==
    \A n \in entries : n.id \in overdue <=> n.overdue \/ DueBefore(n, sweptAt[n])
=============================================================================
