--------------------------- MODULE SaleBookProofs ---------------------------
(***************************************************************************)
(* Theorems about the balances of SalesEngine (what stock and payables add *)
(* up to), about what it implements (the book of bills of SaleBook) and,   *)
(* at the end, about the totals of a bill (Billing).                       *)
(***************************************************************************)
EXTENDS SalesEngineProofs, FiniteSums, SequenceTheorems

-----------------------------------------------------------------------------
(* Stock *)

CompletedSales == {s \in SaleIds : sales[s].status = "completed"}

LEMMA ItemsTyped ==
    ASSUME TypeOK, NEW p \in Products
    PROVE  /\ \A s \in SaleIds : sales[s].items[p] \in Int
           /\ \A o \in OrderIds : orders[o].goods[p] \in Int
  BY DEF TypeOK, Sale, Order, Quantities

\* The completed bills and their items decide what was issued.
LEMMA IssuedSame ==
    ASSUME NEW p \in Products, CompletedSales' = CompletedSales,
           \A s \in CompletedSales : sales'[s] = sales[s]
    PROVE  Issued(p)' = Issued(p)
<1> DEFINE f == [s \in SaleIds |-> sales[s].items[p]]
           h == [s \in SaleIds |-> sales'[s].items[p]]
<1>1. \A s \in CompletedSales : f[s] = h[s]
  BY DEF CompletedSales
<1>2. IsFiniteSet(CompletedSales)
  BY FiniteAssumption, FS_Subset DEF CompletedSales
<1>3. /\ Issued(p) = SumFunctionOnSet(f, CompletedSales)
      /\ Issued(p)' = SumFunctionOnSet(h, CompletedSales')
  BY DEF Issued, CompletedSales
<1> HIDE DEF f, h
<1>4. SumFunctionOnSet(f, CompletedSales) = SumFunctionOnSet(h, CompletedSales)
  BY <1>1, <1>2, SumAgrees
<1> QED
  BY <1>3, <1>4

LEMMA IssuedMore ==
    ASSUME TypeOK, TypeOK', NEW p \in Products, NEW s \in SaleIds,
           s \notin CompletedSales, CompletedSales' = CompletedSales \cup {s},
           \A t \in SaleIds \ {s} : sales'[t] = sales[t]
    PROVE  Issued(p)' = Issued(p) + sales'[s].items[p]
<1> DEFINE f == [t \in SaleIds |-> sales[t].items[p]]
           h == [t \in SaleIds |-> sales'[t].items[p]]
<1>1. /\ \A t \in CompletedSales : h[t] = f[t] /\ f[t] \in Int
      /\ h[s] = sales'[s].items[p] /\ h[s] \in Int
  <2>1. \A t \in SaleIds : sales[t].items[p] \in Int /\ sales'[t].items[p] \in Int
    BY DEF TypeOK, Sale, Quantities
  <2>2. \A t \in CompletedSales : t \in SaleIds \ {s}
    BY DEF CompletedSales
  <2> QED
    BY <2>1, <2>2
<1>2. IsFiniteSet(CompletedSales)
  BY FiniteAssumption, FS_Subset DEF CompletedSales
<1>3. /\ Issued(p) = SumFunctionOnSet(f, CompletedSales)
      /\ Issued(p)' = SumFunctionOnSet(h, CompletedSales \cup {s})
  BY DEF Issued, CompletedSales
<1> HIDE DEF f, h
<1>4. SumFunctionOnSet(h, CompletedSales \cup {s}) = SumFunctionOnSet(f, CompletedSales) + h[s]
  BY <1>1, <1>2, SumInsert
<1> QED
  BY <1>1, <1>3, <1>4

LEMMA IssuedLess ==
    ASSUME TypeOK, NEW p \in Products, NEW s \in CompletedSales,
           CompletedSales' = CompletedSales \ {s},
           \A t \in SaleIds \ {s} : sales'[t] = sales[t]
    PROVE  Issued(p)' = Issued(p) - sales[s].items[p]
<1> DEFINE f == [t \in SaleIds |-> sales[t].items[p]]
           h == [t \in SaleIds |-> sales'[t].items[p]]
           R == CompletedSales \ {s}
<1>1. /\ \A t \in R : f[t] = h[t] /\ h[t] \in Int
      /\ f[s] = sales[s].items[p] /\ f[s] \in Int
  <2>1. \A t \in SaleIds : sales[t].items[p] \in Int
    BY ItemsTyped
  <2>2. s \in SaleIds /\ \A t \in R : t \in SaleIds \ {s}
    BY DEF CompletedSales
  <2> QED
    BY <2>1, <2>2
<1>2. IsFiniteSet(R)
  BY FiniteAssumption, FS_Subset DEF CompletedSales
<1>3. s \notin R /\ CompletedSales = R \cup {s}
  OBVIOUS
<1>4. /\ Issued(p) = SumFunctionOnSet(f, CompletedSales)
      /\ Issued(p)' = SumFunctionOnSet(h, R)
  BY DEF Issued, CompletedSales
<1> HIDE DEF f, h, R
<1>5. SumFunctionOnSet(f, R \cup {s}) = SumFunctionOnSet(h, R) + f[s]
  BY <1>1, <1>2, <1>3, SumInsert
<1>6. SumFunctionOnSet(h, R) \in Int
  BY <1>1, <1>2, SumTyped
<1> QED
  BY <1>1, <1>3, <1>4, <1>5, <1>6

\* A new delivery adds its goods to what was received.
LEMMA ReceivedMore ==
    ASSUME TypeOK, TypeOK', NEW p \in Products, NEW o \in OrderIds, orders[o] = NoOrder,
           \A q \in OrderIds \ {o} : orders'[q] = orders[q]
    PROVE  Received(p)' = Received(p) + orders'[o].goods[p]
<1> DEFINE f == [q \in OrderIds |-> orders[q].goods[p]]
           h == [q \in OrderIds |-> orders'[q].goods[p]]
<1>1. /\ \A q \in OrderIds : f[q] \in Int
      /\ \A q \in OrderIds \ {o} : h[q] = f[q]
      /\ f[o] = 0 /\ h[o] = orders'[o].goods[p] /\ h[o] \in Int
  BY DEF TypeOK, Order, Quantities, NoOrder, Nothing
<1>2. Received(p) = SumFunctionOnSet(f, OrderIds) /\ Received(p)' = SumFunctionOnSet(h, OrderIds)
  BY DEF Received
<1> HIDE DEF f, h
<1>3. SumFunctionOnSet(h, OrderIds) = SumFunctionOnSet(f, OrderIds) - f[o] + h[o]
  BY <1>1, FiniteAssumption, SumExcept
<1>4. SumFunctionOnSet(f, OrderIds) \in Int
  BY <1>1, FiniteAssumption, SumTyped
<1> QED
  BY <1>1, <1>2, <1>3, <1>4

LEMMA TotalsTyped ==
    ASSUME TypeOK, NEW p \in Products
    PROVE  Received(p) \in Int /\ Issued(p) \in Int /\ Opening[p] \in Int /\ stock[p] \in Int
<1>1. /\ \A s \in CompletedSales : [t \in SaleIds |-> sales[t].items[p]][s] \in Int
      /\ \A o \in OrderIds : [q \in OrderIds |-> orders[q].goods[p]][o] \in Int
  BY ItemsTyped DEF CompletedSales
<1>2. IsFiniteSet(CompletedSales)
  BY FiniteAssumption, FS_Subset DEF CompletedSales
<1>3. Received(p) \in Int /\ Issued(p) \in Int
  BY <1>1, <1>2, FiniteAssumption, SumTyped DEF Received, Issued, CompletedSales
<1> QED
  BY <1>3, LabelAssumption DEF TypeOK, Quantities

LEMMA StockNext ==
    Books /\ OutboxMatchesBooks /\ StockMatchesBills /\ [Next]_vars => StockMatchesBills'
<1> SUFFICES ASSUME Books, OutboxMatchesBooks, StockMatchesBills, [Next]_vars,
                    Overwritten' = {}, (\A a \in audit : a.from # "held")', NEW p \in Products
             PROVE  stock'[p] = Opening[p] + Received(p)' - Issued(p)'
  BY DEF StockMatchesBills, StockIsExplained
<1>0. TypeOK /\ TypeOK'
  BY TypeNext DEF Books
<1>1. stock[p] = Opening[p] + Received(p) - Issued(p)
  <2>1. audit \subseteq audit' /\ Overwritten = {}
    BY QueueGrows, OverwrittenStays
  <2> QED
    BY <2>1 DEF StockMatchesBills, StockIsExplained
<1>2. /\ Received(p) \in Int /\ Issued(p) \in Int /\ Opening[p] \in Int /\ stock[p] \in Int
      /\ \A s \in SaleIds : sales[s].items[p] \in Int
      /\ \A s \in SaleIds : sales'[s].items[p] \in Int
      /\ \A o \in OrderIds : orders'[o].goods[p] \in Int
  <2>1. \A s \in SaleIds : sales[s].items[p] \in Int /\ sales'[s].items[p] \in Int
    BY <1>0 DEF TypeOK, Sale, Quantities
  <2>2. \A o \in OrderIds : orders'[o].goods[p] \in Int
    BY <1>0 DEF TypeOK, Order, Quantities
  <2> QED
    BY <1>0, <2>1, <2>2, TotalsTyped
<1>3. ASSUME orders' = orders PROVE Received(p)' = Received(p)
  BY <1>3 DEF Received
<1>4. ASSUME sales' = sales PROVE Issued(p)' = Issued(p)
  BY <1>4 DEF Issued
\* A sale withdraws the items of the bill it adds.
<1>5. ASSUME NEW s \in SaleIds, sales[s].status # "completed", sales'[s].status = "completed",
             \A t \in SaleIds \ {s} : sales'[t] = sales[t], orders' = orders,
             stock'[p] = stock[p] - sales'[s].items[p]
      PROVE  stock'[p] = Opening[p] + Received(p)' - Issued(p)'
  <2>1. s \notin CompletedSales /\ CompletedSales' = CompletedSales \cup {s}
    BY <1>5 DEF CompletedSales
  <2>2. Issued(p)' = Issued(p) + sales'[s].items[p]
    BY <1>0, <1>5, <2>1, IssuedMore
  <2> QED
    BY <1>1, <1>2, <1>3, <1>5, <2>2
<1>6. ASSUME NEW s \in SaleIds, CommitSale(s)
      PROVE  stock'[p] = Opening[p] + Received(p)' - Issued(p)'
  <2>1. sales[s].status # "completed"
    BY <1>6 DEF CommitSale, Books, CallsAreFresh, NoSale
  <2>2. /\ sales'[s].status = "completed" /\ sales'[s].items = calls[s].cart
        /\ \A t \in SaleIds \ {s} : sales'[t] = sales[t]
        /\ orders' = orders /\ stock'[p] = stock[p] - calls[s].cart[p]
    BY <1>0, <1>6 DEF CommitSale, Withdraw, TypeOK
  <2> QED
    BY <1>5, <2>1, <2>2
<1>7. ASSUME NEW s \in SaleIds, NEW c \in Carts, NEW y \in DraftYears, CreateSale(s, c, y)
      PROVE  stock'[p] = Opening[p] + Received(p)' - Issued(p)'
  <2>1. sales[s].status # "completed"
    BY <1>7 DEF CreateSale, Unused
  <2>2. /\ sales'[s].status = "completed" /\ sales'[s].items = c
        /\ \A t \in SaleIds \ {s} : sales'[t] = sales[t]
        /\ orders' = orders /\ stock'[p] = stock[p] - c[p]
    BY <1>0, <1>7 DEF CreateSale, Withdraw, TypeOK
  <2> QED
    BY <1>5, <2>1, <2>2
\* A hold that overwrites no issued bill touches no completed one and no stock.
<1>8. ASSUME NEW s \in SaleIds, NEW c \in Carts, NEW y \in AllYears, HoldBill(s, c, y)
      PROVE  stock'[p] = Opening[p] + Received(p)' - Issued(p)'
  <2>1. /\ sales'[s].status = "held" /\ \A t \in SaleIds \ {s} : sales'[t] = sales[t]
        /\ orders' = orders /\ stock' = stock
    BY <1>0, <1>8 DEF HoldBill, TypeOK
  <2>2. sales[s].status # "completed"
    <3> SUFFICES ASSUME sales[s].status = "completed" PROVE FALSE
      OBVIOUS
    <3>1. IsIssued(s)
      BY DEF Books, StatusFitsSeries, NoSale, IsIssued
    <3>2. Kept(s)
      BY <3>1, BillKept
    <3> QED
      BY <1>0, <2>1, <3>2 DEF Kept, TypeOK, Sale
  <2>3. Issued(p)' = Issued(p)
    <3>1. CompletedSales' = CompletedSales /\ \A t \in CompletedSales : sales'[t] = sales[t]
      BY <2>1, <2>2 DEF CompletedSales
    <3> QED
      BY <3>1, IssuedSame
  <2> QED
    BY <1>1, <1>3, <2>1, <2>3
\* A cancellation gives back what the bill took; a held bill took nothing, and
\* its cancellation is the excluded case.
<1>9. ASSUME NEW s \in SaleIds, CancelSale(s)
      PROVE  stock'[p] = Opening[p] + Received(p)' - Issued(p)'
  <2>1. sales[s].status = "completed"
    <3>1. [sale |-> s, from |-> sales[s].status, txn |-> commits + 1] \in audit'
      BY <1>9 DEF CancelSale
    <3>2. sales[s].status # "held"
      BY <3>1
    <3> QED
      BY <1>0, <1>9, <3>2 DEF CancelSale, Cancellable, TypeOK, Sale
  <2>2. /\ sales'[s].status = "cancelled" /\ \A t \in SaleIds \ {s} : sales'[t] = sales[t]
        /\ orders' = orders /\ stock'[p] = stock[p] + sales[s].items[p]
    BY <1>0, <1>9 DEF CancelSale, TypeOK, Sale
  <2>3. s \in CompletedSales /\ CompletedSales' = CompletedSales \ {s}
    BY <2>1, <2>2 DEF CompletedSales
  <2>4. Issued(p)' = Issued(p) - sales[s].items[p]
    BY <1>0, <2>2, <2>3, IssuedLess
  <2> QED
    BY <1>1, <1>2, <1>3, <2>2, <2>4
<1>10. ASSUME NEW o \in OrderIds, NEW x \in Suppliers, NEW d \in Deliveries,
              ProcessStockIn(o, x, d)
       PROVE  stock'[p] = Opening[p] + Received(p)' - Issued(p)'
  <2>1. orders[o] = NoOrder
    BY <1>10 DEF ProcessStockIn, Books, BlankOrders
  <2>2. /\ orders'[o].goods = d.goods /\ \A q \in OrderIds \ {o} : orders'[q] = orders[q]
        /\ sales' = sales /\ stock'[p] = stock[p] + d.goods[p]
    BY <1>0, <1>10 DEF ProcessStockIn, TypeOK
  <2>3. Received(p)' = Received(p) + orders'[o].goods[p]
    BY <1>0, <2>1, <2>2, ReceivedMore
  <2> QED
    BY <1>1, <1>2, <1>4, <2>2, <2>3
<1>11. CASE UNCHANGED <<sales, orders, stock>>
  BY <1>1, <1>3, <1>4, <1>11
<1> QED
  BY <1>6, <1>7, <1>8, <1>9, <1>10, <1>11
  DEF Next, vars, Tick, StartSale, ReadLastBill, RejectSale, ResumeHeldBill, AppCrash

\* Stock is the opening plus what was delivered less what the completed bills
\* took, for any interleaving of sales, holds, cancellations, deliveries and
\* crashes, as long as no held bill has been cancelled and no issued bill held
\* over.
THEOREM StockAlwaysMatches == Spec => []StockMatchesBills
<1>1. Init => StockMatchesBills
  <2> SUFFICES ASSUME Init, NEW p \in Products
               PROVE  stock[p] = Opening[p] + Received(p) - Issued(p)
    BY DEF StockMatchesBills, StockIsExplained
  <2>1. TypeOK
    BY TypeInit
  <2>2. Issued(p) = 0
    <3>1. {s \in SaleIds : sales[s].status = "completed"} = {}
      BY DEF Init, NoSale
    <3> QED
      BY <3>1, SumEmpty DEF Issued
  <2>3. Received(p) = 0
    <3>1. \A o \in OrderIds : [q \in OrderIds |-> orders[q].goods[p]][o] = 0
      BY DEF Init, NoOrder, Nothing
    <3> QED
      BY <3>1, FiniteAssumption, SumOfZeros DEF Received
  <2> QED
    BY <2>1, <2>2, <2>3, TotalsTyped DEF Init
<1> QED
  BY <1>1, BooksInit, BooksNext, OutboxInit, OutboxNext, StockNext, PTL DEF Spec

-----------------------------------------------------------------------------
(* Payables *)

Unpaid(o) == IF orders[o].paid < orders[o].total THEN orders[o].total - orders[o].paid ELSE 0

LEMMA UnpaidTyped ==
    ASSUME TypeOK
    PROVE  \A o \in OrderIds : Unpaid(o) \in Int
  BY DEF TypeOK, Order, Unpaid

LEMMA PayableParts ==
    PayableMatchesOrders <=>
       \A x \in Suppliers :
          payable[x] = SumFunctionOnSet([o \in OrderIds |-> Unpaid(o)], OrdersOf(x))
  BY DEF PayableMatchesOrders, Unpaid

LEMMA PayableNext == Books /\ PayableMatchesOrders /\ [Next]_vars => PayableMatchesOrders'
<1> SUFFICES ASSUME Books, PayableMatchesOrders, [Next]_vars PROVE PayableMatchesOrders'
  OBVIOUS
<1>0. TypeOK /\ TypeOK'
  BY TypeNext DEF Books
<1>1. CASE UNCHANGED <<orders, payable>>
  BY <1>1 DEF PayableMatchesOrders, OrdersOf
<1>2. ASSUME NEW o \in OrderIds, NEW x \in Suppliers, NEW d \in Deliveries,
             ProcessStockIn(o, x, d)
      PROVE  PayableMatchesOrders'
  <2> DEFINE f == [q \in OrderIds |-> Unpaid(q)]
             h == [q \in OrderIds |-> Unpaid(q)']
  <2>1. /\ orders'[o] = [supplier |-> x, total |-> d.total, paid |-> d.paid, goods |-> d.goods]
        /\ \A q \in OrderIds \ {o} : orders'[q] = orders[q]
        /\ payable' = [payable EXCEPT ![x] = @ + Debt(d)]
        /\ orders[o].supplier = NoSupplier
    BY <1>0, <1>2 DEF ProcessStockIn, TypeOK
  <2>2. /\ \A q \in OrderIds \ {o} : h[q] = f[q]
        /\ \A q \in OrderIds : f[q] \in Int
        /\ h[o] = Debt(d) /\ Debt(d) \in Int
    <3>1. \A q \in OrderIds : f[q] \in Int
      BY <1>0, UnpaidTyped
    <3>2. \A q \in OrderIds \ {o} : h[q] = f[q]
      BY <2>1 DEF Unpaid
    <3>3. h[o] = Debt(d)
      BY <2>1 DEF Unpaid, Debt
    <3>4. Debt(d) \in Int
      BY DeliveriesAssumption DEF Debt
    <3> QED
      BY <3>1, <3>2, <3>3, <3>4
  <2>3. \A y \in Suppliers : payable[y] = SumFunctionOnSet(f, OrdersOf(y))
    BY PayableParts
  <2>4. \A y \in Suppliers : o \notin OrdersOf(y)
    BY <2>1, LabelAssumption DEF OrdersOf
  <2>5. \A y \in Suppliers : IsFiniteSet(OrdersOf(y)) /\ OrdersOf(y) \subseteq OrderIds
    BY FiniteAssumption, FS_Subset DEF OrdersOf
  <2>6. OrdersOf(x)' = OrdersOf(x) \cup {o} /\ \A y \in Suppliers \ {x} : OrdersOf(y)' = OrdersOf(y)
    BY <2>1, <2>4, LabelAssumption DEF OrdersOf
  <2> HIDE DEF f, h
  <2>7. payable'[x] = SumFunctionOnSet(h, OrdersOf(x) \cup {o})
    <3> DEFINE S == OrdersOf(x)
    <3>1. /\ IsFiniteSet(S) /\ o \notin S
          /\ \A q \in S : f[q] \in Int /\ h[q] = f[q]
      BY <2>2, <2>4, <2>5
    <3> HIDE DEF S
    <3>2. SumFunctionOnSet(h, S \cup {o}) = SumFunctionOnSet(f, S) + h[o]
      BY <2>2, <3>1, SumInsert
    <3> QED
      BY <1>0, <2>1, <2>2, <2>3, <3>2 DEF S, TypeOK
  <2>8. ASSUME NEW y \in Suppliers \ {x} PROVE payable'[y] = SumFunctionOnSet(h, OrdersOf(y))
    <3> DEFINE S == OrdersOf(y)
    <3>1. IsFiniteSet(S) /\ \A q \in S : f[q] = h[q]
      BY <2>2, <2>4, <2>5
    <3> HIDE DEF S
    <3>2. SumFunctionOnSet(f, S) = SumFunctionOnSet(h, S)
      BY <3>1, SumAgrees
    <3> QED
      BY <1>0, <2>1, <2>3, <3>2 DEF S, TypeOK
  <2>9. \A y \in Suppliers : payable'[y] = SumFunctionOnSet(h, OrdersOf(y)')
    BY <2>6, <2>7, <2>8
  <2> QED
    BY <2>9 DEF h, PayableMatchesOrders, Unpaid
<1>3. ASSUME NEW s \in SaleIds, CommitSale(s) PROVE UNCHANGED <<orders, payable>>
  BY <1>3 DEF CommitSale
<1>4. ASSUME NEW s \in SaleIds, CancelSale(s) PROVE UNCHANGED <<orders, payable>>
  BY <1>4 DEF CancelSale
<1>5. ASSUME NEW s \in SaleIds, NEW c \in Carts, NEW y \in AllYears,
             CreateSale(s, c, y) \/ HoldBill(s, c, y)
      PROVE  UNCHANGED <<orders, payable>>
  BY <1>5 DEF CreateSale, HoldBill
<1> QED
  BY <1>1, <1>2, <1>3, <1>4, <1>5
  DEF Next, vars, Tick, StartSale, ReadLastBill, RejectSale, ResumeHeldBill, AppCrash,
      CreateSale, AllYears

\* What a supplier is owed is the sum over its orders of what each left
\* unpaid, whatever else the terminal does in between.
THEOREM PayableAlwaysMatches == Spec => []PayableMatchesOrders
<1>1. Init => PayableMatchesOrders
  <2> SUFFICES ASSUME Init, NEW x \in Suppliers
               PROVE  payable[x] = SumFunctionOnSet([o \in OrderIds |-> Unpaid(o)], OrdersOf(x))
    BY PayableParts
  <2>1. OrdersOf(x) = {}
    BY LabelAssumption DEF Init, OrdersOf, NoOrder
  <2> QED
    BY <2>1, SumEmpty DEF Init
<1> QED
  BY <1>1, BooksInit, BooksNext, PayableNext, PTL DEF Spec

-----------------------------------------------------------------------------
(* The engine implements the book of bills *)

LEMMA BookInit == Init => Book!Init
<1> SUFFICES ASSUME Init PROVE Book!Init
  OBVIOUS
<1>1. BookOf = [s \in SaleIds |-> Book!Absent]
  BY DEF Init, BookOf, Book!Absent, NoSale, KindOfSeries, Nothing
<1>2. stock = Opening
  BY DEF Init
<1>3. [o \in OrderIds |-> orders[o].goods] = [o \in OrderIds |-> [p \in Products |-> 0]]
  BY DEF Init, NoOrder, Nothing
<1>4. NoticesOf = [issued |-> {}, voided |-> {}, received |-> {}]
  BY DEF Init, NoticesOf, Queued
<1> QED
  BY <1>1, <1>2, <1>3, <1>4 DEF Book!Init

\* A step that leaves bills, stock, orders and outbox alone is none of the book's.
LEMMA BookStutters ==
    ASSUME sales' = sales, stock' = stock, orders' = orders, queue' = queue
    PROVE  UNCHANGED Book!bookVars
  BY DEF Book!bookVars, BookOf, NoticesOf, Queued

\* A step on one bill rewrites that bill of the book.
LEMMA BookRewritten ==
    ASSUME NEW s \in SaleIds, \A t \in SaleIds \ {s} : sales'[t] = sales[t]
    PROVE  BookOf' = [BookOf EXCEPT ![s] = BookOf'[s]]
  BY DEF BookOf

\* What the rows a transaction adds tell the server.
Told(rows, table, op, recs) == {x \in recs : \E r \in rows : r.table = table /\ r.rec = x /\ r.op = op}

LEMMA NoticesShape ==
    \E i, v, r : NoticesOf = [issued |-> i, voided |-> v, received |-> r]
  BY DEF NoticesOf

LEMMA NoticesGrow ==
    ASSUME NEW rows, queue' = queue \cup rows
    PROVE  NoticesOf' = [issued   |-> NoticesOf.issued \cup Told(rows, "sales", "INSERT", SaleIds),
                         voided   |-> NoticesOf.voided \cup Told(rows, "sales", "UPDATE", SaleIds),
                         received |-> NoticesOf.received
                                        \cup Told(rows, "purchase_orders", "INSERT", OrderIds)]
<1>1. ASSUME NEW table, NEW op, NEW recs
      PROVE  {x \in recs : Queued(table, x, op)'}
                = {x \in recs : Queued(table, x, op)} \cup Told(rows, table, op, recs)
  BY DEF Queued, Told
<1> QED
  BY <1>1 DEF NoticesOf

\* completeSale: a guarded sale.
LEMMA CommitSells ==
    ASSUME Books, NEW s \in SaleIds, CommitSale(s)
    PROVE  Book!Sell(s)
<1> DEFINE k == calls[s]
           rows == {Row("sales", s, "INSERT", k.now)}
                     \cup {Row("sale_items", <<s, p>>, "INSERT", k.now) : p \in Lines(k.cart)}
<1>0. TypeOK /\ k.cart \in Quantities
  BY DEF Books, TypeOK, Call
<1>1. sales[s].status = "absent"
  BY DEF CommitSale, Books, CallsAreFresh, NoSale
<1>2. /\ sales'[s].status = "completed" /\ sales'[s].series = "UROS" /\ sales'[s].items = k.cart
      /\ \A t \in SaleIds \ {s} : sales'[t] = sales[t]
      /\ orders' = orders /\ stock' = Withdraw(k.cart) /\ Sufficient(k.cart)
  BY <1>0 DEF CommitSale, TypeOK
<1>3. queue' = queue \cup rows
  BY DEF CommitSale, Enqueue
<1>4. /\ Told(rows, "sales", "INSERT", SaleIds) = {s}
      /\ Told(rows, "sales", "UPDATE", SaleIds) = {}
      /\ Told(rows, "purchase_orders", "INSERT", OrderIds) = {}
  <2>1. Row("sales", s, "INSERT", k.now) \in rows
    OBVIOUS
  <2>2. \A r \in rows : /\ r.table \in {"sales", "sale_items"} /\ r.op = "INSERT"
                        /\ r.table = "sales" => r.rec = s
    BY DEF Row
  <2>3. /\ Row("sales", s, "INSERT", k.now).table = "sales"
        /\ Row("sales", s, "INSERT", k.now).rec = s
        /\ Row("sales", s, "INSERT", k.now).op = "INSERT"
    BY DEF Row
  <2> HIDE DEF rows
  <2> QED
    BY <2>1, <2>2, <2>3 DEF Told
<1> HIDE DEF rows
<1>5. NoticesOf' = [NoticesOf EXCEPT !.issued = @ \cup {s}]
  <2>1. queue' = queue \cup rows
    BY <1>3
  <2>2. NoticesOf' =
          [issued   |-> NoticesOf.issued \cup Told(rows, "sales", "INSERT", SaleIds),
           voided   |-> NoticesOf.voided \cup Told(rows, "sales", "UPDATE", SaleIds),
           received |-> NoticesOf.received \cup Told(rows, "purchase_orders", "INSERT", OrderIds)]
    BY <2>1, NoticesGrow
  <2>3. PICK i, v, r : NoticesOf = [issued |-> i, voided |-> v, received |-> r]
    BY NoticesShape
  <2> QED
    BY <1>4, <2>2, <2>3
<1>6. BookOf' = [BookOf EXCEPT ![s] = BookOf'[s]]
  BY <1>2, BookRewritten
<1>7. /\ BookOf[s].status = "absent"
      /\ BookOf'[s] = [status |-> "completed", kind |-> "guarded", items |-> k.cart]
  BY <1>1, <1>2 DEF BookOf, KindOfSeries
<1>8. stock' = [p \in Products |-> stock[p] - BookOf'[s].items[p]]
  BY <1>2, <1>7 DEF Withdraw
<1>9. Book!Covered(BookOf'[s].items)
  BY <1>2, <1>7 DEF Sufficient, Lines, Book!Covered
<1> HIDE DEF k
<1>10. BookOf'[s] \in [status : {"completed"}, kind : {"guarded", "plain"}, items : Book!Amounts]
  BY <1>0, <1>7 DEF Book!Amounts, Quantities
<1>11. [o \in OrderIds |-> orders'[o].goods] = [o \in OrderIds |-> orders[o].goods]
  BY <1>2
<1> QED
  BY <1>5, <1>6, <1>7, <1>8, <1>9, <1>10, <1>11 DEF Book!Sell, Book!Rewrites

\* createSale: a plain sale.
LEMMA CreateSells ==
    ASSUME Books, NEW s \in SaleIds, NEW c \in Carts, NEW y \in DraftYears, CreateSale(s, c, y)
    PROVE  Book!Sell(s)
<1> DEFINE rows == {Row("sales", s, "INSERT", clock)}
<1>0. TypeOK /\ c \in Quantities
  BY CartsAssumption DEF Books
<1>1. /\ sales[s].status = "absent"
      /\ sales'[s].status = "completed" /\ sales'[s].series = "INV" /\ sales'[s].items = c
      /\ \A t \in SaleIds \ {s} : sales'[t] = sales[t]
      /\ orders' = orders /\ stock' = Withdraw(c)
  BY <1>0 DEF CreateSale, Unused, TypeOK
<1>2. queue' = queue \cup rows
  BY DEF CreateSale, Enqueue
<1>3. /\ Told(rows, "sales", "INSERT", SaleIds) = {s}
      /\ Told(rows, "sales", "UPDATE", SaleIds) = {}
      /\ Told(rows, "purchase_orders", "INSERT", OrderIds) = {}
  BY DEF Told, Row
<1> HIDE DEF rows
<1>4. NoticesOf' = [NoticesOf EXCEPT !.issued = @ \cup {s}]
  <2>1. queue' = queue \cup rows
    BY <1>2
  <2>2. NoticesOf' =
          [issued   |-> NoticesOf.issued \cup Told(rows, "sales", "INSERT", SaleIds),
           voided   |-> NoticesOf.voided \cup Told(rows, "sales", "UPDATE", SaleIds),
           received |-> NoticesOf.received \cup Told(rows, "purchase_orders", "INSERT", OrderIds)]
    BY <2>1, NoticesGrow
  <2>3. PICK i, v, r : NoticesOf = [issued |-> i, voided |-> v, received |-> r]
    BY NoticesShape
  <2> QED
    BY <1>3, <2>2, <2>3
<1>5. BookOf' = [BookOf EXCEPT ![s] = BookOf'[s]]
  BY <1>1, BookRewritten
<1>6. /\ BookOf[s].status = "absent"
      /\ BookOf'[s] = [status |-> "completed", kind |-> "plain", items |-> c]
  BY <1>1 DEF BookOf, KindOfSeries
<1>7. stock' = [p \in Products |-> stock[p] - BookOf'[s].items[p]]
  BY <1>1, <1>6 DEF Withdraw
<1>8. /\ BookOf'[s] \in [status : {"completed"}, kind : {"guarded", "plain"}, items : Book!Amounts]
      /\ BookOf'[s].kind # "guarded"
  BY <1>0, <1>6 DEF Book!Amounts, Quantities
<1>9. [o \in OrderIds |-> orders'[o].goods] = [o \in OrderIds |-> orders[o].goods]
  BY <1>1
<1> QED
  BY <1>4, <1>5, <1>6, <1>7, <1>8, <1>9 DEF Book!Sell, Book!Rewrites

\* holdBill: a draft is parked, or an issued bill put back.
LEMMA HoldParks ==
    ASSUME Books, NEW s \in SaleIds, NEW c \in Carts, NEW y \in AllYears, HoldBill(s, c, y)
    PROVE  Book!Park(s) \/ Book!PutBack(s)
<1>0. TypeOK /\ c \in Quantities /\ sales[s].items \in Quantities
  BY CartsAssumption DEF Books, TypeOK, Sale
<1>1. sales[s].series \in {"none", "HOLD", "UROS", "INV"}
  BY <1>0 DEF TypeOK, Sale
<1>2. /\ sales'[s].status = "held" /\ sales'[s].series = "HOLD"
      /\ sales'[s].items = [p \in Products |-> IF c[p] > 0 THEN c[p] ELSE sales[s].items[p]]
      /\ \A t \in SaleIds \ {s} : sales'[t] = sales[t]
      /\ orders' = orders /\ stock' = stock /\ queue' = queue
  BY <1>0 DEF HoldBill, Enqueue, TypeOK
<1>3. sales'[s].items \in Quantities
  BY <1>0, <1>2 DEF Quantities
<1>4. BookOf' = [BookOf EXCEPT ![s] = BookOf'[s]]
  BY <1>2, BookRewritten
<1>5. /\ BookOf[s].kind \in {"none", "parked", "guarded", "plain"}
      /\ BookOf'[s] = [status |-> "held", kind |-> "parked", items |-> sales'[s].items]
      /\ BookOf[s].items = sales[s].items
  BY <1>1, <1>2 DEF BookOf, KindOfSeries
<1>6. BookOf'[s] \in [status : {"held"}, kind : {"parked"}, items : Book!Amounts]
  BY <1>3, <1>5 DEF Book!Amounts, Quantities
<1>7. [o \in OrderIds |-> orders'[o].goods] = [o \in OrderIds |-> orders[o].goods]
  BY <1>2
<1>8. NoticesOf' = NoticesOf
  BY <1>2 DEF NoticesOf, Queued
<1>9. \A p \in Products : BookOf[s].items[p] > 0 => BookOf'[s].items[p] > 0
  BY <1>2, <1>5
<1> QED
  BY <1>2, <1>4, <1>5, <1>6, <1>7, <1>8, <1>9 DEF Book!Park, Book!PutBack, Book!Rewrites

\* cancelSale: a bill is voided.
LEMMA CancelVoids ==
    ASSUME Books, NEW s \in SaleIds, CancelSale(s)
    PROVE  Book!Void(s)
<1> DEFINE rows == CancelRows(s)
<1>0. TypeOK
  BY DEF Books
<1>1. sales[s].status \in {"completed", "held"}
  BY <1>0 DEF CancelSale, Cancellable, TypeOK, Sale
<1>2. /\ sales'[s] = [sales[s] EXCEPT !.status = "cancelled"]
      /\ \A t \in SaleIds \ {s} : sales'[t] = sales[t]
      /\ orders' = orders /\ stock' = [p \in Products |-> stock[p] + sales[s].items[p]]
  BY <1>0 DEF CancelSale, TypeOK
<1>3. queue' = queue \cup rows
  BY DEF CancelSale, Enqueue
<1>4. /\ Told(rows, "sales", "INSERT", SaleIds) = {}
      /\ Told(rows, "sales", "UPDATE", SaleIds) = {s}
      /\ Told(rows, "purchase_orders", "INSERT", OrderIds) = {}
  <2>1. Row("sales", s, "UPDATE", clock) \in rows
    BY DEF CancelRows
  <2>2. \A r \in rows : /\ r.table \in {"products", "sales", "audit_trail"}
                        /\ r.table = "sales" => r.rec = s /\ r.op = "UPDATE"
    BY DEF CancelRows, Row
  <2>3. /\ Row("sales", s, "UPDATE", clock).table = "sales"
        /\ Row("sales", s, "UPDATE", clock).rec = s
        /\ Row("sales", s, "UPDATE", clock).op = "UPDATE"
    BY DEF Row
  <2> HIDE DEF rows
  <2> QED
    BY <2>1, <2>2, <2>3 DEF Told
<1> HIDE DEF rows
<1>5. NoticesOf' = [NoticesOf EXCEPT !.voided = @ \cup {s}]
  <2>1. queue' = queue \cup rows
    BY <1>3
  <2>2. NoticesOf' =
          [issued   |-> NoticesOf.issued \cup Told(rows, "sales", "INSERT", SaleIds),
           voided   |-> NoticesOf.voided \cup Told(rows, "sales", "UPDATE", SaleIds),
           received |-> NoticesOf.received \cup Told(rows, "purchase_orders", "INSERT", OrderIds)]
    BY <2>1, NoticesGrow
  <2>3. PICK i, v, r : NoticesOf = [issued |-> i, voided |-> v, received |-> r]
    BY NoticesShape
  <2>4. NoticesOf.issued = i /\ NoticesOf.voided = v /\ NoticesOf.received = r
    BY <2>3
  <2>5. NoticesOf' = [issued |-> i, voided |-> v \cup {s}, received |-> r]
    BY <1>4, <2>2, <2>4
  <2> QED
    BY <2>3, <2>5
<1>6. /\ BookOf' = [BookOf EXCEPT ![s] = BookOf'[s]]
      /\ BookOf[s].status = sales[s].status /\ BookOf[s].items = sales[s].items
      /\ BookOf'[s] = [BookOf[s] EXCEPT !.status = "cancelled"]
  <2>1. /\ sales'[s].status = "cancelled" /\ sales'[s].series = sales[s].series
        /\ sales'[s].items = sales[s].items
    BY <1>0, <1>2 DEF TypeOK, Sale
  <2>2. BookOf' = [BookOf EXCEPT ![s] = BookOf'[s]]
    BY <1>2, BookRewritten
  <2>3. BookOf[s].status = sales[s].status /\ BookOf[s].items = sales[s].items
    BY DEF BookOf
  <2>4. BookOf'[s] = [BookOf[s] EXCEPT !.status = "cancelled"]
    BY <2>1 DEF BookOf
  <2> QED
    BY <2>2, <2>3, <2>4
<1>7. BookOf' = [BookOf EXCEPT ![s].status = "cancelled"]
  BY <1>6 DEF BookOf
<1>8. stock' = [p \in Products |-> stock[p] + BookOf[s].items[p]] /\ BookOf[s].status = sales[s].status
  BY <1>2, <1>6
<1>9. [o \in OrderIds |-> orders'[o].goods] = [o \in OrderIds |-> orders[o].goods]
  BY <1>2
<1> QED
  BY <1>1, <1>5, <1>7, <1>8, <1>9 DEF Book!Void

\* processStockIn: a delivery is received, once.
LEMMA StockInReceives ==
    ASSUME Books, OutboxMatchesBooks, NEW o \in OrderIds, NEW x \in Suppliers, NEW d \in Deliveries,
           ProcessStockIn(o, x, d)
    PROVE  Book!Receive(o)
<1> DEFINE rows == StockInRows(o, x, d)
           goods == [q \in OrderIds |-> orders[q].goods]
           goodsNow == [q \in OrderIds |-> orders'[q].goods]
<1>0. TypeOK /\ d.goods \in Quantities
  BY DeliveriesAssumption DEF Books
<1>1. /\ orders[o].supplier = NoSupplier /\ orders'[o].goods = d.goods
      /\ \A q \in OrderIds \ {o} : orders'[q] = orders[q]
      /\ sales' = sales /\ stock' = [p \in Products |-> stock[p] + d.goods[p]]
  BY <1>0 DEF ProcessStockIn, TypeOK
<1>2. queue' = queue \cup rows
  BY DEF ProcessStockIn, Enqueue
<1>3. /\ Told(rows, "sales", "INSERT", SaleIds) = {}
      /\ Told(rows, "sales", "UPDATE", SaleIds) = {}
      /\ Told(rows, "purchase_orders", "INSERT", OrderIds) = {o}
  <2>1. Row("purchase_orders", o, "INSERT", clock) \in rows
    BY DEF StockInRows
  <2>2. \A r \in rows : /\ r.table \in {"products", "purchase_orders", "suppliers"}
                        /\ r.table = "purchase_orders" => r.rec = o
    BY DEF StockInRows, Row
  <2>3. /\ Row("purchase_orders", o, "INSERT", clock).table = "purchase_orders"
        /\ Row("purchase_orders", o, "INSERT", clock).rec = o
        /\ Row("purchase_orders", o, "INSERT", clock).op = "INSERT"
    BY DEF Row
  <2> HIDE DEF rows
  <2> QED
    BY <2>1, <2>2, <2>3 DEF Told
<1> HIDE DEF rows
<1>4. NoticesOf' = [NoticesOf EXCEPT !.received = @ \cup {o}]
  <2>1. queue' = queue \cup rows
    BY <1>2
  <2>2. NoticesOf' =
          [issued   |-> NoticesOf.issued \cup Told(rows, "sales", "INSERT", SaleIds),
           voided   |-> NoticesOf.voided \cup Told(rows, "sales", "UPDATE", SaleIds),
           received |-> NoticesOf.received \cup Told(rows, "purchase_orders", "INSERT", OrderIds)]
    BY <2>1, NoticesGrow
  <2>3. PICK i, v, r : NoticesOf = [issued |-> i, voided |-> v, received |-> r]
    BY NoticesShape
  <2> QED
    BY <1>3, <2>2, <2>3
<1>5. o \notin NoticesOf.received
  BY <1>1 DEF NoticesOf, Queued, OutboxMatchesBooks
<1>6. /\ goodsNow = [goods EXCEPT ![o] = goodsNow[o]]
      /\ goodsNow[o] \in Book!Amounts
      /\ stock' = [p \in Products |-> stock[p] + goodsNow[o][p]]
  BY <1>0, <1>1 DEF Book!Amounts, Quantities
<1>7. BookOf' = BookOf
  BY <1>1 DEF BookOf
<1> QED
  BY <1>4, <1>5, <1>6, <1>7 DEF Book!Receive

LEMMA BookNext ==
    Books /\ OutboxMatchesBooks /\ [Next]_vars => [Book!Next]_(Book!bookVars)
<1> SUFFICES ASSUME Books, OutboxMatchesBooks, [Next]_vars
             PROVE  Book!Next \/ UNCHANGED Book!bookVars
  OBVIOUS
<1>1. ASSUME NEW s \in SaleIds, CommitSale(s) PROVE Book!Next
  BY <1>1, CommitSells DEF Book!Next
<1>2. ASSUME NEW s \in SaleIds, NEW c \in Carts, NEW y \in DraftYears, CreateSale(s, c, y)
      PROVE  Book!Next
  BY <1>2, CreateSells DEF Book!Next
<1>3. ASSUME NEW s \in SaleIds, NEW c \in Carts, NEW y \in AllYears, HoldBill(s, c, y)
      PROVE  Book!Next
  BY <1>3, HoldParks DEF Book!Next
<1>4. ASSUME NEW s \in SaleIds, CancelSale(s) PROVE Book!Next
  BY <1>4, CancelVoids DEF Book!Next
<1>5. ASSUME NEW o \in OrderIds, NEW x \in Suppliers, NEW d \in Deliveries,
             ProcessStockIn(o, x, d)
      PROVE  Book!Next
  BY <1>5, StockInReceives DEF Book!Next
<1>6. CASE UNCHANGED <<sales, stock, orders, queue>>
  BY <1>6, BookStutters
<1> QED
  BY <1>1, <1>2, <1>3, <1>4, <1>5, <1>6
  DEF Next, vars, Tick, StartSale, ReadLastBill, RejectSale, ResumeHeldBill, AppCrash

\* "The UI never sees a partial sale": every step of the engine is one whole
\* step of the book, in which bill, stock and outbox move together, or none.
THEOREM EngineImplementsBook == Spec => ImplementsBook
  BY BookInit, BooksInit, BooksNext, OutboxInit, OutboxNext, BookNext, PTL
  DEF Spec, ImplementsBook, Book!Spec

-----------------------------------------------------------------------------
(* The totals of a bill: what MCSalesEngine checks on small carts, for every *)
(* amount.                                                                    *)

Arithmetic == INSTANCE Billing

\* Rounding leaves whole paisa alone and moves by whole paisa.
LEMMA RoundWhole ==
    ASSUME NEW a \in Int, NEW v \in Int
    PROVE  Arithmetic!Round2(100 * a + v) = a + Arithmetic!Round2(v)
<1>1. (100 * a + v + 50) \div 100 = a + ((v + 50) \div 100)
  BY Z3
<1> QED
  BY <1>1 DEF Arithmetic!Round2

\* completeSale (and the cart on the screen) and createSale, holdBill never
\* disagree on a bill of whole paisa, although they round at different places.
THEOREM TotalsAgree ==
    ASSUME NEW taxable \in Nat, NEW nonTaxable \in Nat
    PROVE  Arithmetic!SalesTotals(taxable, nonTaxable)
             = Arithmetic!VatServiceTotals(taxable, nonTaxable)
<1> DEFINE sub == taxable + nonTaxable
           vat == Arithmetic!Round2(13 * taxable)
<1>1. vat \in Int
  BY DEF Arithmetic!Round2
<1>2. Arithmetic!Round2(0) = 0
  BY DEF Arithmetic!Round2
<1>3. Arithmetic!Round2(100 * (sub + vat)) = sub + vat
  <2>1. sub + vat \in Int
    BY <1>1
  <2>2. Arithmetic!Round2(100 * (sub + vat) + 0) = sub + vat + Arithmetic!Round2(0)
    BY <2>1, RoundWhole
  <2>3. 100 * (sub + vat) + 0 = 100 * (sub + vat) /\ sub + vat + 0 = sub + vat
    BY <1>1
  <2> QED
    BY <1>2, <2>2, <2>3
<1>4. Arithmetic!Round2(100 * sub + 13 * taxable) = sub + vat
  BY RoundWhole
<1> QED
  BY <1>3, <1>4 DEF Arithmetic!SalesTotals, Arithmetic!VatServiceTotals

\* A conversion along a rule and the one back, against it, leave a quantity as
\* it was, for every factor and quantity (convertUnit).
THEOREM ConversionsInvert ==
    ASSUME NEW factor, NEW from, NEW to, from # to, NEW k \in Nat \ {0}, NEW quantity \in Nat,
           factor[<<from, to>>] = k, factor[<<to, from>>] = 0
    PROVE  Arithmetic!ConvertUnit(factor, Arithmetic!ConvertUnit(factor, quantity, from, to), to, from)
             = quantity
<1>1. Arithmetic!ConvertUnit(factor, quantity, from, to) = quantity * k
  BY DEF Arithmetic!ConvertUnit
<1>2. Arithmetic!ConvertUnit(factor, quantity * k, to, from) = (quantity * k) \div k
  BY DEF Arithmetic!ConvertUnit
<1>3. (quantity * k) \div k = quantity
  <2>1. PICK a \in Nat : a = quantity * k
    OBVIOUS
  <2>2. PICK q \in Int : q = a \div k
    OBVIOUS
  <2>3. k * q <= a /\ a < k * q + k
    BY <2>2, Z3
  <2>4. CASE q < quantity
    <3>1. PICK d \in Nat : quantity = q + 1 + d
      BY <2>4
    <3>2. a = k * q + k + k * d /\ k * d >= 0
      BY <2>1, <3>1, Z3
    <3> QED
      BY <2>3, <3>2
  <2>5. CASE q > quantity
    <3>1. PICK d \in Nat : q = quantity + 1 + d
      BY <2>5
    <3>2. k * q = a + k + k * d /\ k * d >= 0
      BY <2>1, <3>1, Z3
    <3> QED
      BY <2>3, <3>2
  <2> QED
    BY <2>1, <2>2, <2>4, <2>5
<1> QED
  BY <1>1, <1>2, <1>3

\* The lines of a cart over these products whose price is that of their unit.
PricedLine(products) ==
    {line \in [product : {p.id : p \in products}, unit : {"pc", "bx"}, quantity : Int,
               unitPrice : Nat, isVatApplicable : BOOLEAN] :
        \E p \in products :
           /\ line.product = p.id
           /\ line.unitPrice = p.sellingPrice * (IF line.unit = "bx" THEN Arithmetic!PiecesPerBox ELSE 1)}

LEMMA SwitchKeepsPrice ==
    ASSUME NEW products, \A p \in products : p.sellingPrice \in Nat,
           NEW line \in PricedLine(products), NEW unit \in {"pc", "bx"}
    PROVE  [line EXCEPT !.unit = unit, !.unitPrice = Arithmetic!SwitchedPrice(line, unit)]
             \in PricedLine(products)
<1>1. PICK p \in products :
         /\ line.product = p.id /\ p.sellingPrice \in Nat
         /\ line.unitPrice = p.sellingPrice * (IF line.unit = "bx" THEN Arithmetic!PiecesPerBox ELSE 1)
  BY DEF PricedLine
<1>2. PICK c \in Nat : c = p.sellingPrice
  BY <1>1
<1>3. /\ line.product \in {q.id : q \in products} /\ line.unit \in {"pc", "bx"}
      /\ line.quantity \in Int /\ line.isVatApplicable \in BOOLEAN
      /\ line \in [product : {q.id : q \in products}, unit : {"pc", "bx"}, quantity : Int,
                   unitPrice : Nat, isVatApplicable : BOOLEAN]
  BY DEF PricedLine
<1>4. line.unitPrice = IF line.unit = "bx" THEN 24 * c ELSE c
  BY <1>1, <1>2 DEF Arithmetic!PiecesPerBox
<1>5. PICK price \in Nat :
         /\ price = Arithmetic!SwitchedPrice(line, unit)
         /\ price = c * (IF unit = "bx" THEN Arithmetic!PiecesPerBox ELSE 1)
  <2>1. c * 24 = 24 * c /\ c * 1 = c /\ 24 * c \in Nat /\ (24 * c) \div 24 = c
    OBVIOUS
  <2>2. Arithmetic!SwitchedPrice(line, unit) = IF unit = "bx" THEN 24 * c ELSE c
    BY <1>3, <1>4, <2>1 DEF Arithmetic!SwitchedPrice, Arithmetic!PiecesPerBox
  <2> QED
    BY <2>1, <2>2 DEF Arithmetic!PiecesPerBox
<1>6. PICK r : r = [line EXCEPT !.unit = unit, !.unitPrice = price]
  OBVIOUS
<1>7. /\ r \in [product : {q.id : q \in products}, unit : {"pc", "bx"}, quantity : Int,
                unitPrice : Nat, isVatApplicable : BOOLEAN]
      /\ r.product = line.product /\ r.unit = unit /\ r.unitPrice = price
  BY <1>3, <1>6
<1> QED
  BY <1>1, <1>2, <1>5, <1>6, <1>7 DEF PricedLine

\* Whatever the cashier does next, scan, change a quantity, switch a unit or
\* remove a line, the price of every line stays that of its unit: 24 pieces to
\* the box and back, for every cart and every price (CartNotifier).
THEOREM EditsKeepPrices ==
    ASSUME NEW products,
           \A p \in products : p.sellingPrice \in Nat /\ p.isVatApplicable \in BOOLEAN,
           NEW items \in Seq(PricedLine(products))
    PROVE  Arithmetic!Edits(items, products) \subseteq Seq(PricedLine(products))
<1> DEFINE Line == PricedLine(products)
<1>1. /\ Len(items) \in Nat /\ DOMAIN items = 1..Len(items)
      /\ items \in [1..Len(items) -> Line] /\ items \in Seq(Line)
      /\ \A i \in DOMAIN items : items[i] \in Line
  BY LenProperties, ElementOfSeq
<1>2. ASSUME NEW i \in DOMAIN items, NEW line \in Line
      PROVE  [items EXCEPT ![i] = line] \in Seq(Line)
  <2> HIDE DEF Line
  <2>1. [items EXCEPT ![i] = line] \in [1..Len(items) -> Line]
    BY <1>1
  <2> QED
    BY <1>1, <2>1, SeqDef
<1>3. ASSUME NEW i \in DOMAIN items, NEW quantity \in Int
      PROVE  [items EXCEPT ![i].quantity = quantity] \in Seq(Line)
  <2>1. PICK line \in Line : line = [items[i] EXCEPT !.quantity = quantity]
    <3>1. PICK old \in Line : old = items[i]
      BY <1>1
    <3>2. [old EXCEPT !.quantity = quantity] \in Line
      BY DEF PricedLine
    <3> QED
      BY <3>1, <3>2
  <2>2. [items EXCEPT ![i].quantity = quantity] = [items EXCEPT ![i] = line]
    BY <2>1
  <2> QED
    BY <1>2, <2>2
<1>4. ASSUME NEW i \in DOMAIN items PROVE Arithmetic!RemoveAt(items, i) \in Seq(Line)
  <2> HIDE DEF Line
  <2>1. i \in 1..Len(items)
    BY <1>1
  <2>2. /\ 1 \in Int /\ i - 1 \in Int /\ i + 1 \in Int /\ Len(items) \in Int
        /\ \A k \in 1..(i - 1) : items[k] \in Line
        /\ \A k \in (i + 1)..Len(items) : items[k] \in Line
    BY <1>1, <2>1
  <2>3. SubSeq(items, 1, i - 1) \in Seq(Line)
    BY <2>2, SubSeqProperties
  <2>4. SubSeq(items, i + 1, Len(items)) \in Seq(Line)
    BY <2>2, SubSeqProperties
  <2>5. SubSeq(items, 1, i - 1) \o SubSeq(items, i + 1, Len(items)) \in Seq(Line)
    BY <2>3, <2>4, ConcatProperties
  <2> QED
    BY <2>5 DEF Arithmetic!RemoveAt
<1>5. ASSUME NEW p \in products PROVE Arithmetic!AddProduct(items, p) \in Seq(Line)
  <2> DEFINE same == {i \in DOMAIN items : items[i].product = p.id /\ items[i].unit = "pc"}
  <2>1. CASE same = {}
    <3>1. PICK line \in Line : line = [product |-> p.id, unit |-> "pc", quantity |-> 1,
                                      unitPrice |-> p.sellingPrice,
                                      isVatApplicable |-> p.isVatApplicable]
      <4> DEFINE new == [product |-> p.id, unit |-> "pc", quantity |-> 1,
                         unitPrice |-> p.sellingPrice, isVatApplicable |-> p.isVatApplicable]
      <4>1. p.id \in {q.id : q \in products} /\ p.sellingPrice \in Nat /\ p.isVatApplicable \in BOOLEAN
        OBVIOUS
      <4>2. new \in [product : {q.id : q \in products}, unit : {"pc", "bx"}, quantity : Int,
                    unitPrice : Nat, isVatApplicable : BOOLEAN]
        BY <4>1
      <4>3. /\ new.product = p.id
            /\ new.unitPrice = p.sellingPrice * (IF new.unit = "bx" THEN Arithmetic!PiecesPerBox ELSE 1)
        BY <4>1
      <4>4. new \in Line
        <5> HIDE DEF new
        <5> QED
          BY <4>2, <4>3 DEF PricedLine
      <4> QED
        BY <4>4
    <3>2. Arithmetic!AddProduct(items, p) = Append(items, line)
      BY <2>1, <3>1 DEF Arithmetic!AddProduct
    <3> HIDE DEF Line
    <3> QED
      BY <1>1, <3>2, AppendProperties
  <2>2. CASE same # {}
    <3> DEFINE first == CHOOSE i \in same : \A j \in same : i <= j
    <3>1. first \in same
      <4>1. same \in SUBSET (1..Len(items))
        BY <1>1
      <4>2. \E i \in same : \A j \in same : i <= j
        <5> HIDE DEF same
        <5> QED
          BY <1>1, <2>2, <4>1, LeastNumber
      <4> HIDE DEF same
      <4> QED
        BY <4>2
    <3>2. PICK i \in DOMAIN items : i = first
      BY <3>1
    <3>3. PICK quantity \in Int : quantity = items[i].quantity + 1
      BY <1>1 DEF PricedLine
    <3>4. Arithmetic!AddProduct(items, p) = [items EXCEPT ![first].quantity = @ + 1]
      BY <2>2 DEF Arithmetic!AddProduct
    <3> HIDE DEF first
    <3>5. Arithmetic!AddProduct(items, p) = [items EXCEPT ![i].quantity = quantity]
      BY <3>2, <3>3, <3>4
    <3> QED
      BY <1>3, <3>5
  <2> QED
    BY <2>1, <2>2
<1>6. ASSUME NEW i \in DOMAIN items, NEW quantity \in Int
      PROVE  Arithmetic!UpdateQuantity(items, i, quantity) \in Seq(Line)
  BY <1>3, <1>4 DEF Arithmetic!UpdateQuantity
<1>7. ASSUME NEW i \in DOMAIN items, NEW unit \in {"pc", "bx"}
      PROVE  Arithmetic!SwitchUnit(items, i, unit) \in Seq(Line)
  <2>1. PICK line \in Line : line = [items[i] EXCEPT !.unit = unit,
                                       !.unitPrice = Arithmetic!SwitchedPrice(items[i], unit)]
    <3>1. PICK old \in Line : old = items[i]
      BY <1>1
    <3>2. [old EXCEPT !.unit = unit, !.unitPrice = Arithmetic!SwitchedPrice(old, unit)] \in Line
      BY SwitchKeepsPrice
    <3> QED
      BY <3>1, <3>2
  <2>2. Arithmetic!SwitchUnit(items, i, unit) = [items EXCEPT ![i] = line]
    BY <2>1 DEF Arithmetic!SwitchUnit
  <2> QED
    BY <1>2, <2>2
<1>8. ASSUME NEW i \in DOMAIN items, NEW d \in {1, -1}
      PROVE  Arithmetic!UpdateQuantity(items, i, items[i].quantity + d) \in Seq(Line)
  <2>1. items[i].quantity + d \in Int
    BY <1>1 DEF PricedLine
  <2> QED
    BY <1>6, <2>1
<1> QED
  BY <1>4, <1>5, <1>7, <1>8 DEF Arithmetic!Edits

\* The carts one edit further on, and the recursion of CartsWithin up to m.
Further(carts, products) ==
    carts \cup UNION {Arithmetic!Edits(items, products) : items \in carts}
Recursion(f, m, products) ==
    f = [n \in 0..m |-> IF n = 0 THEN {<<>>} ELSE Further(f[n - 1], products)]

LEMMA RecursionExists ==
    ASSUME NEW products, NEW edits \in Nat
    PROVE  \E f : Recursion(f, edits, products)
<1> DEFINE Wrong(m) == \A f : ~Recursion(f, m - 1, products)
           K == {m \in 1..(edits + 1) : Wrong(m)}
<1>1. SUFFICES ASSUME K # {} PROVE FALSE
  <2>1. edits + 1 \in 1..(edits + 1) /\ edits + 1 - 1 = edits
    OBVIOUS
  <2>2. ~Wrong(edits + 1)
    <3> HIDE DEF Wrong
    <3> QED
      BY <2>1
  <2> QED
    BY <2>1, <2>2
<1>2. PICK k \in K : \A l \in K : k <= l
  <2>1. edits + 1 \in Nat /\ K \in SUBSET (1..(edits + 1))
    OBVIOUS
  <2> HIDE DEF K
  <2> QED
    BY <1>1, <2>1, LeastNumber
<1>3. k \in 1..(edits + 1) /\ Wrong(k)
  OBVIOUS
<1>4. CASE k = 1
  <2>1. [n \in 0..0 |-> {<<>>}]
          = [n \in 0..0 |-> IF n = 0 THEN {<<>>}
                            ELSE Further([i \in 0..0 |-> {<<>>}][n - 1], products)]
    OBVIOUS
  <2>2. Recursion([n \in 0..0 |-> {<<>>}], k - 1, products)
    BY <1>4, <2>1 DEF Recursion
  <2> QED
    BY <1>3, <2>2
<1>5. CASE k # 1
  <2>1. k - 1 \in 1..(edits + 1) /\ ~(k <= k - 1)
    BY <1>3, <1>5
  <2>2. PICK f : Recursion(f, k - 1 - 1, products)
    BY <1>2, <2>1
  <2> DEFINE h == [n \in 0..(k - 1) |-> IF n <= k - 1 - 1 THEN f[n] ELSE Further(f[n - 1], products)]
  <2>3. ASSUME NEW n \in 0..(k - 1)
        PROVE  h[n] = IF n = 0 THEN {<<>>} ELSE Further(h[n - 1], products)
    <3>1. CASE n = 0
      <4>1. n \in 0..(k - 1 - 1) /\ h[n] = f[n]
        BY <1>3, <2>1, <3>1
      <4>2. f[n] = {<<>>}
        BY <2>2, <3>1, <4>1 DEF Recursion
      <4> QED
        BY <3>1, <4>1, <4>2
    <3>2. CASE n # 0
      <4>1. n - 1 \in 0..(k - 1) /\ n - 1 <= k - 1 - 1
        BY <1>3, <3>2
      <4>2. h[n - 1] = f[n - 1]
        BY <4>1
      <4>3. h[n] = Further(f[n - 1], products)
        <5>1. CASE n <= k - 1 - 1
          <6>1. n \in 0..(k - 1 - 1) /\ h[n] = f[n]
            BY <1>3, <5>1
          <6> QED
            BY <2>2, <3>2, <6>1 DEF Recursion
        <5>2. CASE ~(n <= k - 1 - 1)
          BY <5>2
        <5> QED
          BY <5>1, <5>2
      <4> QED
        BY <3>2, <4>2, <4>3
    <3> QED
      BY <3>1, <3>2
  <2>4. h = [n \in 0..(k - 1) |-> h[n]]
    OBVIOUS
  <2>5. Recursion(h, k - 1, products)
    <3> HIDE DEF h
    <3> QED
      BY <2>3, <2>4 DEF Recursion
  <2> QED
    BY <1>3, <2>5
<1> QED
  BY <1>4, <1>5

\* However often the cashier edits a cart that was empty, the price of each of
\* its lines is that of its unit (CartNotifier, the drop-down of the cart).
THEOREM CartsStayPriced ==
    ASSUME NEW products,
           \A p \in products : p.sellingPrice \in Nat /\ p.isVatApplicable \in BOOLEAN,
           NEW edits \in Nat
    PROVE  Arithmetic!CartsWithin(edits, products) \subseteq Seq(PricedLine(products))
<1> DEFINE Priced == Seq(PricedLine(products))
           carts == CHOOSE f : Recursion(f, edits, products)
           K == {m \in 1..(edits + 1) : ~(carts[m - 1] \subseteq Priced)}
<1>1. Recursion(carts, edits, products)
  BY RecursionExists
<1>2. Arithmetic!CartsWithin(edits, products) = carts[edits]
  BY DEF Arithmetic!CartsWithin, Recursion, Further
<1> HIDE DEF carts
<1>3. SUFFICES ASSUME K # {} PROVE FALSE
  <2>1. edits + 1 \in 1..(edits + 1) /\ edits + 1 - 1 = edits
    OBVIOUS
  <2> QED
    BY <1>2, <2>1
<1>4. PICK k \in K : \A l \in K : k <= l
  <2>1. edits + 1 \in Nat /\ K \in SUBSET (1..(edits + 1))
    OBVIOUS
  <2> HIDE DEF K
  <2> QED
    BY <1>3, <2>1, LeastNumber
<1>5. k \in 1..(edits + 1) /\ ~(carts[k - 1] \subseteq Priced)
  OBVIOUS
<1>6. CASE k = 1
  <2>1. carts[0] = {<<>>}
    BY <1>1 DEF Recursion
  <2>2. <<>> \in Priced
    BY EmptySeq
  <2>3. k - 1 = 0
    BY <1>6
  <2> HIDE DEF Priced
  <2> QED
    BY <1>5, <2>1, <2>2, <2>3
<1>7. CASE k # 1
  <2>1. k - 1 \in 1..(edits + 1) /\ ~(k <= k - 1)
    BY <1>5, <1>7
  <2>2. carts[k - 1 - 1] \subseteq Priced
    BY <1>4, <2>1
  <2>3. carts[k - 1] = Further(carts[k - 1 - 1], products)
    <3>1. k - 1 \in 0..edits /\ k - 1 # 0
      BY <1>5, <1>7
    <3> QED
      BY <1>1, <3>1 DEF Recursion
  <2>4. ASSUME NEW items \in carts[k - 1 - 1]
        PROVE  Arithmetic!Edits(items, products) \subseteq Priced
    BY <2>2, EditsKeepPrices
  <2>5. Further(carts[k - 1 - 1], products) \subseteq Priced
    <3> HIDE DEF Priced
    <3> QED
      BY <2>2, <2>4 DEF Further
  <2> QED
    BY <1>5, <2>3, <2>5
<1> QED
  BY <1>6, <1>7

\* holdBill stores the last line of each product of the cart and no other of
\* it, and leaves the rows of products that have left the cart: a draft loses
\* the other lines of a product, and keeps lines the cart no longer has.
THEOREM HoldKeepsLastLines ==
    ASSUME NEW S, NEW items \in Seq(S), NEW rows
    PROVE  LET kept == Arithmetic!HeldLines(rows, items)
               named == {items[i].product : i \in DOMAIN items} IN
           /\ DOMAIN kept = DOMAIN rows \cup named
           /\ \A i \in DOMAIN items :
                 (\A j \in DOMAIN items : items[j].product = items[i].product => j <= i)
                    => kept[items[i].product] = items[i]
           /\ \A p \in DOMAIN rows \ named : kept[p] = rows[p]
<1> DEFINE kept == Arithmetic!HeldLines(rows, items)
           named == {items[i].product : i \in DOMAIN items}
           Last(p, i) == /\ items[i].product = p
                         /\ \A j \in DOMAIN items : items[j].product = p => j <= i
           last(p) == CHOOSE i \in DOMAIN items : Last(p, i)
<1>1. DOMAIN items \subseteq Int
  BY LenProperties
<1>2. kept = [p \in DOMAIN rows \cup named |-> IF p \in named THEN items[last(p)] ELSE rows[p]]
  BY DEF Arithmetic!HeldLines
<1>3. ASSUME NEW i \in DOMAIN items, Last(items[i].product, i)
      PROVE  kept[items[i].product] = items[i]
  <2> DEFINE p == items[i].product
  <2>1. last(p) \in DOMAIN items /\ Last(p, last(p))
    <3> HIDE DEF Last
    <3> QED
      BY <1>3
  <2>2. last(p) <= i /\ i <= last(p)
    <3> HIDE DEF last
    <3> QED
      BY <1>3, <2>1
  <2>3. last(p) = i
    <3> HIDE DEF last
    <3> QED
      BY <1>1, <2>1, <2>2
  <2>4. p \in named
    OBVIOUS
  <2> HIDE DEF last, named, p
  <2>5. kept[p] = items[last(p)]
    BY <1>2, <2>4
  <2> QED
    BY <2>3, <2>5 DEF p
<1>4. ASSUME NEW p \in DOMAIN rows \ named PROVE kept[p] = rows[p]
  <2> HIDE DEF last, named, kept
  <2> QED
    BY <1>2
<1>5. DOMAIN kept = DOMAIN rows \cup named
  <2> HIDE DEF last, named, kept
  <2> QED
    BY <1>2
<1> QED
  BY <1>3, <1>4, <1>5
=============================================================================
