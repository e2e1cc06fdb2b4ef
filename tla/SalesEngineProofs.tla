------------------------- MODULE SalesEngineProofs -------------------------
(***************************************************************************)
(* Theorems about SalesEngine, for any number of products, sales, orders   *)
(* and suppliers, any carts, deliveries and fiscal-year calendar.          *)
(***************************************************************************)
EXTENDS SalesEngine, TLAPS

\* Every row the handlers build has the shape of its table.
LEMMA RowTyped ==
    ASSUME NEW tables, NEW recs, NEW table \in tables, NEW rec \in recs,
           NEW op \in {"INSERT", "UPDATE"}, NEW at \in 0..MaxClock, commits \in Nat
    PROVE  Row(table, rec, op, at) \in RowsOf(tables, recs)
  BY DEF Row, RowsOf

LEMMA SecondTyped ==
    ASSUME NEW t \in 0..MaxClock
    PROVE  SecondOf(t) \in Nat
  BY ClockAssumption DEF SecondOf

LEMMA SeqTyped ==
    ASSUME TypeOK, NEW y, NEW n \in NextSeqs(y)
    PROVE  n \in Nat
  BY DEF TypeOK, NextSeqs, LastBills, SalesOf, Sale

LEMMA YearTyped ==
    ASSUME NEW t \in 0..MaxClock
    PROVE  FYAt[t] \in AllYears
  BY ClockAssumption DEF AllYears

LEMMA NoCallTyped == NoCall \in Call
  BY ClockAssumption DEF NoCall, Call, Nothing, Quantities, AllYears

LEMMA TypeInit == Init => TypeOK
  BY LabelAssumption, ClockAssumption
  DEF Init, TypeOK, Sale, Call, Order, NoSale, NoCall, NoOrder, Nothing, Quantities,
      AllYears

LEMMA TypeNext == TypeOK /\ [Next]_vars => TypeOK'
<1> SUFFICES ASSUME TypeOK, [Next]_vars PROVE TypeOK'
  OBVIOUS
<1>1. CASE Tick
  BY <1>1, ClockAssumption DEF TypeOK, Tick
<1>2. ASSUME NEW s \in SaleIds, NEW c \in Carts, StartSale(s, c) PROVE TypeOK'
  <2>1. c \in Quantities
    BY CartsAssumption
  <2>2. FYAt[clock] \in AllYears
    BY YearTyped DEF TypeOK
  <2>3. calls' \in [SaleIds -> Call]
    BY <1>2, <2>1, <2>2 DEF StartSale, TypeOK, Call, AllYears
  <2> QED
    BY <1>2, <2>3 DEF StartSale, TypeOK
<1>3. ASSUME NEW s \in SaleIds, ReadLastBill(s) PROVE TypeOK'
  <2>1. FYAt[clock] \in AllYears
    BY YearTyped DEF TypeOK
  <2>2. PICK n \in NextSeqs(calls[s].billYear) :
          calls' = [calls EXCEPT ![s].stage = "numbered",
                                 ![s].seq = n,
                                 ![s].fiscalYear = FYAt[clock]]
    BY <1>3 DEF ReadLastBill
  <2>3. n \in Nat
    BY SeqTyped
  <2> DEFINE k == [calls[s] EXCEPT !.stage = "numbered", !.seq = n, !.fiscalYear = FYAt[clock]]
  <2>4. k \in Call
    BY <2>1, <2>3 DEF TypeOK, Call
  <2>5. calls' = [calls EXCEPT ![s] = k]
    BY <2>2
  <2>6. calls' \in [SaleIds -> Call]
    BY <2>4, <2>5 DEF TypeOK
  <2> QED
    BY <1>3, <2>6 DEF ReadLastBill, TypeOK
<1>4. ASSUME NEW s \in SaleIds, CommitSale(s) PROVE TypeOK'
  <2> DEFINE k == calls[s]
  <2>1. k \in Call
    BY DEF TypeOK
  <2>2. sales' \in [SaleIds -> Sale]
    BY <1>4, <2>1, SecondTyped DEF CommitSale, TypeOK, Sale, Call
  <2>3. stock' \in [Products -> Int]
    BY <1>4, <2>1 DEF CommitSale, Withdraw, TypeOK, Call, Quantities
  <2>4. queue' \subseteq QueueRow /\ commits' \in Nat
    <3>0. queue \subseteq QueueRow
      BY DEF TypeOK
    <3>1. Row("sales", s, "INSERT", k.now) \in RowsOf({"sales", "audit_trail"}, SaleIds)
      BY <2>1, RowTyped DEF TypeOK, Call
    <3>2. \A p \in Products :
            Row("sale_items", <<s, p>>, "INSERT", k.now)
              \in RowsOf({"sale_items"}, SaleIds \X Products)
      BY <2>1, RowTyped DEF TypeOK, Call
    <3>3. queue' = queue \cup ({Row("sales", s, "INSERT", k.now)}
                     \cup {Row("sale_items", <<s, p>>, "INSERT", k.now) : p \in Lines(k.cart)})
      BY <1>4 DEF CommitSale, Enqueue
    <3>4. \A p \in Lines(k.cart) : p \in Products
      BY DEF Lines
    <3> HIDE DEF k
    <3>5. queue' \subseteq QueueRow
      <4>1. RowsOf({"sales", "audit_trail"}, SaleIds) \subseteq QueueRow
        BY DEF QueueRow
      <4>2. RowsOf({"sale_items"}, SaleIds \X Products) \subseteq QueueRow
        BY DEF QueueRow
      <4> QED
        BY <3>0, <3>1, <3>2, <3>3, <3>4, <4>1, <4>2
    <3> QED
      BY <1>4, <3>5 DEF CommitSale, Enqueue, TypeOK
  <2>5. calls' \in [SaleIds -> Call]
    BY <1>4, NoCallTyped DEF CommitSale, TypeOK
  <2> QED
    BY <1>4, <2>2, <2>3, <2>4, <2>5 DEF CommitSale, TypeOK
<1>5. ASSUME NEW s \in SaleIds, RejectSale(s) PROVE TypeOK'
  <2>1. calls' \in [SaleIds -> Call]
    BY <1>5, NoCallTyped DEF RejectSale, TypeOK
  <2> QED
    BY <1>5, <2>1 DEF RejectSale, TypeOK
<1>6. ASSUME NEW s \in SaleIds, NEW c \in Carts, NEW y \in DraftYears, CreateSale(s, c, y)
      PROVE TypeOK'
  <2>1. c \in Quantities
    BY CartsAssumption
  <2>2. sales' \in [SaleIds -> Sale]
    BY <1>6, <2>1, SecondTyped DEF CreateSale, TypeOK, Sale, AllYears
  <2>3. stock' \in [Products -> Int]
    BY <1>6, <2>1 DEF CreateSale, Withdraw, TypeOK, Quantities
  <2>4. queue' \subseteq QueueRow /\ commits' \in Nat
    <3>1. Row("sales", s, "INSERT", clock) \in RowsOf({"sales", "audit_trail"}, SaleIds)
      BY RowTyped DEF TypeOK
    <3>2. queue' = queue \cup {Row("sales", s, "INSERT", clock)} /\ commits' = commits + 1
      BY <1>6 DEF CreateSale, Enqueue
    <3>3. queue \subseteq QueueRow /\ commits \in Nat
      BY DEF TypeOK
    <3>4. queue' \subseteq QueueRow
      BY <3>1, <3>2, <3>3 DEF QueueRow
    <3> QED
      BY <3>2, <3>3, <3>4
  <2> QED
    BY <1>6, <2>2, <2>3, <2>4 DEF CreateSale, TypeOK
<1>7. ASSUME NEW s \in SaleIds, NEW c \in Carts, NEW y \in AllYears, HoldBill(s, c, y)
      PROVE TypeOK'
  <2>1. c \in Quantities
    BY CartsAssumption
  <2>2. sales' \in [SaleIds -> Sale]
    BY <1>7, <2>1, SecondTyped DEF HoldBill, TypeOK, Sale, Quantities, AllYears
  <2> QED
    BY <1>7, <2>2 DEF HoldBill, Enqueue, TypeOK
<1>8. ASSUME NEW s \in SaleIds, ResumeHeldBill(s) PROVE TypeOK'
  BY <1>8 DEF ResumeHeldBill, TypeOK
<1>9. ASSUME NEW s \in SaleIds, CancelSale(s) PROVE TypeOK'
  <2>1. sales' \in [SaleIds -> Sale]
    BY <1>9 DEF CancelSale, TypeOK, Sale
  <2>2. stock' \in [Products -> Int]
    BY <1>9 DEF CancelSale, TypeOK, Sale, Quantities
  <2>3. audit' \subseteq [sale : SaleIds, from : {"held", "completed"}, txn : Nat]
    BY <1>9 DEF CancelSale, Cancellable, TypeOK, Sale
  <2>4. CancelRows(s) \subseteq QueueRow
    BY RowTyped DEF CancelRows, QueueRow, TypeOK, Lines
  <2>5. queue' \subseteq QueueRow /\ commits' \in Nat
    BY <1>9, <2>4 DEF CancelSale, Enqueue, TypeOK
  <2> QED
    BY <1>9, <2>1, <2>2, <2>3, <2>5 DEF CancelSale, TypeOK
<1>10. ASSUME NEW o \in OrderIds, NEW x \in Suppliers, NEW d \in Deliveries,
              ProcessStockIn(o, x, d)
       PROVE TypeOK'
  <2>1. d \in [goods : Quantities, total : Nat, paid : Nat]
    BY DeliveriesAssumption
  <2>2. stock' \in [Products -> Int]
    BY <1>10, <2>1 DEF ProcessStockIn, TypeOK, Quantities
  <2>3. orders' \in [OrderIds -> Order]
    BY <1>10, <2>1 DEF ProcessStockIn, TypeOK, Order
  <2>4. payable' \in [Suppliers -> Nat]
    <3>1. Debt(d) \in Nat
      BY <2>1 DEF Debt
    <3> QED
      BY <1>10, <3>1 DEF ProcessStockIn, TypeOK
  <2>5. StockInRows(o, x, d) \subseteq QueueRow
    <3>1. \A p \in Products : Row("products", p, "UPDATE", clock) \in RowsOf({"products"}, Products)
      BY RowTyped DEF TypeOK
    <3>2. Row("purchase_orders", o, "INSERT", clock) \in RowsOf({"purchase_orders"}, OrderIds)
      BY RowTyped DEF TypeOK
    <3>3. Row("suppliers", x, "UPDATE", clock) \in RowsOf({"suppliers"}, Suppliers)
      BY RowTyped DEF TypeOK
    <3> QED
      BY <3>1, <3>2, <3>3 DEF StockInRows, QueueRow, Lines
  <2>6. queue' \subseteq QueueRow /\ commits' \in Nat
    BY <1>10, <2>5 DEF ProcessStockIn, Enqueue, TypeOK
  <2> QED
    BY <1>10, <2>2, <2>3, <2>4, <2>6 DEF ProcessStockIn, TypeOK
<1>11. CASE AppCrash
  <2>1. calls' \in [SaleIds -> Call]
    BY <1>11, NoCallTyped DEF AppCrash
  <2> QED
    BY <1>11, <2>1 DEF AppCrash, TypeOK
<1>12. CASE UNCHANGED vars
  BY <1>12 DEF vars, TypeOK
<1> QED
  BY <1>1, <1>2, <1>3, <1>4, <1>5, <1>6, <1>7, <1>8, <1>9, <1>10, <1>11, <1>12 DEF Next

\* Type correctness, for every instance: among others, bill numbers stay
\* natural numbers and each outbox row names a record of its table.
THEOREM TypeCorrect == Spec => []TypeOK
  BY TypeInit, TypeNext, PTL DEF Spec

-----------------------------------------------------------------------------
(* The shape of the books, on which the other invariants rest *)

\* A sale that does not exist has nothing recorded; a draft is held or was
\* cancelled; an issued bill is completed or was cancelled.
StatusFitsSeries ==
    \A s \in SaleIds :
       \/ sales[s] = NoSale
       \/ sales[s].series = "HOLD" /\ sales[s].status \in {"held", "cancelled"}
       \/ sales[s].series \in {"UROS", "INV"} /\ sales[s].status \in {"completed", "cancelled"}

DraftsExist == \A s \in drafts : sales[s] # NoSale

CallsAreFresh == \A s \in SaleIds : calls[s].stage # "idle" => sales[s] = NoSale

BlankOrders == \A o \in OrderIds : orders[o].supplier = NoSupplier => orders[o] = NoOrder

StampsInPast ==
    /\ \A r \in queue : r.at <= clock /\ r.txn <= commits
    /\ \A s \in SaleIds : calls[s].now <= clock

Books ==
    /\ TypeOK
    /\ StatusFitsSeries
    /\ DraftsExist
    /\ CallsAreFresh
    /\ BlankOrders
    /\ StampsInPast

LEMMA BooksInit == Init => Books
<1> SUFFICES ASSUME Init PROVE Books
  OBVIOUS
<1>1. TypeOK
  BY TypeInit
<1>2. StatusFitsSeries /\ DraftsExist /\ CallsAreFresh /\ BlankOrders
  BY DEF Init, StatusFitsSeries, DraftsExist, CallsAreFresh, BlankOrders, NoCall
<1>3. StampsInPast
  BY DEF Init, StampsInPast, NoCall
<1> QED
  BY <1>1, <1>2, <1>3 DEF Books

LEMMA BooksNext == Books /\ [Next]_vars => Books'
<1> SUFFICES ASSUME Books, [Next]_vars PROVE Books'
  OBVIOUS
<1> USE DEF Books
<1>0. TypeOK'
  BY TypeNext
<1>1. CASE Tick
  BY <1>0, <1>1 DEF Tick, TypeOK, StatusFitsSeries, DraftsExist, CallsAreFresh,
                    BlankOrders, StampsInPast, QueueRow, RowsOf, Call
<1>2. ASSUME NEW s \in SaleIds, NEW c \in Carts, StartSale(s, c) PROVE Books'
  <2>1. StatusFitsSeries' /\ DraftsExist' /\ BlankOrders'
    BY <1>2 DEF StartSale, StatusFitsSeries, DraftsExist, BlankOrders
  <2>2. CallsAreFresh'
    BY <1>2 DEF StartSale, CallsAreFresh, Unused, StatusFitsSeries, TypeOK
  <2>3. StampsInPast'
    BY <1>2 DEF StartSale, StampsInPast, TypeOK
  <2> QED
    BY <1>0, <2>1, <2>2, <2>3
<1>3. ASSUME NEW s \in SaleIds, ReadLastBill(s) PROVE Books'
  <2>1. StatusFitsSeries' /\ DraftsExist' /\ BlankOrders'
    BY <1>3 DEF ReadLastBill, StatusFitsSeries, DraftsExist, BlankOrders
  <2>2. \A t \in SaleIds : /\ calls'[t].now = calls[t].now
                           /\ calls'[t].stage # "idle" => calls[t].stage # "idle"
    BY <1>3 DEF ReadLastBill, TypeOK, Call
  <2>3. sales' = sales /\ queue' = queue /\ clock' = clock /\ commits' = commits
    BY <1>3 DEF ReadLastBill
  <2> QED
    BY <1>0, <2>1, <2>2, <2>3 DEF CallsAreFresh, StampsInPast
<1>4. ASSUME NEW s \in SaleIds, CommitSale(s) PROVE Books'
  <2>1. sales[s] = NoSale
    BY <1>4 DEF CommitSale, CallsAreFresh
  <2>2. StatusFitsSeries'
    BY <1>4 DEF CommitSale, StatusFitsSeries, TypeOK
  <2>3. DraftsExist'
    BY <1>4, <2>1 DEF CommitSale, DraftsExist, TypeOK, NoSale
  <2>4. CallsAreFresh' /\ BlankOrders'
    BY <1>4 DEF CommitSale, CallsAreFresh, BlankOrders, TypeOK, NoCall
  <2>5. StampsInPast'
    <3>1. \A r \in queue' : r \in queue \/ (r.at = calls[s].now /\ r.txn = commits + 1)
      BY <1>4 DEF CommitSale, Enqueue, Row
    <3>2. \A t \in SaleIds : calls'[t].now <= clock
      BY <1>4 DEF CommitSale, StampsInPast, TypeOK, NoCall
    <3>3. \A r \in queue : r.txn <= commits + 1
      BY DEF StampsInPast, TypeOK, QueueRow, RowsOf
    <3> QED
      BY <1>4, <3>1, <3>2, <3>3 DEF CommitSale, Enqueue, StampsInPast, TypeOK
  <2> QED
    BY <1>0, <2>2, <2>3, <2>4, <2>5
<1>5. ASSUME NEW s \in SaleIds, RejectSale(s) PROVE Books'
  BY <1>0, <1>5 DEF RejectSale, StatusFitsSeries, DraftsExist, CallsAreFresh,
                    BlankOrders, StampsInPast, TypeOK, NoCall
<1>6. ASSUME NEW s \in SaleIds, NEW c \in Carts, NEW y \in DraftYears, CreateSale(s, c, y)
      PROVE Books'
  <2>1. sales[s].series = "none" /\ calls[s].stage = "idle"
    BY <1>6 DEF CreateSale, Unused, StatusFitsSeries, NoSale
  <2>2. StatusFitsSeries'
    BY <1>6 DEF CreateSale, StatusFitsSeries, TypeOK
  <2>3. DraftsExist' /\ CallsAreFresh' /\ BlankOrders'
    BY <1>6, <2>1 DEF CreateSale, DraftsExist, CallsAreFresh, BlankOrders, TypeOK, NoSale
  <2>4. StampsInPast'
    <3>1. \A r \in queue' : r \in queue \/ (r.at = clock /\ r.txn = commits + 1)
      BY <1>6 DEF CreateSale, Enqueue, Row
    <3>2. \A r \in queue : r.txn <= commits + 1
      BY DEF StampsInPast, TypeOK, QueueRow, RowsOf
    <3> QED
      BY <1>6, <3>1, <3>2 DEF CreateSale, Enqueue, StampsInPast, TypeOK
  <2> QED
    BY <1>0, <2>2, <2>3, <2>4
<1>7. ASSUME NEW s \in SaleIds, NEW c \in Carts, NEW y \in AllYears, HoldBill(s, c, y)
      PROVE Books'
  <2>1. calls[s].stage = "idle"
    BY <1>7 DEF HoldBill, MayHold, Unused, DraftsExist, CallsAreFresh, NoSale
  <2>2. StatusFitsSeries'
    BY <1>7 DEF HoldBill, StatusFitsSeries, TypeOK
  <2>3. DraftsExist' /\ CallsAreFresh' /\ BlankOrders'
    BY <1>7, <2>1 DEF HoldBill, DraftsExist, CallsAreFresh, BlankOrders, TypeOK, NoSale
  <2>4. StampsInPast'
    <3>1. queue' = queue /\ commits' = commits + 1 /\ clock' = clock /\ calls' = calls
      BY <1>7 DEF HoldBill, Enqueue
    <3>2. \A r \in queue : r.txn <= commits + 1
      BY DEF StampsInPast, TypeOK, QueueRow, RowsOf
    <3> QED
      BY <3>1, <3>2 DEF StampsInPast
  <2> QED
    BY <1>0, <2>2, <2>3, <2>4
<1>8. ASSUME NEW s \in SaleIds, ResumeHeldBill(s) PROVE Books'
  <2>1. sales[s] # NoSale
    BY <1>8 DEF ResumeHeldBill, NoSale
  <2> QED
    BY <1>0, <1>8, <2>1 DEF ResumeHeldBill, StatusFitsSeries, DraftsExist,
                            CallsAreFresh, BlankOrders, StampsInPast
<1>9. ASSUME NEW s \in SaleIds, CancelSale(s) PROVE Books'
  <2>1. sales[s] # NoSale
    BY <1>9 DEF CancelSale, Cancellable, NoSale
  <2>2. sales' = [sales EXCEPT ![s] = [sales[s] EXCEPT !.status = "cancelled"]]
    BY <1>9 DEF CancelSale
  <2>3. StatusFitsSeries'
    BY <2>1, <2>2 DEF StatusFitsSeries, TypeOK, Sale
  <2>4. DraftsExist' /\ CallsAreFresh' /\ BlankOrders'
    BY <1>9, <2>1, <2>2 DEF CancelSale, DraftsExist, CallsAreFresh, BlankOrders, TypeOK, Sale, NoSale
  <2>5. StampsInPast'
    <3>1. \A r \in queue' : r \in queue \/ (r.at = clock /\ r.txn = commits + 1)
      BY <1>9 DEF CancelSale, Enqueue, CancelRows, Row
    <3>2. \A r \in queue : r.txn <= commits + 1
      BY DEF StampsInPast, TypeOK, QueueRow, RowsOf
    <3> QED
      BY <1>9, <3>1, <3>2 DEF CancelSale, Enqueue, StampsInPast, TypeOK
  <2> QED
    BY <1>0, <2>3, <2>4, <2>5
<1>10. ASSUME NEW o \in OrderIds, NEW x \in Suppliers, NEW d \in Deliveries,
              ProcessStockIn(o, x, d)
       PROVE Books'
  <2>1. StatusFitsSeries' /\ DraftsExist' /\ CallsAreFresh'
    BY <1>10 DEF ProcessStockIn, StatusFitsSeries, DraftsExist, CallsAreFresh
  <2>2. BlankOrders'
    BY <1>10, LabelAssumption DEF ProcessStockIn, BlankOrders, TypeOK
  <2>3. StampsInPast'
    <3>1. \A r \in queue' : r \in queue \/ (r.at = clock /\ r.txn = commits + 1)
      BY <1>10 DEF ProcessStockIn, Enqueue, StockInRows, Row
    <3>2. \A r \in queue : r.txn <= commits + 1
      BY DEF StampsInPast, TypeOK, QueueRow, RowsOf
    <3> QED
      BY <1>10, <3>1, <3>2 DEF ProcessStockIn, Enqueue, StampsInPast, TypeOK
  <2> QED
    BY <1>0, <2>1, <2>2, <2>3
<1>11. CASE AppCrash
  BY <1>0, <1>11 DEF AppCrash, StatusFitsSeries, DraftsExist, CallsAreFresh,
                     BlankOrders, StampsInPast, TypeOK, NoCall
<1>12. CASE UNCHANGED vars
  BY <1>0, <1>12 DEF vars, StatusFitsSeries, DraftsExist, CallsAreFresh, BlankOrders,
                     StampsInPast
<1> QED
  BY <1>1, <1>2, <1>3, <1>4, <1>5, <1>6, <1>7, <1>8, <1>9, <1>10, <1>11, <1>12 DEF Next

\* What a step may do to an issued bill.
LEMMA BillStays ==
    ASSUME Books, [Next]_vars
    PROVE  \A s \in SaleIds : IsIssued(s) => (Kept(s) \/ HeldOver(s))
<1> DEFINE Stays == \A s \in SaleIds : IsIssued(s) => (Kept(s) \/ HeldOver(s))
<1> SUFFICES Stays
  OBVIOUS
<1> USE DEF Books
<1>1. CASE sales' = sales
  BY <1>1 DEF Kept
<1>2. ASSUME NEW s \in SaleIds, CommitSale(s) PROVE Stays
  BY <1>2 DEF CommitSale, CallsAreFresh, NoSale, TypeOK, IsIssued, Kept
<1>3. ASSUME NEW s \in SaleIds, NEW c \in Carts, NEW y \in DraftYears, CreateSale(s, c, y)
      PROVE Stays
  BY <1>3 DEF CreateSale, Unused, StatusFitsSeries, NoSale, TypeOK, IsIssued, Kept
<1>4. ASSUME NEW s \in SaleIds, NEW c \in Carts, NEW y \in AllYears, HoldBill(s, c, y)
      PROVE Stays
  <2>1. \A t \in SaleIds \ {s} : Kept(t)
    BY <1>4 DEF HoldBill, TypeOK, Kept
  <2>2. CASE Unused(s)
    <3>1. ~IsIssued(s)
      BY <2>2 DEF Unused, StatusFitsSeries, NoSale, IsIssued
    <3> QED
      BY <2>1, <3>1
  <2>3. CASE s \in drafts /\ y = sales[s].fiscalYear
    <3>1. sales'[s] =
            [status |-> "held", series |-> "HOLD", billYear |-> NoYear, seq |-> 0,
             fiscalYear |-> y, createdAt |-> SecondOf(clock),
             items |-> [p \in Products |-> IF c[p] > 0 THEN c[p] ELSE sales[s].items[p]]]
      BY <1>4 DEF HoldBill, TypeOK
    <3>2. Lines(sales[s].items) \subseteq Lines(sales'[s].items)
      BY <3>1 DEF Lines
    <3>3. HeldOver(s)
      BY <2>3, <3>1, <3>2 DEF HeldOver
    <3> QED
      BY <2>1, <3>3
  <2> QED
    BY <1>4, <2>2, <2>3 DEF HoldBill, MayHold
<1>5. ASSUME NEW s \in SaleIds, CancelSale(s) PROVE Stays
  <2>1. sales' = [sales EXCEPT ![s] = [sales[s] EXCEPT !.status = "cancelled"]]
    BY <1>5 DEF CancelSale
  <2> QED
    BY <2>1 DEF TypeOK, Kept
<1> QED
  BY <1>1, <1>2, <1>3, <1>4, <1>5
  DEF Next, vars, Tick, StartSale, ReadLastBill, RejectSale, ResumeHeldBill, ProcessStockIn, AppCrash

\* An issued bill is never removed, renumbered, re-dated or changed, but by a
\* cancellation or by a hold of the draft resumeHeldBill has made of it in this
\* run of the app, and such a hold loses no line: whatever calls are in flight
\* and wherever processes are killed.
THEOREM BillsImmutable == Spec => IssuedBillsImmutable
<1>1. Books /\ [Next]_vars =>
        [\A s \in SaleIds : IsIssued(s) => (Kept(s) \/ HeldOver(s))]_vars
  BY BillStays
<1> QED
  BY <1>1, BooksInit, BooksNext, PTL DEF Spec, IssuedBillsImmutable

-----------------------------------------------------------------------------
(* The transactional outbox *)

\* No row ever leaves the outbox, so what was queued stays queued.
LEMMA QueueGrows ==
    ASSUME [Next]_vars
    PROVE  /\ queue \subseteq queue' /\ audit \subseteq audit'
           /\ \A table, rec, op : Queued(table, rec, op) => Queued(table, rec, op)'
<1>1. queue \subseteq queue' /\ audit \subseteq audit'
  BY DEF Next, vars, Tick, StartSale, ReadLastBill, CommitSale, RejectSale, CreateSale,
         HoldBill, ResumeHeldBill, CancelSale, ProcessStockIn, AppCrash, Enqueue
<1> QED
  BY <1>1 DEF Queued

\* A row just built is found under its table, record and operation.
LEMMA RowQueued ==
    ASSUME NEW table, NEW rec, NEW op, NEW at, Row(table, rec, op, at) \in queue'
    PROVE  Queued(table, rec, op)'
  BY DEF Row, Queued

\* The rows about bills, lines and orders name what exists.
RowsNameRecords ==
    \A r \in queue :
       /\ r.table = "sales" => sales[r.rec].status # "absent"
       /\ r.table = "sale_items" => Queued("sales", r.rec[1], "INSERT")
       /\ r.table = "purchase_orders" => orders[r.rec].supplier # NoSupplier

BillsQueued ==
    \A s \in SaleIds :
       /\ sales[s].series \in {"UROS", "INV"} => SaleQueued(s)
       /\ sales[s].status = "cancelled" => CancelQueued(s)

OrdersQueued == \A o \in OrderIds : orders[o].supplier # NoSupplier => OrderQueued(o)

LEMMA OutboxParts == OutboxMatchesBooks <=> BillsQueued /\ OrdersQueued /\ RowsNameRecords
  BY DEF OutboxMatchesBooks, BillsQueued, OrdersQueued, RowsNameRecords

\* What a bill or an order that stayed as it was has queued is still queued.
LEMMA StillQueued ==
    ASSUME [Next]_vars
    PROVE  /\ \A s \in SaleIds : sales'[s] = sales[s] =>
                 (SaleQueued(s) => SaleQueued(s)') /\ (CancelQueued(s) => CancelQueued(s)')
           /\ \A o \in OrderIds : orders'[o] = orders[o] =>
                 (OrderQueued(o) => OrderQueued(o)')
<1>1. \A table, rec, op : Queued(table, rec, op) => Queued(table, rec, op)'
  BY QueueGrows
<1>2. audit \subseteq audit'
  BY QueueGrows
<1>3. ASSUME NEW s \in SaleIds, sales'[s] = sales[s]
      PROVE  (SaleQueued(s) => SaleQueued(s)') /\ (CancelQueued(s) => CancelQueued(s)')
  BY <1>1, <1>2, <1>3 DEF SaleQueued, CancelQueued, Lines
<1>4. ASSUME NEW o \in OrderIds, orders'[o] = orders[o]
      PROVE  OrderQueued(o) => OrderQueued(o)'
  BY <1>1, <1>4 DEF OrderQueued, Lines
<1> QED
  BY <1>3, <1>4

LEMMA OutboxInit == Init => OutboxMatchesBooks
  BY DEF Init, OutboxMatchesBooks, NoSale, NoOrder

LEMMA OutboxNext == Books /\ OutboxMatchesBooks /\ [Next]_vars => OutboxMatchesBooks'
<1> SUFFICES ASSUME Books, OutboxMatchesBooks, [Next]_vars PROVE OutboxMatchesBooks'
  OBVIOUS
<1>0. BillsQueued /\ OrdersQueued /\ RowsNameRecords
  BY OutboxParts
<1> SUFFICES BillsQueued' /\ OrdersQueued' /\ RowsNameRecords'
  BY DEF OutboxMatchesBooks, BillsQueued, OrdersQueued, RowsNameRecords
<1> USE DEF Books
<1>q. \A table, rec, op : Queued(table, rec, op) => Queued(table, rec, op)'
  BY QueueGrows
<1>u. ASSUME sales' = sales, orders' = orders, queue' = queue
      PROVE  BillsQueued' /\ OrdersQueued' /\ RowsNameRecords'
  BY <1>0, <1>q, <1>u, StillQueued DEF BillsQueued, OrdersQueued, RowsNameRecords
\* A step on the bill s: the other bills and the orders stand as they stood.
<1>b. ASSUME NEW s \in SaleIds, \A t \in SaleIds \ {s} : sales'[t] = sales[t], orders' = orders,
             sales'[s].series \in {"UROS", "INV"} => SaleQueued(s)',
             sales'[s].status = "cancelled" => CancelQueued(s)'
      PROVE  BillsQueued' /\ OrdersQueued'
  BY <1>0, <1>b, StillQueued DEF BillsQueued, OrdersQueued
<1>1. ASSUME NEW s \in SaleIds, CommitSale(s)
      PROVE  BillsQueued' /\ OrdersQueued' /\ RowsNameRecords'
  <2> DEFINE k == calls[s]
  <2>1. sales[s] = NoSale
    BY <1>1 DEF CommitSale, CallsAreFresh
  <2>2. /\ sales' = [sales EXCEPT ![s] = sales'[s]]
        /\ sales'[s].series = "UROS" /\ sales'[s].status = "completed" /\ sales'[s].items = k.cart
        /\ orders' = orders
    BY <1>1 DEF CommitSale, TypeOK
  <2>3. queue' = queue \cup {Row("sales", s, "INSERT", k.now)}
                       \cup {Row("sale_items", <<s, p>>, "INSERT", k.now) : p \in Lines(k.cart)}
    BY <1>1 DEF CommitSale, Enqueue
  <2>4. SaleQueued(s)'
    <3>1. Queued("sales", s, "INSERT")'
      BY <2>3, RowQueued
    <3>2. \A p \in Lines(k.cart) : Queued("sale_items", <<s, p>>, "INSERT")'
      BY <2>3, RowQueued
    <3> QED
      BY <2>2, <3>1, <3>2 DEF SaleQueued, Lines
  <2>5. BillsQueued' /\ OrdersQueued'
    BY <1>b, <2>2, <2>4 DEF TypeOK
  <2>6. RowsNameRecords'
    <3> SUFFICES ASSUME NEW r \in queue'
                 PROVE  /\ r.table = "sales" => sales'[r.rec].status # "absent"
                        /\ r.table = "sale_items" => Queued("sales", r.rec[1], "INSERT")'
                        /\ r.table = "purchase_orders" => orders'[r.rec].supplier # NoSupplier
      BY DEF RowsNameRecords
    <3>1. CASE r \in queue
      <4>1. r \in QueueRow
        BY <3>1 DEF TypeOK
      <4> QED
        BY <1>0, <1>q, <2>2, <3>1, <4>1 DEF RowsNameRecords, QueueRow, RowsOf, TypeOK
    <3>2. CASE r = Row("sales", s, "INSERT", k.now)
      BY <2>2, <3>2 DEF Row
    <3>3. CASE \E p \in Lines(k.cart) : r = Row("sale_items", <<s, p>>, "INSERT", k.now)
      <4>1. Queued("sales", s, "INSERT")'
        BY <2>4 DEF SaleQueued
      <4> QED
        BY <2>2, <3>3, <4>1 DEF Row
    <3> QED
      BY <2>3, <3>1, <3>2, <3>3
  <2> QED
    BY <2>5, <2>6
<1>2. ASSUME NEW s \in SaleIds, NEW c \in Carts, NEW y \in DraftYears, CreateSale(s, c, y)
      PROVE  BillsQueued' /\ OrdersQueued' /\ RowsNameRecords'
  <2>1. sales[s].status = "absent" /\ sales[s].series = "none"
    BY <1>2 DEF CreateSale, Unused, StatusFitsSeries, NoSale
  <2>2. /\ sales' = [sales EXCEPT ![s] = sales'[s]]
        /\ sales'[s].series = "INV" /\ sales'[s].status = "completed"
        /\ orders' = orders
    BY <1>2 DEF CreateSale, TypeOK
  <2>3. queue' = queue \cup {Row("sales", s, "INSERT", clock)}
    BY <1>2 DEF CreateSale, Enqueue
  <2>4. SaleQueued(s)'
    <3>1. Queued("sales", s, "INSERT")'
      BY <2>3, RowQueued
    <3> QED
      BY <2>2, <3>1 DEF SaleQueued
  <2>5. BillsQueued' /\ OrdersQueued'
    BY <1>b, <2>2, <2>4 DEF TypeOK
  <2>6. RowsNameRecords'
    <3> SUFFICES ASSUME NEW r \in queue'
                 PROVE  /\ r.table = "sales" => sales'[r.rec].status # "absent"
                        /\ r.table = "sale_items" => Queued("sales", r.rec[1], "INSERT")'
                        /\ r.table = "purchase_orders" => orders'[r.rec].supplier # NoSupplier
      BY DEF RowsNameRecords
    <3>1. CASE r \in queue
      <4>1. r \in QueueRow
        BY <3>1 DEF TypeOK
      <4> QED
        BY <1>0, <1>q, <2>1, <2>2, <3>1, <4>1 DEF RowsNameRecords, QueueRow, RowsOf, TypeOK
    <3>2. CASE r = Row("sales", s, "INSERT", clock)
      BY <2>2, <3>2 DEF Row
    <3> QED
      BY <2>3, <3>1, <3>2
  <2> QED
    BY <2>5, <2>6
<1>3. ASSUME NEW s \in SaleIds, NEW c \in Carts, NEW y \in AllYears, HoldBill(s, c, y)
      PROVE  BillsQueued' /\ OrdersQueued' /\ RowsNameRecords'
  <2>2. /\ sales' = [sales EXCEPT ![s] = sales'[s]]
        /\ sales'[s].series = "HOLD" /\ sales'[s].status = "held"
        /\ orders' = orders /\ queue' = queue
    BY <1>3 DEF HoldBill, Enqueue, TypeOK
  <2>3. BillsQueued' /\ OrdersQueued'
    BY <1>b, <2>2 DEF TypeOK
  <2>4. RowsNameRecords'
    <3>1. \A r \in queue : r \in QueueRow
      BY DEF TypeOK
    <3> QED
      BY <1>0, <1>q, <2>2, <3>1 DEF RowsNameRecords, QueueRow, RowsOf, TypeOK
  <2> QED
    BY <2>3, <2>4
<1>4. ASSUME NEW s \in SaleIds, CancelSale(s)
      PROVE  BillsQueued' /\ OrdersQueued' /\ RowsNameRecords'
  <2>1. sales[s].status # "absent"
    BY <1>4 DEF CancelSale, Cancellable
  <2>2. sales' = [sales EXCEPT ![s] = [sales[s] EXCEPT !.status = "cancelled"]] /\ orders' = orders
    BY <1>4 DEF CancelSale
  <2>3. /\ sales'[s].series = sales[s].series /\ sales'[s].items = sales[s].items
        /\ sales'[s].status = "cancelled"
        /\ \A t \in SaleIds \ {s} : sales'[t] = sales[t]
    BY <2>2 DEF TypeOK, Sale
  <2>4. /\ queue' = queue \cup CancelRows(s)
        /\ \E a \in audit' : a.sale = s
    <3>1. [sale |-> s, from |-> sales[s].status, txn |-> commits + 1] \in audit'
      BY <1>4 DEF CancelSale
    <3> QED
      BY <1>4, <3>1 DEF CancelSale, Enqueue
  <2>5. CancelQueued(s)'
    <3>1. Queued("sales", s, "UPDATE")' /\ Queued("audit_trail", s, "INSERT")'
      BY <2>4, RowQueued DEF CancelRows
    <3>2. \A p \in Lines(sales[s].items) : Queued("products", p, "UPDATE")'
      BY <2>4, RowQueued DEF CancelRows
    <3> QED
      BY <2>3, <2>4, <3>1, <3>2 DEF CancelQueued, Lines
  <2>6. sales'[s].series \in {"UROS", "INV"} => SaleQueued(s)'
    <3>1. \A table, rec, op : Queued(table, rec, op) => Queued(table, rec, op)'
      BY QueueGrows
    <3> QED
      BY <1>0, <2>3, <3>1 DEF BillsQueued, SaleQueued, Lines
  <2>7. BillsQueued' /\ OrdersQueued'
    BY <1>b, <2>2, <2>3, <2>5, <2>6
  <2>8. RowsNameRecords'
    <3> SUFFICES ASSUME NEW r \in queue'
                 PROVE  /\ r.table = "sales" => sales'[r.rec].status # "absent"
                        /\ r.table = "sale_items" => Queued("sales", r.rec[1], "INSERT")'
                        /\ r.table = "purchase_orders" => orders'[r.rec].supplier # NoSupplier
      BY DEF RowsNameRecords
    <3>0. \A t \in SaleIds : /\ sales[t].status # "absent" => sales'[t].status # "absent"
                             /\ sales'[t].series = sales[t].series
      BY <2>3
    <3>1. CASE r \in queue
      <4>1. r \in QueueRow
        BY <3>1 DEF TypeOK
      <4> QED
        BY <1>0, <1>q, <2>2, <3>0, <3>1, <4>1 DEF RowsNameRecords, QueueRow, RowsOf
    <3>2. CASE r \in CancelRows(s)
      BY <2>3, <3>2 DEF CancelRows, Row
    <3> QED
      BY <2>4, <3>1, <3>2
  <2> QED
    BY <2>7, <2>8
<1>5. ASSUME NEW o \in OrderIds, NEW x \in Suppliers, NEW d \in Deliveries,
             ProcessStockIn(o, x, d)
      PROVE  BillsQueued' /\ OrdersQueued' /\ RowsNameRecords'
  <2>1. /\ sales' = sales
        /\ orders' = [orders EXCEPT ![o] = [supplier |-> x, total |-> d.total,
                                           paid |-> d.paid, goods |-> d.goods]]
    BY <1>5 DEF ProcessStockIn
  <2>2. queue' = queue \cup StockInRows(o, x, d)
    BY <1>5 DEF ProcessStockIn, Enqueue
  <2>3. OrderQueued(o)'
    <3>1. Queued("purchase_orders", o, "INSERT")'
      BY <2>2, RowQueued DEF StockInRows
    <3>2. \A p \in Lines(d.goods) : Queued("products", p, "UPDATE")'
      BY <2>2, RowQueued DEF StockInRows
    <3>3. d.paid < d.total => Queued("suppliers", x, "UPDATE")'
      BY <2>2, RowQueued DEF StockInRows
    <3>4. /\ orders'[o].goods = d.goods /\ orders'[o].supplier = x
          /\ orders'[o].paid = d.paid /\ orders'[o].total = d.total
      BY <2>1 DEF TypeOK
    <3> QED
      BY <3>1, <3>2, <3>3, <3>4 DEF OrderQueued, Lines
  <2>4. BillsQueued'
    BY <1>0, <2>1, StillQueued DEF BillsQueued
  <2>5. OrdersQueued'
    BY <1>0, <2>1, <2>3, StillQueued DEF OrdersQueued, TypeOK
  <2>6. RowsNameRecords'
    <3> SUFFICES ASSUME NEW r \in queue'
                 PROVE  /\ r.table = "sales" => sales'[r.rec].status # "absent"
                        /\ r.table = "sale_items" => Queued("sales", r.rec[1], "INSERT")'
                        /\ r.table = "purchase_orders" => orders'[r.rec].supplier # NoSupplier
      BY DEF RowsNameRecords
    <3>0. \A q \in OrderIds : orders[q].supplier # NoSupplier => orders'[q].supplier # NoSupplier
      BY <2>1, LabelAssumption DEF TypeOK
    <3>1. CASE r \in queue
      <4>1. r \in QueueRow
        BY <3>1 DEF TypeOK
      <4> QED
        BY <1>0, <1>q, <2>1, <3>0, <3>1, <4>1 DEF RowsNameRecords, QueueRow, RowsOf
    <3>2. CASE r \in StockInRows(o, x, d)
      <4>1. orders'[o].supplier # NoSupplier
        BY <2>1, LabelAssumption DEF TypeOK
      <4> QED
        BY <3>2, <4>1 DEF StockInRows, Row
    <3> QED
      BY <2>2, <3>1, <3>2
  <2> QED
    BY <2>4, <2>5, <2>6
<1>6. CASE UNCHANGED vars
  BY <1>u, <1>6 DEF vars
<1> QED
  BY <1>u, <1>1, <1>2, <1>3, <1>4, <1>5, <1>6
  DEF Next, Tick, StartSale, ReadLastBill, RejectSale, ResumeHeldBill, AppCrash

\* Transactional outbox: whatever calls interleave or are cut short, a bill,
\* a cancellation and a delivery have their outbox rows, and no row is orphaned.
THEOREM OutboxAlwaysMatches == Spec => []OutboxMatchesBooks
  BY BooksInit, BooksNext, OutboxInit, OutboxNext, PTL DEF Spec

-----------------------------------------------------------------------------
(* The order of the outbox *)

\* A new row joins rows that are older in both orders, or is the first of its
\* record.
LEMMA RowsOrdered ==
    ASSUME Books, RecordsQueuedInOrder,
           \A r \in queue' : r \in queue \/ r.txn = commits + 1,
           \A q \in queue, r \in queue' \ queue :
              (q.table = r.table /\ q.rec = r.rec) => q.at <= r.at
    PROVE  RecordsQueuedInOrder'
<1> SUFFICES ASSUME NEW q \in queue', NEW r \in queue',
                    q.table = r.table, q.rec = r.rec, q.txn < r.txn
             PROVE  q.at <= r.at
  BY DEF RecordsQueuedInOrder
<1>1. \A x \in queue : x.txn \in Nat /\ x.txn <= commits
  BY DEF Books, TypeOK, QueueRow, RowsOf, StampsInPast
<1>2. commits \in Nat
  BY DEF Books, TypeOK
<1>3. CASE r \in queue
  BY <1>1, <1>2, <1>3 DEF RecordsQueuedInOrder
<1>4. CASE r \notin queue
  BY <1>1, <1>2, <1>4
<1> QED
  BY <1>3, <1>4

LEMMA OrderNext ==
    Books /\ OutboxMatchesBooks /\ RecordsQueuedInOrder /\ [Next]_vars => RecordsQueuedInOrder'
<1> SUFFICES ASSUME Books, OutboxMatchesBooks, RecordsQueuedInOrder, [Next]_vars
             PROVE  RecordsQueuedInOrder'
  OBVIOUS
<1>0. \A q \in queue : q.at <= clock
  BY DEF Books, StampsInPast
<1>1. CASE queue' = queue
  BY <1>1 DEF RecordsQueuedInOrder
\* The rows of a new sale carry an old stamp, but they are its first.
<1>2. ASSUME NEW s \in SaleIds, CommitSale(s) PROVE RecordsQueuedInOrder'
  <2>1. sales[s] = NoSale
    BY <1>2 DEF CommitSale, Books, CallsAreFresh
  <2>2. queue' = queue \cup {Row("sales", s, "INSERT", calls[s].now)}
           \cup {Row("sale_items", <<s, p>>, "INSERT", calls[s].now) : p \in Lines(calls[s].cart)}
    BY <1>2 DEF CommitSale, Enqueue
  <2>3. ASSUME NEW r \in queue' \ queue
        PROVE  /\ r.txn = commits + 1
               /\ \/ r.table = "sales" /\ r.rec = s
                  \/ r.table = "sale_items" /\ r.rec[1] = s
    <3>1. ASSUME r = Row("sales", s, "INSERT", calls[s].now)
          PROVE  r.txn = commits + 1 /\ r.table = "sales" /\ r.rec = s
      BY <3>1 DEF Row
    <3>2. ASSUME NEW p \in Lines(calls[s].cart),
                 r = Row("sale_items", <<s, p>>, "INSERT", calls[s].now)
          PROVE  r.txn = commits + 1 /\ r.table = "sale_items" /\ r.rec[1] = s
      BY <3>2 DEF Row
    <3> QED
      BY <2>2, <3>1, <3>2
  <2>4. \A q \in queue : /\ ~(q.table = "sales" /\ q.rec = s)
                         /\ ~(q.table = "sale_items" /\ q.rec[1] = s)
    <3>1. ~Queued("sales", s, "INSERT")
      BY <2>1 DEF OutboxMatchesBooks, NoSale, Queued
    <3> QED
      BY <2>1, <3>1 DEF OutboxMatchesBooks, NoSale
  <2> QED
    BY <2>3, <2>4, RowsOrdered
<1>3. ASSUME NEW s \in SaleIds, NEW c \in Carts, NEW y \in DraftYears, CreateSale(s, c, y)
      PROVE RecordsQueuedInOrder'
  <2>1. \A r \in queue' \ queue : r.txn = commits + 1 /\ r.at = clock
    BY <1>3 DEF CreateSale, Enqueue, Row
  <2> QED
    BY <1>0, <2>1, RowsOrdered
<1>4. ASSUME NEW s \in SaleIds, CancelSale(s) PROVE RecordsQueuedInOrder'
  <2>1. \A r \in queue' \ queue : r.txn = commits + 1 /\ r.at = clock
    BY <1>4 DEF CancelSale, CancelRows, Enqueue, Row
  <2> QED
    BY <1>0, <2>1, RowsOrdered
<1>5. ASSUME NEW o \in OrderIds, NEW x \in Suppliers, NEW d \in Deliveries,
             ProcessStockIn(o, x, d)
      PROVE RecordsQueuedInOrder'
  <2>1. \A r \in queue' \ queue : r.txn = commits + 1 /\ r.at = clock
    BY <1>5 DEF ProcessStockIn, StockInRows, Enqueue, Row
  <2> QED
    BY <1>0, <2>1, RowsOrdered
<1>6. ASSUME NEW s \in SaleIds, NEW c \in Carts, NEW y \in AllYears, HoldBill(s, c, y)
      PROVE queue' = queue
  BY <1>6 DEF HoldBill, Enqueue
<1> QED
  BY <1>1, <1>2, <1>3, <1>4, <1>5, <1>6
  DEF Next, vars, Tick, StartSale, ReadLastBill, RejectSale, ResumeHeldBill, AppCrash

\* The rows about one record are stamped in the order in which they were
\* committed, although a sale takes its stamp before the awaits of checkout:
\* the proof needs that the outbox has no other row for a sale in flight.
THEOREM RecordsAlwaysInOrder == Spec => []RecordsQueuedInOrder
<1>1. Init => RecordsQueuedInOrder
  BY DEF Init, RecordsQueuedInOrder
<1> QED
  BY <1>1, BooksInit, BooksNext, OutboxInit, OutboxNext, OrderNext, PTL DEF Spec

-----------------------------------------------------------------------------
(* The series of bill numbers *)

\* No checkout straddled a change of fiscal year.
NoYearStraddled == \A s \in Numbered : sales[s].billYear = sales[s].fiscalYear

\* The number a checkout has read still has its predecessor on a bill.
CallsContinuous ==
    \A s \in SaleIds :
       calls[s].stage = "numbered" /\ calls[s].seq > 1 =>
          \E t \in Numbered : /\ sales[t].billYear = calls[s].billYear
                              /\ sales[t].seq = calls[s].seq - 1

SeriesKept ==
    (NoYearStraddled /\ Overwritten = {})
       => (CallsContinuous /\ \A s \in Numbered : HasPredecessor(s))

\* A bill that was held over stays a draft.
LEMMA OverwrittenStays ==
    ASSUME Books, [Next]_vars
    PROVE  Overwritten \subseteq Overwritten'
<1> SUFFICES ASSUME NEW s \in SaleIds, sales[s].series = "HOLD"
             PROVE  sales'[s].series = "HOLD"
  BY QueueGrows DEF Overwritten
<1> USE DEF Books
<1>1. sales[s].status # "absent" /\ sales[s] # NoSale
  BY DEF StatusFitsSeries, NoSale
<1>2. CASE sales' = sales
  BY <1>2
<1>3. ASSUME NEW t \in SaleIds, CommitSale(t) PROVE sales'[s] = sales[s]
  BY <1>1, <1>3 DEF CommitSale, CallsAreFresh, TypeOK
<1>4. ASSUME NEW t \in SaleIds, NEW c \in Carts, NEW y \in DraftYears, CreateSale(t, c, y)
      PROVE  sales'[s] = sales[s]
  BY <1>1, <1>4 DEF CreateSale, Unused, TypeOK
<1>5. ASSUME NEW t \in SaleIds, NEW c \in Carts, NEW y \in AllYears, HoldBill(t, c, y)
      PROVE  sales'[s].series = "HOLD"
  BY <1>5 DEF HoldBill, TypeOK
<1>6. ASSUME NEW t \in SaleIds, CancelSale(t) PROVE sales'[s].series = "HOLD"
  BY <1>6 DEF CancelSale, TypeOK, Sale
<1> QED
  BY <1>2, <1>3, <1>4, <1>5, <1>6
  DEF Next, vars, Tick, StartSale, ReadLastBill, RejectSale, ResumeHeldBill, ProcessStockIn, AppCrash

\* Unless it is held over, an issued bill is kept.
LEMMA BillKept ==
    ASSUME Books, OutboxMatchesBooks, [Next]_vars, Overwritten' = {},
           NEW s \in SaleIds, IsIssued(s)
    PROVE  Kept(s)
<1>1. Queued("sales", s, "INSERT")
  BY DEF OutboxMatchesBooks, SaleQueued, IsIssued
<1>2. Queued("sales", s, "INSERT")'
  BY <1>1, QueueGrows
<1>3. ~HeldOver(s)
  BY <1>2 DEF Overwritten, HeldOver
<1> QED
  BY <1>3, BillStays

\* A numbered bill keeps its number and its years unless it is held over.
LEMMA NumbersKept ==
    ASSUME Books, OutboxMatchesBooks, [Next]_vars, Overwritten' = {}
    PROVE  \A t \in Numbered : /\ t \in Numbered'
                               /\ sales'[t].billYear = sales[t].billYear
                               /\ sales'[t].fiscalYear = sales[t].fiscalYear
                               /\ sales'[t].seq = sales[t].seq
<1> SUFFICES ASSUME NEW t \in SaleIds, sales[t].series = "UROS"
             PROVE  /\ sales'[t].series = "UROS"
                    /\ sales'[t].billYear = sales[t].billYear
                    /\ sales'[t].fiscalYear = sales[t].fiscalYear
                    /\ sales'[t].seq = sales[t].seq
  BY DEF Numbered
<1>1. Kept(t)
  BY BillKept DEF IsIssued
<1>2. sales[t] \in Sale
  BY DEF Books, TypeOK
<1> QED
  BY <1>1, <1>2 DEF Sale, Kept

\* A checkout starts unnumbered, and reads the number after the last bill of
\* its year.
LEMMA ReadsNextNumber ==
    ASSUME Books, NoYearStraddled, NEW s \in SaleIds, NEW n \in NextSeqs(calls[s].billYear), n > 1
    PROVE  \E t \in Numbered : sales[t].billYear = calls[s].billYear /\ sales[t].seq = n - 1
<1>1. PICK t \in LastBills(calls[s].billYear) : n = IF sales[t].series = "UROS"
                                                    THEN sales[t].seq + 1 ELSE 1
  BY DEF NextSeqs
<1>2. t \in SaleIds /\ sales[t].fiscalYear = calls[s].billYear
  BY DEF LastBills, SalesOf
<1>3. sales[t].series = "UROS" /\ n = sales[t].seq + 1
  BY <1>1
<1>4. sales[t].seq \in Nat
  BY <1>2 DEF Books, TypeOK, Sale
<1> QED
  BY <1>2, <1>3, <1>4 DEF Numbered, NoYearStraddled

LEMMA SeriesNext == Books /\ OutboxMatchesBooks /\ SeriesKept /\ [Next]_vars => SeriesKept'
<1> SUFFICES ASSUME Books, OutboxMatchesBooks, SeriesKept, [Next]_vars,
                    NoYearStraddled', Overwritten' = {}
             PROVE  CallsContinuous' /\ \A s \in Numbered' : HasPredecessor(s)'
  BY DEF SeriesKept
<1> USE DEF Books
<1>1. \A t \in Numbered : /\ t \in Numbered'
                          /\ sales'[t].billYear = sales[t].billYear
                          /\ sales'[t].fiscalYear = sales[t].fiscalYear
                          /\ sales'[t].seq = sales[t].seq
  BY NumbersKept
<1>2. NoYearStraddled /\ Overwritten = {}
  BY <1>1, OverwrittenStays DEF NoYearStraddled
<1>3. CallsContinuous /\ \A s \in Numbered : HasPredecessor(s)
  BY <1>2 DEF SeriesKept
\* What has a predecessor keeps it.
<1>4. ASSUME NEW y, NEW n,
             \E t \in Numbered : sales[t].billYear = y /\ sales[t].seq = n
      PROVE  \E t \in Numbered' : sales'[t].billYear = y /\ sales'[t].seq = n
  BY <1>1, <1>4
<1>5. \A s \in Numbered : HasPredecessor(s)'
  BY <1>1, <1>3, <1>4 DEF HasPredecessor
<1>6. ASSUME NEW s \in SaleIds, CommitSale(s)
      PROVE  CallsContinuous' /\ \A t \in Numbered' : HasPredecessor(t)'
  <2>1. /\ sales'[s].billYear = calls[s].billYear /\ sales'[s].seq = calls[s].seq
        /\ calls[s].stage = "numbered"
        /\ \A t \in SaleIds \ {s} : sales'[t] = sales[t] /\ calls'[t] = calls[t]
        /\ calls'[s].stage = "idle"
    BY <1>6 DEF CommitSale, TypeOK, NoCall
  <2>2. HasPredecessor(s)'
    BY <1>3, <1>4, <2>1 DEF CallsContinuous, HasPredecessor
  <2>3. \A t \in Numbered' : t = s \/ t \in Numbered
    BY <2>1 DEF Numbered
  <2>4. CallsContinuous'
    BY <1>3, <1>4, <2>1 DEF CallsContinuous
  <2> QED
    BY <1>5, <2>2, <2>3, <2>4
<1>7. ASSUME NEW s \in SaleIds, ReadLastBill(s) PROVE CallsContinuous'
  <2>1. PICK n \in NextSeqs(calls[s].billYear) :
          calls' = [calls EXCEPT ![s].stage = "numbered",
                                 ![s].seq = n,
                                 ![s].fiscalYear = FYAt[clock]]
    BY <1>7 DEF ReadLastBill
  <2>2. /\ calls'[s].seq = n /\ calls'[s].billYear = calls[s].billYear
        /\ \A t \in SaleIds \ {s} : calls'[t] = calls[t]
    BY <2>1 DEF TypeOK, Call
  <2>3. n > 1 => \E t \in Numbered : sales[t].billYear = calls[s].billYear /\ sales[t].seq = n - 1
    BY <1>2, ReadsNextNumber
  <2>4. calls'[s].seq > 1 =>
          \E t \in Numbered' : /\ sales'[t].billYear = calls'[s].billYear
                              /\ sales'[t].seq = calls'[s].seq - 1
    <3>1. n > 1 => \E t \in Numbered' : /\ sales'[t].billYear = calls[s].billYear
                                       /\ sales'[t].seq = n - 1
      BY <1>4, <2>3
    <3> QED
      BY <2>2, <3>1
  <2>5. ASSUME NEW u \in SaleIds \ {s}, calls'[u].stage = "numbered", calls'[u].seq > 1
        PROVE  \E t \in Numbered' : /\ sales'[t].billYear = calls'[u].billYear
                                   /\ sales'[t].seq = calls'[u].seq - 1
    BY <1>3, <1>4, <2>2, <2>5 DEF CallsContinuous
  <2> QED
    BY <2>4, <2>5 DEF CallsContinuous
<1>8. ASSUME NEW s \in SaleIds, NEW c \in Carts, StartSale(s, c) PROVE CallsContinuous'
  <2>1. calls'[s].stage = "started" /\ \A t \in SaleIds \ {s} : calls'[t] = calls[t]
    BY <1>8 DEF StartSale, TypeOK
  <2> QED
    BY <1>3, <1>4, <2>1 DEF CallsContinuous
<1>9. ASSUME NEW s \in SaleIds, RejectSale(s) PROVE CallsContinuous'
  <2>1. calls'[s].stage = "idle" /\ \A t \in SaleIds \ {s} : calls'[t] = calls[t]
    BY <1>9 DEF RejectSale, TypeOK, NoCall
  <2> QED
    BY <1>3, <1>4, <2>1 DEF CallsContinuous
<1>10. CASE AppCrash
  BY <1>5, <1>10 DEF AppCrash, CallsContinuous, NoCall, Numbered
<1>11. ASSUME calls' = calls PROVE CallsContinuous'
  BY <1>3, <1>4, <1>11 DEF CallsContinuous
<1>12. ASSUME sales' = sales PROVE \A t \in Numbered' : HasPredecessor(t)'
  BY <1>5, <1>12 DEF Numbered
<1>13. ASSUME NEW s \in SaleIds, sales' = [sales EXCEPT ![s] = sales'[s]],
              sales'[s].series \in {"INV", "HOLD"} \/ sales'[s].series = sales[s].series
       PROVE  \A t \in Numbered' : HasPredecessor(t)'
  <2>1. \A t \in Numbered' : t \in Numbered
    BY <1>13 DEF Numbered, TypeOK
  <2> QED
    BY <1>5, <2>1
<1>14. ASSUME NEW s \in SaleIds, NEW c \in Carts, NEW y \in DraftYears, CreateSale(s, c, y)
       PROVE  CallsContinuous' /\ \A t \in Numbered' : HasPredecessor(t)'
  <2>1. sales' = [sales EXCEPT ![s] = sales'[s]] /\ sales'[s].series = "INV" /\ calls' = calls
    BY <1>14 DEF CreateSale, TypeOK
  <2> QED
    BY <1>11, <1>13, <2>1
<1>15. ASSUME NEW s \in SaleIds, NEW c \in Carts, NEW y \in AllYears, HoldBill(s, c, y)
       PROVE  CallsContinuous' /\ \A t \in Numbered' : HasPredecessor(t)'
  <2>1. sales' = [sales EXCEPT ![s] = sales'[s]] /\ sales'[s].series = "HOLD" /\ calls' = calls
    BY <1>15 DEF HoldBill, TypeOK
  <2> QED
    BY <1>11, <1>13, <2>1
<1>16. ASSUME NEW s \in SaleIds, CancelSale(s)
       PROVE  CallsContinuous' /\ \A t \in Numbered' : HasPredecessor(t)'
  <2>1. sales' = [sales EXCEPT ![s] = [sales[s] EXCEPT !.status = "cancelled"]] /\ calls' = calls
    BY <1>16 DEF CancelSale
  <2>2. sales' = [sales EXCEPT ![s] = sales'[s]] /\ sales'[s].series = sales[s].series
    BY <2>1 DEF TypeOK, Sale
  <2> QED
    BY <1>11, <1>13, <2>1, <2>2
<1>17. ASSUME NEW o \in OrderIds, NEW x \in Suppliers, NEW d \in Deliveries,
              ProcessStockIn(o, x, d)
       PROVE  CallsContinuous' /\ \A t \in Numbered' : HasPredecessor(t)'
  BY <1>11, <1>12, <1>17 DEF ProcessStockIn
<1> QED
  BY <1>6, <1>7, <1>8, <1>9, <1>10, <1>11, <1>12, <1>14, <1>15, <1>16, <1>17
  DEF Next, vars, Tick, StartSale, ReadLastBill, RejectSale, ResumeHeldBill, AppCrash

\* The IRD series has no gap, however checkouts interleave: a number is either
\* the first or follows one that is on a bill when it is read, and bills stay
\* as long as none is held over.
THEOREM BillsAlwaysContinuous == Spec => []BillsContinuous
<1>1. Init => SeriesKept
  BY DEF Init, SeriesKept, CallsContinuous, Numbered, NoSale, NoCall
<1>2. SeriesKept => BillsContinuous
  BY DEF SeriesKept, BillsContinuous, NoYearStraddled
<1> QED
  BY <1>1, <1>2, BooksInit, BooksNext, OutboxInit, OutboxNext, SeriesNext, PTL DEF Spec
=============================================================================
