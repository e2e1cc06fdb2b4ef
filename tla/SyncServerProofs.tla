-------------------------- MODULE SyncServerProofs --------------------------
(***************************************************************************)
(* Theorems about SyncServer, for any tables' contents, any versions the   *)
(* devices push, any number of handlers, any skew and any clock.           *)
(***************************************************************************)
EXTENDS SyncServer, FiniteSums

LEMMA EditsTyped ==
    /\ \A e \in ProductEdits : e.product \in Products /\ e.stock \in Nat /\ e.at \in Times
    /\ \A e \in SaleEdits : /\ e.sale \in Sales /\ e.bill \in BillNumbers /\ e.at \in Times
                            /\ e.status \in Statuses
    /\ \A e \in CustomerEdits : e.customer \in Customers /\ e.debt \in Int /\ e.at \in Times
    /\ \A i \in Items : i.product \in Products /\ i.qty \in Nat
    /\ \A n \in Entries : /\ n.customer \in Customers /\ n.amount \in Nat
                          /\ n.due \in Times \cup {NoDue} /\ n.overdue \in BOOLEAN
                          /\ n.type \in {"debit", "credit"}
  BY DeltasAssumption

\* The edit of a handler between its two statements is one that was pushed.
LEMMA HandlersTyped ==
    ASSUME TypeOK, NEW h \in Handlers
    PROVE  /\ Idle \in HandlerState
           /\ handler[h].pc = "product" => handler[h].edit \in ProductEdits
           /\ handler[h].pc = "sale" => handler[h].edit \in SaleEdits
<1>1. handler[h] \in HandlerState
  BY DEF TypeOK
<1>2. CASE handler[h] = Idle
  BY <1>2 DEF HandlerState, Idle
<1>3. CASE handler[h] \in [pc : {"product"}, edit : ProductEdits]
  BY <1>3 DEF HandlerState
<1>4. CASE handler[h] \in [pc : {"sale"}, edit : SaleEdits]
  BY <1>4 DEF HandlerState
<1> QED
  BY <1>1, <1>2, <1>3, <1>4 DEF HandlerState

LEMMA TypeInit == Init => TypeOK
<1> SUFFICES ASSUME Init PROVE TypeOK
  OBVIOUS
<1>1. 0 \in Times
  BY ClockAssumption DEF Times
<1>2. /\ product \in [Products -> ProductRow] /\ sale \in [Sales -> SaleRow]
      /\ customer \in [Customers -> CustomerRow]
  BY <1>1 DEF Init, ProductRow, SaleRow, CustomerRow
<1>3. handler \in [Handlers -> HandlerState]
  BY DEF Init, HandlerState
<1>4. written \in [Products -> [stock : Nat, at : Times, before : SUBSET Items,
                                ahead : BOOLEAN]]
  BY <1>1 DEF Init
<1> QED
  BY <1>1, <1>2, <1>3, <1>4 DEF Init, TypeOK

LEMMA TypeNext == TypeOK /\ [Next]_vars => TypeOK'
<1> SUFFICES ASSUME TypeOK, [Next]_vars PROVE TypeOK'
  OBVIOUS
<1> USE EditsTyped
<1>a. Times \subseteq Nat /\ clock \in Times
  BY DEF Times, TypeOK
<1>1. CASE Tick
  BY <1>1, ClockAssumption
  DEF Tick, ProductTables, SaleTables, CustomerTables, TypeOK, Times
<1>2. CASE MarkOverdue
  <2>1. overdue' \subseteq {n.id : n \in entries'} /\ sweptAt' \in [Entries -> Times]
    BY <1>2, <1>a DEF MarkOverdue, TypeOK
  <2> QED
    BY <1>2, <2>1 DEF MarkOverdue, ProductTables, SaleTables, TypeOK
<1>3. ASSUME NEW h \in Handlers, HandlerDies(h) PROVE TypeOK'
  <2>1. handler' \in [Handlers -> HandlerState]
    BY <1>3, HandlersTyped DEF HandlerDies, Moves, TypeOK
  <2> QED
    BY <1>3, <2>1 DEF HandlerDies, ProductTables, SaleTables, CustomerTables, TypeOK
<1>4. ASSUME NEW h \in Handlers, NEW e \in ProductEdits, ReadProduct(h, e) PROVE TypeOK'
  <2>1. handler' \in [Handlers -> HandlerState]
    BY <1>4 DEF ReadProduct, Moves, TypeOK, HandlerState
  <2> QED
    BY <1>4, <2>1 DEF ReadProduct, SaleTables, CustomerTables, TypeOK
<1>5. ASSUME NEW h \in Handlers, WriteProduct(h) PROVE TypeOK'
  <2> DEFINE e == handler[h].edit
  <2>1. e \in ProductEdits
    BY <1>5, HandlersTyped DEF WriteProduct
  <2>2. handler' \in [Handlers -> HandlerState]
    BY <1>5, HandlersTyped DEF WriteProduct, Moves, TypeOK
  <2>3. product' \in [Products -> ProductRow]
    <3> DEFINE k == [known |-> TRUE, stock |-> e.stock,
                     updatedAt |-> IF product[e.product].known THEN clock ELSE e.at]
    <3>1. k \in ProductRow
      BY <1>a, <2>1 DEF ProductRow
    <3>2. product' = product \/ product' = [product EXCEPT ![e.product] = k]
      BY <1>5 DEF WriteProduct
    <3> HIDE DEF k
    <3> QED
      BY <3>1, <3>2 DEF TypeOK
  <2>4. written' \in [Products -> [stock : Nat, at : Times, before : SUBSET Items,
                                   ahead : BOOLEAN]]
    <3> DEFINE k == [stock |-> e.stock, at |-> e.at, before |-> items,
                     ahead |-> written[e.product].ahead \/ e.at > clock]
    <3>1. k \in [stock : Nat, at : Times, before : SUBSET Items, ahead : BOOLEAN]
      BY <1>a, <2>1 DEF TypeOK
    <3>2. written' = written \/ written' = [written EXCEPT ![e.product] = k]
      BY <1>5, <2>1 DEF WriteProduct, TypeOK
    <3> HIDE DEF k
    <3> QED
      BY <3>1, <3>2 DEF TypeOK
  <2> QED
    BY <1>5, <2>2, <2>3, <2>4 DEF WriteProduct, SaleTables, CustomerTables, TypeOK
<1>6. ASSUME NEW i \in Items, InsertItem(i) PROVE TypeOK'
  <2> DEFINE k == [product[i.product] EXCEPT !.stock = @ - i.qty, !.updatedAt = clock]
  <2>1. k \in ProductRow
    <3>1. product[i.product] \in ProductRow /\ product[i.product].stock >= i.qty
      BY <1>6 DEF InsertItem, Deductible, TypeOK
    <3>2. product[i.product].stock - i.qty \in Nat
      BY <3>1 DEF ProductRow
    <3> QED
      BY <1>a, <3>1, <3>2 DEF ProductRow
  <2>2. product' = [product EXCEPT ![i.product] = k]
    BY <1>6 DEF InsertItem
  <2> HIDE DEF k
  <2>3. product' \in [Products -> ProductRow]
    BY <2>1, <2>2 DEF TypeOK
  <2> QED
    BY <1>6, <2>3 DEF InsertItem, SaleTables, CustomerTables, TypeOK
<1>7. ASSUME NEW h \in Handlers, NEW e \in SaleEdits, ReadSale(h, e) PROVE TypeOK'
  <2>1. handler' \in [Handlers -> HandlerState]
    BY <1>7 DEF ReadSale, Moves, TypeOK, HandlerState
  <2>2. saleAnswers' \subseteq SaleEdits
    BY <1>7 DEF ReadSale, TypeOK
  <2> QED
    BY <1>7, <2>1, <2>2 DEF ReadSale, ProductTables, CustomerTables, TypeOK
<1>8. ASSUME NEW h \in Handlers, WriteSale(h) PROVE TypeOK'
  <2> DEFINE e == handler[h].edit
  <2>1. e \in SaleEdits
    BY <1>8, HandlersTyped DEF WriteSale
  <2>2. handler' \in [Handlers -> HandlerState]
    BY <1>8, HandlersTyped DEF WriteSale, Moves, TypeOK
  <2>3. sale' \in [Sales -> SaleRow]
    BY <1>8, <2>1 DEF WriteSale, SaleTables, TypeOK, SaleRow
  <2>4. saleAnswers' \subseteq SaleEdits
    BY <1>8, <2>1 DEF WriteSale, SaleTables, TypeOK
  <2> QED
    BY <1>8, <2>2, <2>3, <2>4 DEF WriteSale, ProductTables, CustomerTables, TypeOK
<1>9. ASSUME NEW e \in CustomerEdits, UpsertCustomer(e) PROVE TypeOK'
  <2>1. customer' \in [Customers -> CustomerRow]
    <3> DEFINE k == [known |-> TRUE, debt |-> e.debt, updatedAt |-> e.at]
               l == [customer[e.customer] EXCEPT !.debt = DebtAfterUpsert(e),
                                                 !.updatedAt = clock]
    <3>1. k \in CustomerRow /\ l \in CustomerRow
      BY <1>a DEF DebtAfterUpsert, TypeOK, CustomerRow
    <3>2. \/ customer' = [customer EXCEPT ![e.customer] = k]
          \/ customer' = [customer EXCEPT ![e.customer] = l]
      BY <1>9 DEF UpsertCustomer
    <3> HIDE DEF k, l
    <3> QED
      BY <3>1, <3>2 DEF TypeOK
  <2>2. openingDebt' \in [Customers -> Int]
    BY <1>9 DEF UpsertCustomer, TypeOK
  <2> QED
    BY <1>9, <2>1, <2>2 DEF UpsertCustomer, ProductTables, SaleTables, TypeOK
<1>10. ASSUME NEW n \in Entries, InsertEntry(n) PROVE TypeOK'
  <2>1. entries' \subseteq Entries /\ overdue' \subseteq {m.id : m \in entries'}
    BY <1>10 DEF InsertEntry, OverdueAfterPush, TypeOK
  <2>2. customer' \in [Customers -> CustomerRow]
    <3> DEFINE c == n.customer
               k == [customer[c] EXCEPT !.debt = @ + Signed(n), !.updatedAt = clock]
    <3>1. c \in Customers /\ Signed(n) \in Int
      BY DEF Signed
    <3>2. k \in CustomerRow
      <4>1. customer[c] \in CustomerRow
        BY <3>1 DEF TypeOK
      <4>2. customer[c].debt + Signed(n) \in Int
        BY <3>1, <4>1 DEF CustomerRow
      <4> QED
        BY <1>a, <4>1, <4>2 DEF CustomerRow
    <3>3. customer' = customer \/ customer' = [customer EXCEPT ![c] = k]
      BY <1>10 DEF InsertEntry
    <3> HIDE DEF k
    <3> QED
      BY <3>2, <3>3 DEF TypeOK
  <2> QED
    BY <1>10, <2>1, <2>2 DEF InsertEntry, ProductTables, SaleTables, TypeOK
<1>11. CASE UNCHANGED vars
  BY <1>11 DEF vars, TypeOK
<1> QED
  BY <1>1, <1>2, <1>3, <1>4, <1>5, <1>6, <1>7, <1>8, <1>9, <1>10, <1>11 DEF Next

\* Type correctness, for every instance; with it, the trigger never lets the
\* stock of a product go below zero.
THEOREM TypeCorrect == Spec => []TypeOK
  BY TypeInit, TypeNext, PTL DEF Spec

-----------------------------------------------------------------------------
(* Products.  Until a version from the future is stored, a row's stamp is at  *)
(* or after the version it holds, so that the guard of the upsert compares    *)
(* the arriving version with no less than the version stored.                 *)

StampsCover ==
    \A p \in Products : ~written[p].ahead =>
       /\ written[p].at <= clock
       /\ IF product[p].known THEN written[p].at <= product[p].updatedAt ELSE written[p].at = 0

\* What an upsert of a product that stores something leaves.
LEMMA WriteEffect ==
    ASSUME TypeOK, NEW h \in Handlers, WriteProduct(h)
    PROVE  LET e == handler[h].edit  p == e.product IN
           /\ e \in ProductEdits
           /\ \A i \in Products \ {p} : product'[i] = product[i] /\ written'[i] = written[i]
           /\ \/ product'[p] = product[p] /\ written'[p] = written[p]
              \/ /\ product[p].known => product[p].updatedAt <= e.at
                 /\ product'[p].known /\ product'[p].stock = e.stock
                 /\ product'[p].updatedAt = IF product[p].known THEN clock ELSE e.at
                 /\ written'[p].stock = e.stock /\ written'[p].at = e.at
                 /\ written'[p].before = items
                 /\ written'[p].ahead = (written[p].ahead \/ e.at > clock)
<1> DEFINE e == handler[h].edit
           p == e.product
<1>1. e \in ProductEdits /\ p \in Products
  BY HandlersTyped, EditsTyped DEF WriteProduct
<1>2. CASE product[p].known /\ ~Overwrites(e)
  BY <1>1, <1>2 DEF WriteProduct
<1>3. CASE ~product[p].known \/ Overwrites(e)
  <2> DEFINE k == [known |-> TRUE, stock |-> e.stock,
                   updatedAt |-> IF product[p].known THEN clock ELSE e.at]
             w == [stock |-> e.stock, at |-> e.at, before |-> items,
                   ahead |-> written[p].ahead \/ e.at > clock]
  <2>1. product' = [product EXCEPT ![p] = k] /\ written' = [written EXCEPT ![p] = w]
    BY <1>1, <1>3 DEF WriteProduct, TypeOK
  <2>2. product'[p] = k /\ written'[p] = w
    BY <1>1, <2>1 DEF TypeOK
  <2>3. \A i \in Products \ {p} : product'[i] = product[i] /\ written'[i] = written[i]
    BY <2>1 DEF TypeOK
  <2>4. product[p].known => product[p].updatedAt <= e.at
    BY <1>3 DEF Overwrites
  <2> QED
    BY <1>1, <2>2, <2>3, <2>4
<1> QED
  BY <1>2, <1>3

\* What the trigger of a new line leaves.
LEMMA InsertEffect ==
    ASSUME TypeOK, NEW i \in Items, InsertItem(i)
    PROVE  /\ product[i.product].known
           /\ product'[i.product].known = product[i.product].known
           /\ product'[i.product].stock = product[i.product].stock - i.qty
           /\ product'[i.product].updatedAt = clock
           /\ \A p \in Products \ {i.product} : product'[p] = product[p]
           /\ items' = items \cup {i} /\ i \notin items
           /\ UNCHANGED <<clock, written>>
<1> DEFINE k == [product[i.product] EXCEPT !.stock = @ - i.qty, !.updatedAt = clock]
<1>1. i.product \in Products /\ product' = [product EXCEPT ![i.product] = k]
  BY EditsTyped DEF InsertItem
<1>2. /\ k.known = product[i.product].known
      /\ k.stock = product[i.product].stock - i.qty /\ k.updatedAt = clock
  BY <1>1 DEF TypeOK, ProductRow
<1> HIDE DEF k
<1>3. product'[i.product] = k /\ \A p \in Products \ {i.product} : product'[p] = product[p]
  BY <1>1 DEF TypeOK
<1> QED
  BY <1>2, <1>3 DEF InsertItem, Deductible, NewItem

\* The steps that touch neither table nor the clock.
LEMMA ProductSteps ==
    ASSUME [Next]_vars
    PROVE  \/ UNCHANGED <<product, written, items>> /\ (clock' = clock \/ clock' = clock + 1)
           \/ \E h \in Handlers : WriteProduct(h)
           \/ \E i \in Items : InsertItem(i)
  BY DEF Next, vars, Tick, MarkOverdue, HandlerDies, WriteSale, ReadProduct, ReadSale,
         UpsertCustomer, InsertEntry, ProductTables

LEMMA StampsNext == TypeOK /\ StampsCover /\ [Next]_vars => StampsCover'
<1> SUFFICES ASSUME TypeOK, StampsCover, [Next]_vars PROVE StampsCover'
  OBVIOUS
<1>a. /\ clock \in Nat
      /\ \A p \in Products : /\ written[p].at \in Nat /\ product[p].updatedAt \in Nat
                             /\ written[p].ahead \in BOOLEAN
  BY DEF TypeOK, Times, ProductRow
<1>1. CASE UNCHANGED <<product, written, items>> /\ (clock' = clock \/ clock' = clock + 1)
  BY <1>1, <1>a DEF StampsCover
<1>2. ASSUME NEW h \in Handlers, WriteProduct(h), NEW p \in Products, ~written'[p].ahead
      PROVE  /\ written'[p].at <= clock'
             /\ IF product'[p].known THEN written'[p].at <= product'[p].updatedAt
                ELSE written'[p].at = 0
  <2>1. clock' = clock
    BY <1>2 DEF WriteProduct
  <2>2. CASE product'[p] = product[p] /\ written'[p] = written[p]
    BY <1>2, <2>1, <2>2 DEF StampsCover
  <2>3. CASE ~(product'[p] = product[p] /\ written'[p] = written[p])
    <3> DEFINE e == handler[h].edit
    <3>1. /\ e \in ProductEdits
          /\ product'[p].known
          /\ product'[p].updatedAt = IF product[p].known THEN clock ELSE e.at
          /\ written'[p].at = e.at
          /\ written'[p].ahead = (written[p].ahead \/ e.at > clock)
      BY <1>2, <2>3, WriteEffect
    <3>2. e.at \in Nat
      BY <3>1, EditsTyped DEF Times
    <3>3. ~(e.at > clock)
      BY <1>2, <3>1
    <3> HIDE DEF e
    <3> QED
      BY <2>1, <3>1, <3>2, <3>3, <1>a
  <2> QED
    BY <2>2, <2>3
<1>3. ASSUME NEW i \in Items, InsertItem(i) PROVE StampsCover'
  <2>1. /\ product[i.product].known
        /\ product'[i.product].known = product[i.product].known
        /\ product'[i.product].updatedAt = clock
        /\ \A p \in Products \ {i.product} : product'[p] = product[p]
        /\ UNCHANGED <<clock, written>>
    BY <1>3, InsertEffect
  <2> QED
    BY <2>1, <1>a DEF StampsCover
<1> QED
  <2>1. ASSUME NEW h \in Handlers, WriteProduct(h) PROVE StampsCover'
    BY <1>2, <2>1 DEF StampsCover
  <2> QED
    BY <1>1, <1>3, <2>1, ProductSteps

\* No older version of a product replaces a newer one, however the handlers'
\* SELECTs and upserts interleave and whatever is pushed again, until a device
\* stores a version from the future.
THEOREM NeverReplacedByOlder == Spec => NoOlderOverwrites
<1> DEFINE Kept == \A p \in Products : written'[p].ahead \/ written'[p].at >= written[p].at
<1>1. Init => StampsCover
  <2>1. 0 \in Times
    BY ClockAssumption DEF Times
  <2> QED
    BY DEF Init, StampsCover
<1>2. ASSUME TypeOK, StampsCover, [Next]_vars PROVE [Kept]_vars
  <2>a. \A p \in Products : written[p].at \in Nat
    BY <1>2 DEF TypeOK, Times
  <2>1. CASE UNCHANGED written
    BY <2>1, <2>a
  <2>2. ASSUME NEW h \in Handlers, WriteProduct(h), NEW p \in Products
        PROVE  written'[p].ahead \/ written'[p].at >= written[p].at
    <3>1. CASE written'[p] = written[p]
      BY <3>1, <2>a
    <3>2. CASE written'[p] # written[p]
      <4> DEFINE e == handler[h].edit
      <4>1. /\ e \in ProductEdits
            /\ product[p].known => product[p].updatedAt <= e.at
            /\ written'[p].at = e.at
            /\ written'[p].ahead = (written[p].ahead \/ e.at > clock)
        BY <1>2, <2>2, <3>2, WriteEffect
      <4>2. e.at \in Nat /\ product[p].updatedAt \in Nat
        BY <4>1, <1>2, EditsTyped DEF Times, TypeOK, ProductRow
      <4>3. ~written[p].ahead =>
               IF product[p].known THEN written[p].at <= product[p].updatedAt
               ELSE written[p].at = 0
        BY <1>2 DEF StampsCover
      <4> HIDE DEF e
      <4>4. CASE written[p].ahead
        BY <4>1, <4>4
      <4>5. CASE ~written[p].ahead
        BY <4>1, <4>2, <4>3, <4>5, <2>a
      <4> QED
        BY <4>4, <4>5
    <3> QED
      BY <3>1, <3>2
  <2>3. ASSUME NEW i \in Items, InsertItem(i) PROVE UNCHANGED written
    BY <2>3 DEF InsertItem
  <2> QED
    BY <1>2, <2>1, <2>2, <2>3, ProductSteps
<1> QED
  BY <1>1, <1>2, TypeInit, TypeNext, StampsNext, PTL DEF Spec, NoOlderOverwrites

-----------------------------------------------------------------------------
(* Stock.  The lines stored before the last absolute figure stay stored, so   *)
(* that a new line is never among them; the lines are finite, whatever Items  *)
(* is, because they arrive one by one.                                        *)

Quantity == [i \in Items |-> i.qty]

Since(p) == {i \in items \ written[p].before : i.product = p}

LinesStored == IsFiniteSet(items) /\ \A p \in Products : written[p].before \subseteq items

LEMMA StockNext ==
    TypeOK /\ LinesStored /\ StockAccounted /\ [Next]_vars => LinesStored' /\ StockAccounted'
<1> SUFFICES ASSUME TypeOK, LinesStored, StockAccounted, [Next]_vars
             PROVE  LinesStored' /\ StockAccounted'
  OBVIOUS
<1>a. ASSUME NEW p \in Products
      PROVE  product[p].stock = written[p].stock - SumFunctionOnSet(Quantity, Since(p))
  BY DEF StockAccounted, Quantity, Since
<1>b. ASSUME \A p \in Products :
                product'[p].stock = written'[p].stock - SumFunctionOnSet(Quantity, Since(p)')
      PROVE  StockAccounted'
  BY <1>b DEF StockAccounted, Quantity, Since
<1>c. \A p \in Products : /\ IsFiniteSet(Since(p)) /\ Since(p) \subseteq Items
                         /\ written[p].stock \in Nat
  <2>1. \A p \in Products : Since(p) \subseteq items
    BY DEF Since
  <2> QED
    BY <2>1, FS_Subset DEF LinesStored, TypeOK
<1>d. \A i \in Items : Quantity[i] \in Int
  BY EditsTyped DEF Quantity
<1>1. CASE UNCHANGED <<product, written, items>>
  BY <1>1 DEF LinesStored, StockAccounted
<1>2. ASSUME NEW h \in Handlers, WriteProduct(h) PROVE LinesStored' /\ StockAccounted'
  <2> DEFINE e == handler[h].edit
  <2>1. items' = items
    BY <1>2 DEF WriteProduct
  <2>2. /\ e \in ProductEdits
        /\ \A i \in Products \ {e.product} : product'[i] = product[i] /\ written'[i] = written[i]
        /\ \/ product'[e.product] = product[e.product] /\ written'[e.product] = written[e.product]
           \/ /\ product'[e.product].stock = e.stock
              /\ written'[e.product].stock = e.stock
              /\ written'[e.product].before = items
    BY <1>2, WriteEffect
  <2>3. ASSUME NEW p \in Products
        PROVE  /\ product'[p].stock = written'[p].stock - SumFunctionOnSet(Quantity, Since(p)')
               /\ written'[p].before \subseteq items'
    <3>1. CASE product'[p] = product[p] /\ written'[p] = written[p]
      <4>1. Since(p)' = Since(p)
        BY <2>1, <3>1 DEF Since
      <4> QED
        BY <2>1, <3>1, <4>1, <1>a DEF LinesStored
    <3>2. CASE ~(product'[p] = product[p] /\ written'[p] = written[p])
      <4>1. /\ product'[p].stock = e.stock /\ written'[p].stock = e.stock
            /\ written'[p].before = items
        BY <2>2, <3>2
      <4>2. Since(p)' = {}
        BY <2>1, <4>1 DEF Since
      <4>3. SumFunctionOnSet(Quantity, {}) = 0
        BY SumEmpty
      <4>4. e.stock \in Nat
        BY <2>2, EditsTyped
      <4> HIDE DEF e
      <4>5. e.stock = e.stock - 0
        BY <4>4
      <4> QED
        BY <2>1, <4>1, <4>2, <4>3, <4>5
    <3> QED
      BY <3>1, <3>2
  <2>4. LinesStored'
    BY <2>1, <2>3 DEF LinesStored
  <2> QED
    BY <2>3, <2>4, <1>b
<1>3. ASSUME NEW i \in Items, InsertItem(i) PROVE LinesStored' /\ StockAccounted'
  <2>1. /\ product'[i.product].stock = product[i.product].stock - i.qty
        /\ \A p \in Products \ {i.product} : product'[p] = product[p]
        /\ items' = items \cup {i} /\ i \notin items
        /\ UNCHANGED written
    BY <1>3, InsertEffect
  <2>2. IsFiniteSet(items')
    BY <2>1, FS_AddElement DEF LinesStored
  <2>3. LinesStored'
    BY <2>1, <2>2 DEF LinesStored
  <2>4. ASSUME NEW p \in Products
        PROVE  product'[p].stock = written'[p].stock - SumFunctionOnSet(Quantity, Since(p)')
    <3>1. CASE p # i.product
      <4>1. Since(p)' = Since(p)
        BY <2>1, <3>1 DEF Since
      <4> QED
        BY <2>1, <3>1, <4>1, <1>a
    <3>2. CASE p = i.product
      <4>1. Since(p)' = Since(p) \cup {i} /\ i \notin Since(p)
        BY <2>1, <3>2 DEF Since, LinesStored
      <4>2. /\ IsFiniteSet(Since(p))
            /\ \A y \in Since(p) : Quantity[y] \in Int
            /\ Quantity[i] \in Int
        BY <1>c, <1>d
      <4>3. SumFunctionOnSet(Quantity, Since(p) \cup {i}) =
               SumFunctionOnSet(Quantity, Since(p)) + Quantity[i]
        BY <4>1, <4>2, SumInsert
      <4>4. SumFunctionOnSet(Quantity, Since(p)) \in Int
        BY <4>2, SumTyped
      <4>5. Quantity[i] = i.qty /\ i.qty \in Int
        BY EditsTyped DEF Quantity
      <4>6. product[p].stock = written[p].stock - SumFunctionOnSet(Quantity, Since(p))
        BY <1>a
      <4> QED
        BY <2>1, <3>2, <4>1, <4>3, <4>4, <4>5, <4>6, <1>c
    <3> QED
      BY <3>1, <3>2
  <2> QED
    BY <2>3, <2>4, <1>b
<1> QED
  BY <1>1, <1>2, <1>3, ProductSteps

\* The server's stock is the last absolute figure stored less the lines that
\* came after it, each once, whatever is resent and however handlers interleave.
THEOREM StockAlwaysAccounted == Spec => []StockAccounted
<1>1. Init => LinesStored /\ StockAccounted
  <2> SUFFICES ASSUME Init PROVE LinesStored /\ StockAccounted
    OBVIOUS
  <2>1. LinesStored
    BY FS_EmptySet DEF Init, LinesStored
  <2>2. \A p \in Products : {i \in items \ written[p].before : i.product = p} = {}
    BY DEF Init
  <2>3. SumFunctionOnSet(Quantity, {}) = 0
    BY SumEmpty
  <2>4. StockAccounted
    BY <2>2, <2>3 DEF StockAccounted, Quantity, Init
  <2> QED
    BY <2>1, <2>4
<1> QED
  BY <1>1, TypeInit, TypeNext, StockNext, PTL DEF Spec

-----------------------------------------------------------------------------
(* Bills.  What makes SaleIsLatest inductive: a version was answered only for *)
(* a bill that is stored, and the bill stored is one of those versions.       *)

BillsAnswered ==
    /\ \A e \in saleAnswers : sale[e.sale].status # "none" /\ sale[e.sale].updatedAt >= e.at
    /\ \A s \in Sales : sale[s].status # "none" =>
          \E f \in saleAnswers : /\ f.sale = s
                                 /\ f.at = sale[s].updatedAt
                                 /\ f.status = sale[s].status

LEMMA BillsNext == TypeOK /\ BillsAnswered /\ [Next]_vars => BillsAnswered'
<1> SUFFICES ASSUME TypeOK, BillsAnswered, [Next]_vars PROVE BillsAnswered'
  OBVIOUS
<1>a. \A s \in Sales : sale[s].updatedAt \in Nat
  BY DEF TypeOK, SaleRow, Times
<1>b. \A e \in SaleEdits : /\ e.sale \in Sales /\ e.at \in Nat
                          /\ e.status \in Statuses /\ e.status # "none"
  BY EditsTyped DEF Times, Statuses
<1>c. saleAnswers \subseteq SaleEdits
  BY DEF TypeOK
<1>1. CASE UNCHANGED SaleTables
  BY <1>1 DEF SaleTables, BillsAnswered
<1>2. ASSUME NEW h \in Handlers, NEW e \in SaleEdits, ReadSale(h, e) PROVE BillsAnswered'
  BY <1>2, <1>a, <1>b DEF ReadSale, BillsAnswered
<1>3. ASSUME NEW h \in Handlers, WriteSale(h) PROVE BillsAnswered'
  <2>1. PICK e \in SaleEdits : e = handler[h].edit
    BY <1>3, HandlersTyped DEF WriteSale
  <2>2. e.sale \in Sales /\ e.at \in Nat /\ e.status # "none"
    BY <1>b
  <2>3. CASE UNCHANGED SaleTables
    BY <1>1, <2>3
  <2>4. CASE /\ sale[e.sale].status # "none" /\ ~SaleWins(e)
             /\ sale' = sale /\ saleAnswers' = saleAnswers \cup {e}
    BY <2>2, <2>4, <1>a DEF SaleWins, BillsAnswered
  <2>5. CASE /\ sale[e.sale].status = "none" \/ SaleWins(e)
             /\ sale'[e.sale].status = e.status /\ sale'[e.sale].updatedAt = e.at
             /\ \A s \in Sales \ {e.sale} : sale'[s] = sale[s]
             /\ saleAnswers' = saleAnswers \cup {e}
    <3>1. ASSUME NEW f \in saleAnswers'
          PROVE  sale'[f.sale].status # "none" /\ sale'[f.sale].updatedAt >= f.at
      <4>1. CASE f.sale # e.sale
        BY <2>5, <3>1, <4>1, <1>b, <1>c DEF BillsAnswered
      <4>2. CASE f = e
        BY <2>2, <2>5, <4>2
      <4>3. CASE f # e /\ f.sale = e.sale
        <5>1. f \in saleAnswers /\ sale[e.sale].updatedAt >= f.at /\ SaleWins(e)
          BY <2>5, <3>1, <4>3 DEF BillsAnswered
        <5>2. f.at \in Nat
          BY <5>1, <1>b, <1>c
        <5> QED
          BY <2>2, <2>5, <4>3, <5>1, <5>2, <1>a DEF SaleWins
      <4> QED
        BY <4>1, <4>2, <4>3
    <3>2. ASSUME NEW s \in Sales, sale'[s].status # "none"
          PROVE  \E f \in saleAnswers' : /\ f.sale = s
                                         /\ f.at = sale'[s].updatedAt
                                         /\ f.status = sale'[s].status
      BY <2>5, <3>2 DEF BillsAnswered
    <3> QED
      BY <3>1, <3>2 DEF BillsAnswered
  <2> QED
    <3>1. CASE sale[e.sale].status = "none"
      BY <1>3, <2>1, <2>2, <2>3, <2>5, <3>1 DEF WriteSale, TypeOK, SaleRow
    <3>2. CASE sale[e.sale].status # "none" /\ ~SaleWins(e)
      BY <1>3, <2>1, <2>4, <3>2 DEF WriteSale
    <3>3. CASE sale[e.sale].status # "none" /\ SaleWins(e)
      <4> DEFINE k == [sale[e.sale] EXCEPT !.status = e.status, !.updatedAt = e.at]
      <4>1. sale' = [sale EXCEPT ![e.sale] = k] /\ saleAnswers' = saleAnswers \cup {e}
        BY <1>3, <2>1, <3>3 DEF WriteSale
      <4>2. k.status = e.status /\ k.updatedAt = e.at
        BY <2>2 DEF TypeOK, SaleRow
      <4> HIDE DEF k
      <4>3. /\ sale'[e.sale].status = e.status /\ sale'[e.sale].updatedAt = e.at
            /\ \A s \in Sales \ {e.sale} : sale'[s] = sale[s]
        BY <2>2, <4>1, <4>2 DEF TypeOK
      <4> QED
        BY <2>5, <3>3, <4>1, <4>3
    <3> QED
      BY <3>1, <3>2, <3>3
<1> QED
  BY <1>1, <1>2, <1>3
  DEF Next, vars, Tick, MarkOverdue, HandlerDies, WriteProduct, ReadProduct, InsertItem,
      UpsertCustomer, InsertEntry, SaleTables

\* The bill on the server is the latest of the versions answered for, in any
\* order of arrival, any interleaving of SELECTs and upserts, with any resend.
THEOREM BillsStayLatest == Spec => []SaleIsLatest
<1>1. Init => BillsAnswered
  BY DEF Init, BillsAnswered
<1>2. TypeOK /\ BillsAnswered => SaleIsLatest
  BY EditsTyped DEF BillsAnswered, SaleIsLatest, TypeOK
<1> QED
  BY <1>1, <1>2, TypeInit, TypeNext, BillsNext, PTL DEF Spec

-----------------------------------------------------------------------------
(* Debts.  An entry is stored once, for a customer the server knows, and is   *)
(* not swept before; the entries stored are finite as the lines are.          *)

Amount == [n \in Entries |-> Signed(n)]

LedgerOf(c) == {n \in entries : n.customer = c}

EntriesOnce ==
    /\ IsFiniteSet(entries)
    /\ \A m, n \in entries : m.id = n.id => m = n
    /\ \A n \in entries : customer[n.customer].known
    /\ \A n \in Entries : sweptAt[n] <= clock /\ (n \notin entries => sweptAt[n] = 0)

\* A customer the server does not know yet owes nothing.
Unknown ==
    \A c \in Customers : ~customer[c].known => customer[c].debt = 0 /\ openingDebt[c] = 0

LEMMA SignedTyped == \A n \in Entries : Signed(n) \in Int
  BY EditsTyped DEF Signed

\* What an entry pushed leaves: the first time, or again.
LEMMA EntryEffect ==
    ASSUME TypeOK, NEW n \in Entries, InsertEntry(n)
    PROVE  /\ customer[n.customer].known
           /\ UNCHANGED <<openingDebt, sweptAt, clock>>
           /\ \A c \in Customers \ {n.customer} : customer'[c] = customer[c]
           /\ \A c \in Customers : customer'[c].known = customer[c].known
           /\ \/ UNCHANGED <<entries, customer, overdue>>
              \/ /\ \A m \in entries : m.id # n.id
                 /\ entries' = entries \cup {n}
                 /\ overdue' = IF n.overdue THEN overdue \cup {n.id} ELSE overdue
                 /\ customer'[n.customer].debt = customer[n.customer].debt + Signed(n)
<1>1. CASE ~NewEntry(n)
  BY <1>1 DEF InsertEntry, OverdueAfterPush
<1>2. CASE NewEntry(n)
  <2> DEFINE c == n.customer
             k == [customer[c] EXCEPT !.debt = @ + Signed(n), !.updatedAt = clock]
  <2>1. c \in Customers /\ customer' = [customer EXCEPT ![c] = k]
    BY <1>2, EditsTyped DEF InsertEntry
  <2>2. k.known = customer[c].known /\ k.debt = customer[c].debt + Signed(n)
    BY <2>1 DEF TypeOK, CustomerRow
  <2> HIDE DEF k
  <2>3. customer'[c] = k /\ \A d \in Customers \ {c} : customer'[d] = customer[d]
    BY <2>1 DEF TypeOK
  <2> QED
    BY <1>2, <2>2, <2>3 DEF InsertEntry, NewEntry, OverdueAfterPush
<1> QED
  BY <1>1, <1>2

\* A customer pushed: registered with its debt, or its debt left alone.
LEMMA UpsertEffect ==
    ASSUME TypeOK, NEW e \in CustomerEdits, UpsertCustomer(e)
    PROVE  /\ \A c \in Customers \ {e.customer} :
                 customer'[c] = customer[c] /\ openingDebt'[c] = openingDebt[c]
           /\ customer'[e.customer].known
           /\ \/ /\ ~customer[e.customer].known
                 /\ customer'[e.customer].debt = e.debt
                 /\ openingDebt'[e.customer] = e.debt
              \/ /\ customer[e.customer].known
                 /\ customer'[e.customer].debt = customer[e.customer].debt
                 /\ openingDebt' = openingDebt
           /\ UNCHANGED <<entries, overdue, sweptAt, clock>>
<1> DEFINE c == e.customer
<1>1. c \in Customers
  BY EditsTyped
<1>2. CASE ~customer[c].known
  <2> DEFINE k == [known |-> TRUE, debt |-> e.debt, updatedAt |-> e.at]
  <2>1. /\ customer' = [customer EXCEPT ![c] = k]
        /\ openingDebt' = [openingDebt EXCEPT ![c] = e.debt]
    BY <1>2 DEF UpsertCustomer
  <2>2. k.known /\ k.debt = e.debt
    OBVIOUS
  <2> HIDE DEF k
  <2>3. customer'[c] = k /\ \A d \in Customers \ {c} : customer'[d] = customer[d]
    BY <1>1, <2>1 DEF TypeOK
  <2>4. /\ openingDebt'[c] = e.debt
        /\ \A d \in Customers \ {c} : openingDebt'[d] = openingDebt[d]
    BY <1>1, <2>1 DEF TypeOK
  <2> QED
    BY <1>2, <2>2, <2>3, <2>4 DEF UpsertCustomer
<1>3. CASE customer[c].known
  <2> DEFINE k == [customer[c] EXCEPT !.debt = DebtAfterUpsert(e), !.updatedAt = clock]
  <2>1. customer' = [customer EXCEPT ![c] = k] /\ openingDebt' = openingDebt
    BY <1>3 DEF UpsertCustomer
  <2>2. k.known /\ k.debt = customer[c].debt
    BY <1>1, <1>3 DEF TypeOK, CustomerRow, DebtAfterUpsert
  <2> HIDE DEF k
  <2>3. customer'[c] = k /\ \A d \in Customers \ {c} : customer'[d] = customer[d]
    BY <1>1, <2>1 DEF TypeOK
  <2> QED
    BY <1>3, <2>1, <2>2, <2>3 DEF UpsertCustomer
<1> QED
  BY <1>2, <1>3

\* The steps that touch neither the ledger nor the customers.
LEMMA LedgerSteps ==
    ASSUME [Next]_vars
    PROVE  \/ UNCHANGED CustomerTables /\ (clock' = clock \/ clock' = clock + 1)
           \/ MarkOverdue
           \/ \E e \in CustomerEdits : UpsertCustomer(e)
           \/ \E n \in Entries : InsertEntry(n)
  BY DEF Next, vars, Tick, HandlerDies, WriteProduct, WriteSale, ReadProduct, ReadSale,
         InsertItem, CustomerTables

LEMMA EntriesNext == TypeOK /\ EntriesOnce /\ Unknown /\ [Next]_vars => EntriesOnce' /\ Unknown'
<1> SUFFICES ASSUME TypeOK, EntriesOnce, Unknown, [Next]_vars PROVE EntriesOnce' /\ Unknown'
  OBVIOUS
<1>a. clock \in Nat /\ \A n \in Entries : sweptAt[n] \in Nat
  BY DEF TypeOK, Times
<1>b. entries \subseteq Entries
  BY DEF TypeOK
<1>1. CASE UNCHANGED CustomerTables /\ (clock' = clock \/ clock' = clock + 1)
  BY <1>1, <1>a DEF CustomerTables, EntriesOnce, Unknown
<1>2. CASE MarkOverdue
  <2>1. UNCHANGED <<clock, customer, entries, openingDebt>>
    BY <1>2 DEF MarkOverdue
  <2>2. \A n \in Entries : sweptAt'[n] = IF n \in entries THEN clock ELSE sweptAt[n]
    BY <1>2 DEF MarkOverdue
  <2> QED
    BY <2>1, <2>2, <1>a DEF EntriesOnce, Unknown
<1>3. ASSUME NEW e \in CustomerEdits, UpsertCustomer(e) PROVE EntriesOnce' /\ Unknown'
  <2>1. /\ \A c \in Customers \ {e.customer} :
              customer'[c] = customer[c] /\ openingDebt'[c] = openingDebt[c]
        /\ customer'[e.customer].known
        /\ UNCHANGED <<entries, sweptAt, clock>>
    BY <1>3, UpsertEffect
  <2>2. \A n \in Entries : n.customer \in Customers
    BY EditsTyped
  <2>3. EntriesOnce'
    BY <2>1, <2>2, <1>b DEF EntriesOnce
  <2> QED
    BY <2>1, <2>3 DEF Unknown
<1>4. ASSUME NEW n \in Entries, InsertEntry(n) PROVE EntriesOnce' /\ Unknown'
  <2>1. /\ customer[n.customer].known
        /\ UNCHANGED <<openingDebt, sweptAt, clock>>
        /\ \A c \in Customers \ {n.customer} : customer'[c] = customer[c]
        /\ \A c \in Customers : customer'[c].known = customer[c].known
        /\ \/ UNCHANGED <<entries, customer>>
           \/ (\A m \in entries : m.id # n.id) /\ entries' = entries \cup {n}
    BY <1>4, EntryEffect
  <2>2. \A m \in Entries : m.customer \in Customers
    BY EditsTyped
  <2>3. Unknown'
    BY <2>1, <2>2 DEF Unknown
  <2>4. IsFiniteSet(entries')
    BY <2>1, FS_AddElement DEF EntriesOnce
  <2>5. EntriesOnce'
    BY <2>1, <2>2, <2>4, <1>b DEF EntriesOnce
  <2> QED
    BY <2>3, <2>5
<1> QED
  BY <1>1, <1>2, <1>3, <1>4, LedgerSteps

LEMMA DebtNext ==
    TypeOK /\ EntriesOnce /\ Unknown /\ DebtMatchesLedger /\ [Next]_vars => DebtMatchesLedger'
<1> SUFFICES ASSUME TypeOK, EntriesOnce, Unknown, DebtMatchesLedger, [Next]_vars,
                    NEW c \in Customers
             PROVE  customer'[c].debt =
                       openingDebt'[c] + SumFunctionOnSet(Amount, LedgerOf(c)')
  BY DEF DebtMatchesLedger, Amount, LedgerOf
<1>a. customer[c].debt = openingDebt[c] + SumFunctionOnSet(Amount, LedgerOf(c))
  BY DEF DebtMatchesLedger, Amount, LedgerOf
<1>b. /\ IsFiniteSet(LedgerOf(c)) /\ LedgerOf(c) \subseteq Entries
      /\ \A n \in LedgerOf(c) : Amount[n] \in Int
  <2>1. LedgerOf(c) \subseteq entries
    BY DEF LedgerOf
  <2> QED
    BY <2>1, FS_Subset, SignedTyped DEF EntriesOnce, TypeOK, Amount
<1>c. openingDebt[c] \in Int
  BY DEF TypeOK
<1>d. ASSUME entries' = entries PROVE LedgerOf(c)' = LedgerOf(c)
  BY <1>d DEF LedgerOf
<1>1. CASE UNCHANGED <<customer, openingDebt, entries>>
  BY <1>1, <1>a, <1>d
<1>2. ASSUME NEW e \in CustomerEdits, UpsertCustomer(e)
      PROVE  customer'[c].debt = openingDebt'[c] + SumFunctionOnSet(Amount, LedgerOf(c)')
  <2>1. /\ \A d \in Customers \ {e.customer} :
              customer'[d] = customer[d] /\ openingDebt'[d] = openingDebt[d]
        /\ \/ /\ ~customer[e.customer].known
              /\ customer'[e.customer].debt = e.debt
              /\ openingDebt'[e.customer] = e.debt
           \/ /\ customer'[e.customer].debt = customer[e.customer].debt
              /\ openingDebt' = openingDebt
        /\ entries' = entries
    BY <1>2, UpsertEffect
  <2>2. CASE c # e.customer
    BY <2>1, <2>2, <1>a, <1>d
  <2>3. CASE c = e.customer /\ ~customer[c].known
    <3>1. LedgerOf(c)' = {}
      BY <2>1, <2>3 DEF LedgerOf, EntriesOnce
    <3>2. SumFunctionOnSet(Amount, {}) = 0
      BY SumEmpty
    <3>3. /\ e.debt \in Int /\ customer[c].debt = 0 /\ openingDebt[c] = 0
      BY <2>3, EditsTyped DEF Unknown
    <3>4. customer'[c].debt = openingDebt'[c] /\ openingDebt'[c] \in Int
      BY <2>1, <2>3, <3>3
    <3> QED
      BY <3>1, <3>2, <3>4
  <2>4. CASE c = e.customer /\ customer[c].known
    BY <2>1, <2>4, <1>a, <1>d
  <2> QED
    BY <2>2, <2>3, <2>4
<1>3. ASSUME NEW n \in Entries, InsertEntry(n)
      PROVE  customer'[c].debt = openingDebt'[c] + SumFunctionOnSet(Amount, LedgerOf(c)')
  <2>1. /\ UNCHANGED openingDebt
        /\ \A d \in Customers \ {n.customer} : customer'[d] = customer[d]
        /\ \/ UNCHANGED <<entries, customer>>
           \/ /\ \A m \in entries : m.id # n.id
              /\ entries' = entries \cup {n}
              /\ customer'[n.customer].debt = customer[n.customer].debt + Signed(n)
    BY <1>3, EntryEffect
  <2>2. CASE UNCHANGED <<entries, customer>>
    BY <2>1, <2>2, <1>1
  <2>3. CASE c # n.customer /\ entries' = entries \cup {n}
    <3>1. LedgerOf(c)' = LedgerOf(c)
      BY <2>3 DEF LedgerOf
    <3> QED
      BY <2>1, <2>3, <3>1, <1>a
  <2>4. CASE /\ c = n.customer
             /\ \A m \in entries : m.id # n.id
             /\ entries' = entries \cup {n}
             /\ customer'[n.customer].debt = customer[n.customer].debt + Signed(n)
    <3>1. LedgerOf(c)' = LedgerOf(c) \cup {n} /\ n \notin LedgerOf(c)
      BY <2>4 DEF LedgerOf
    <3>2. Amount[n] \in Int /\ Amount[n] = Signed(n)
      BY SignedTyped DEF Amount
    <3>3. SumFunctionOnSet(Amount, LedgerOf(c) \cup {n}) =
             SumFunctionOnSet(Amount, LedgerOf(c)) + Amount[n]
      BY <1>b, <3>1, <3>2, SumInsert
    <3>4. SumFunctionOnSet(Amount, LedgerOf(c)) \in Int
      BY <1>b, SumTyped
    <3> QED
      BY <2>1, <2>4, <3>1, <3>2, <3>3, <3>4, <1>a, <1>c
  <2> QED
    BY <2>1, <2>2, <2>3, <2>4
<1> QED
  BY <1>1, <1>2, <1>3, LedgerSteps DEF CustomerTables, MarkOverdue

LEMMA LedgerInit == Init => EntriesOnce /\ Unknown /\ DebtMatchesLedger
<1> SUFFICES ASSUME Init PROVE EntriesOnce /\ Unknown /\ DebtMatchesLedger
  OBVIOUS
<1>1. EntriesOnce /\ Unknown
  BY FS_EmptySet DEF Init, EntriesOnce, Unknown
<1>2. \A c \in Customers : {n \in entries : n.customer = c} = {}
  BY DEF Init
<1>3. SumFunctionOnSet(Amount, {}) = 0
  BY SumEmpty
<1>4. DebtMatchesLedger
  BY <1>2, <1>3 DEF DebtMatchesLedger, Amount, Init
<1> QED
  BY <1>1, <1>4

\* A customer owes what it was registered with and what its ledger says since:
\* no resend of an entry or of the customer counts twice or is lost.
THEOREM DebtAlwaysMatches == Spec => []DebtMatchesLedger
  BY LedgerInit, TypeInit, TypeNext, EntriesNext, DebtNext, PTL DEF Spec

-----------------------------------------------------------------------------
(* Overdue marks.                                                             *)

\* A mark stands once it is made: an entry due before an earlier sweep is due
\* before a later one.
LEMMA DueStays ==
    ASSUME NEW n \in Entries, NEW s \in Nat, NEW u \in Nat, s <= u, DueBefore(n, s)
    PROVE  DueBefore(n, u)
<1>1. n.due \in Int
  BY EditsTyped DEF Times, NoDue
<1> QED
  BY <1>1 DEF DueBefore

\* An entry that no sweep has seen is due before none.
LEMMA NotDueAtStart == ASSUME NEW n \in Entries PROVE ~DueBefore(n, 0)
<1>1. n.due \in Nat \/ n.due = NoDue
  BY EditsTyped DEF Times
<1> QED
  BY <1>1 DEF DueBefore

LEMMA OverdueNext ==
    TypeOK /\ EntriesOnce /\ OverdueAsSwept /\ [Next]_vars => OverdueAsSwept'
<1> SUFFICES ASSUME TypeOK, EntriesOnce, OverdueAsSwept, [Next]_vars PROVE OverdueAsSwept'
  OBVIOUS
<1>b. /\ entries \subseteq Entries /\ overdue \subseteq {n.id : n \in entries} /\ clock \in Nat
      /\ \A n \in Entries : sweptAt[n] \in Nat
  BY DEF TypeOK, Times
<1>1. CASE UNCHANGED CustomerTables \/ \E e \in CustomerEdits : UpsertCustomer(e)
  BY <1>1 DEF CustomerTables, UpsertCustomer, OverdueAsSwept, DueBefore
\* A sweep marks by id: no other entry has the id of one past due.
<1>2. CASE MarkOverdue
  <2>1. /\ entries' = entries
        /\ overdue' = overdue \cup {n.id : n \in {m \in entries : PastDue(m)}}
        /\ \A n \in entries : sweptAt'[n] = clock
    BY <1>2, <1>b DEF MarkOverdue
  <2>2. ASSUME NEW n \in entries
        PROVE  n.id \in overdue' <=> n.overdue \/ DueBefore(n, clock)
    <3>1. n.id \in {m.id : m \in {k \in entries : PastDue(k)}} <=> DueBefore(n, clock)
      BY DEF EntriesOnce, PastDue
    <3>2. n.id \in overdue <=> n.overdue \/ DueBefore(n, sweptAt[n])
      BY DEF OverdueAsSwept
    <3>3. sweptAt[n] <= clock
      BY <1>b DEF EntriesOnce
    <3>4. DueBefore(n, sweptAt[n]) => DueBefore(n, clock)
      BY <3>3, <1>b, DueStays
    <3> QED
      BY <2>1, <3>1, <3>2, <3>4
  <2>3. \A n \in entries' : n.id \in overdue' <=> n.overdue \/ DueBefore(n, sweptAt'[n])
    BY <2>1, <2>2
  <2> QED
    BY <2>3 DEF OverdueAsSwept, DueBefore
<1>3. ASSUME NEW n \in Entries, InsertEntry(n) PROVE OverdueAsSwept'
  <2>1. /\ sweptAt' = sweptAt
        /\ \/ entries' = entries /\ overdue' = overdue
           \/ /\ \A m \in entries : m.id # n.id
              /\ entries' = entries \cup {n}
              /\ overdue' = IF n.overdue THEN overdue \cup {n.id} ELSE overdue
    BY <1>3, EntryEffect
  <2>2. CASE entries' = entries /\ overdue' = overdue
    BY <2>1, <2>2 DEF OverdueAsSwept, DueBefore
  <2>3. CASE /\ \A m \in entries : m.id # n.id
             /\ entries' = entries \cup {n}
             /\ overdue' = IF n.overdue THEN overdue \cup {n.id} ELSE overdue
    <3>1. n.id \notin overdue
      BY <2>3, <1>b
    <3>2. ~DueBefore(n, sweptAt[n])
      <4>1. sweptAt[n] = 0
        BY <2>3 DEF EntriesOnce
      <4> QED
        BY <4>1, NotDueAtStart
    <3>3. \A m \in entries' : m.id \in overdue' <=> m.overdue \/ DueBefore(m, sweptAt[m])
      BY <2>3, <3>1, <3>2 DEF OverdueAsSwept
    <3> QED
      BY <2>1, <3>3 DEF OverdueAsSwept, DueBefore
  <2> QED
    BY <2>1, <2>2, <2>3
<1> QED
  BY <1>1, <1>2, <1>3, LedgerSteps

\* An entry is marked overdue exactly if it was first pushed so or the last
\* sweep since it was stored found it a debit past due.
THEOREM OverdueAlwaysAsSwept == Spec => []OverdueAsSwept
<1>1. Init => OverdueAsSwept
  BY DEF Init, OverdueAsSwept
<1> QED
  BY <1>1, LedgerInit, TypeInit, TypeNext, EntriesNext, OverdueNext, PTL DEF Spec
=============================================================================
