----------------------------- MODULE Replication -----------------------------
(***************************************************************************)
(* Several terminals and one server, over the payloads the terminals       *)
(* really enqueue.  The server decodes a payload into a Go struct and      *)
(* stores that as a full row; what a payload lacks arrives as the zero     *)
(* value, so which columns an operation writes into its payload decides    *)
(* whether its change can arrive at all.                                   *)
(*                                                                         *)
(* A payload is reduced to what the server's answer depends on: the UUID   *)
(* columns it carries (PostgreSQL refuses the empty string and anything    *)
(* else that is no UUID), whether its times can be parsed (encoding/json   *)
(* wants a time zone), its updated_at (zero when absent) and the few       *)
(* columns the properties speak of.  Quantities are left out: SalesEngine  *)
(* models the terminal's stock, SyncServer the server's.                   *)
(*                                                                         *)
(* Every local operation takes one instant, which serves as its stamp; the *)
(* order of the outbox is then the order of its rows.  One syncNow of a    *)
(* terminal is StartSync, ApplyNext for each row of the batch, and Settle  *)
(* or Interrupt; SyncEngine has its steps in detail, with overlapping      *)
(* calls, kills and late answers.  Rows stay in the outbox: the purge      *)
(* deletes synced ones only.                                               *)
(***************************************************************************)
EXTENDS Integers, FiniteSets, Sequences, AuditCheck

CONSTANTS
    Terminals,
    Products, Suppliers,   \* known to every terminal
    KnownProducts,         \* the products the server knows
    SaleIds, OrderIds,     \* ids a sale, a purchase order may receive; new sale
                           \* ids are interchangeable and taken in their order
    BatchSize,             \* _kBatchSize
    MaxClock,              \* bound on the local operations
    MaxFaults              \* bound on lost requests and answers

ASSUME BoundsAssumption ==
    /\ KnownProducts \subseteq Products
    /\ SaleIds \subseteq Nat
    /\ BatchSize \in Nat \ {0}
    /\ MaxClock \in Nat \ {0}
    /\ MaxFaults \in Nat

NoOne == "no terminal"
ASSUME LabelAssumption == NoOne \notin Terminals

VARIABLES
    clock,     \* number of local operations so far; also the server's NOW()
    bills,     \* the sales of all terminals
    orders,    \* ids of the purchase orders used
    outbox,    \* by terminal, its sync_queue in order of localSeq
    call,      \* by terminal, the push at work and its answer so far
    db,        \* the server's tables
    faults

vars == <<clock, bills, orders, outbox, call, db, faults>>

Number == [series : {"none", "B1", "INV"}, seq : 0..MaxClock]
NoNumber == [series |-> "none", seq |-> 0]

Bill == [by     : Terminals \cup {NoOne},
         status : {"absent", "completed", "cancelled"},
         number : Number,
         at     : 0..MaxClock]
NoBill == [by |-> NoOne, status |-> "absent", number |-> NoNumber, at |-> 0]

\* The UUID columns the server's statement for a table writes as NOT NULL.
UuidColumns == [
    sales           |-> {"id", "staff_id", "device_id"},
    sale_items      |-> {"id", "sale_id", "product_id", "unit_id"},
    products        |-> {"id", "buying_unit_id", "selling_unit_id"},
    suppliers       |-> {"id"},
    purchase_orders |-> {"id", "supplier_id", "staff_id", "device_id"},
    audit_trail     |-> {}]

Tables  == DOMAIN UuidColumns
Columns == UNION {UuidColumns[table] : table \in Tables}
Records == SaleIds \cup OrderIds \cup Products \cup Suppliers

Row == [table  : Tables,
        rec    : Records,
        uuids  : SUBSET Columns,
        times  : {"zoned", "local"},
        at     : 0..MaxClock,
        status : {"", "completed", "cancelled"},
        number : Number,
        mark   : {"pending", "failed", "synced"}]  \* sync_queue.status

\* A payload with nothing but these columns: the others decode to zero values.
\* The row is inserted by the operation of this instant.
Payload(table, rec, uuids, at) ==
    [table |-> table, rec |-> rec, uuids |-> uuids, times |-> "zoned", at |-> at,
     status |-> "", number |-> NoNumber, mark |-> "pending"]

Now == clock + 1

Operation(t, rows) ==
    /\ clock < MaxClock
    /\ clock' = Now
    /\ outbox' = [outbox EXCEPT ![t] = @ \o rows]
    /\ UNCHANGED <<call, db, faults>>

-----------------------------------------------------------------------------
\* The terminals push no full rows of products or suppliers, so the server
\* knows what was entered on it by hand before the first operation; zero
\* stands for a product it does not know.
Init ==
    /\ clock = 1
    /\ bills = [s \in SaleIds |-> NoBill]
    /\ orders = {}
    /\ outbox = [t \in Terminals |-> <<>>]
    /\ call = [t \in Terminals |-> [batch |-> {}, accepted |-> {}, conflicts |-> {}, errors |-> {}]]
    /\ db = [products   |-> [p \in Products |-> IF p \in KnownProducts THEN 1 ELSE 0],
             bills      |-> [s \in SaleIds |-> NoBill],
             lines      |-> {},
             orders     |-> {},
             supplierAt |-> [x \in Suppliers |-> 1]]
    /\ faults = 0

-----------------------------------------------------------------------------
(* The operations of a terminal, with the payloads they enqueue. *)

SalePayload(s, number) ==
    [Payload("sales", s, UuidColumns.sales, Now) EXCEPT !.status = "completed", !.number = number]

\* The bills of one fiscal year: the year label createSale gives its INV bills
\* is another one, so the query for the last bill does not see them.
YearsBills(t) == {s \in SaleIds : bills[s].by = t /\ bills[s].number.series = "B1"}

LastBills(t) == {s \in YearsBills(t) : \A r \in YearsBills(t) : bills[r].at <= bills[s].at}

\* The branch code is the constant B1 on every terminal.
NextNumber(t) ==
    [series |-> "B1",
     seq |-> IF LastBills(t) = {} THEN 1
             ELSE 1 + bills[CHOOSE s \in LastBills(t) : TRUE].number.seq]

Issue(t, s, number) ==
    /\ bills[s].status = "absent"
    /\ \A r \in SaleIds : r < s => bills[r].status # "absent"
    /\ bills' = [bills EXCEPT ![s] =
          [by |-> t, status |-> "completed", number |-> number, at |-> Now]]
    /\ UNCHANGED orders

\* One line per bill.  Its row has a recordId, but its payload no `id'.
CompleteSale(t, s) ==
    LET number == NextNumber(t) IN
    /\ Issue(t, s, number)
    /\ Operation(t, <<SalePayload(s, number),
                      Payload("sale_items", s, {"sale_id", "product_id", "unit_id"}, 0)>>)

\* The payload is built from the row read back from SQLite, whose times are
\* local DateTimes: toIso8601String writes them without a zone.  No lines.
CreateSale(t, s) ==
    LET number == [series |-> "INV", seq |-> Now] IN
    /\ Issue(t, s, number)
    /\ Operation(t, <<[SalePayload(s, number) EXCEPT !.times = "local"]>>)

\* Which product the line names is left open.
CancelSale(t, s) ==
    /\ bills[s].by = t
    /\ bills[s].status = "completed"
    /\ bills' = [bills EXCEPT ![s].status = "cancelled"]
    /\ \E p \in Products :
          Operation(t, <<Payload("products", p, {"id"}, Now),
                         [Payload("sales", s, {"id"}, Now) EXCEPT !.status = "cancelled"],
                         Payload("audit_trail", s, {"staff_id", "device_id"}, Now)>>)
    /\ UNCHANGED orders

\* The id of an order is a number of milliseconds, no UUID; the product row
\* has no updated_at; a delivery paid in full leaves the supplier alone.
StockIn(t, o, p, x) ==
    /\ o \notin orders
    /\ orders' = orders \cup {o}
    /\ \E credit \in BOOLEAN :
          Operation(t, <<Payload("products", p, {"id"}, 0),
                         Payload("purchase_orders", o, {"supplier_id", "staff_id", "device_id"}, Now)>>
                       \o IF credit THEN <<Payload("suppliers", x, {"id"}, Now)>> ELSE <<>>)
    /\ UNCHANGED bills

-----------------------------------------------------------------------------
(* One syncNow against Push. *)

Open(t) == {i \in DOMAIN outbox[t] : outbox[t][i].mark \in {"pending", "failed"}}

Batch(t) == {i \in Open(t) : Cardinality({j \in Open(t) : j <= i}) <= BatchSize}

Idle(t) == call[t].batch = {}

StartSync(t) ==
    /\ Idle(t)
    /\ Open(t) # {}
    /\ call' = [call EXCEPT ![t].batch = Batch(t)]
    /\ UNCHANGED <<clock, bills, orders, outbox, db, faults>>

\* The handler goes on after an error.  A slip: it gives up at the first.
UnansweredUntilError(t) ==
    IF call[t].errors # {} THEN {} ELSE call[t].batch \ (call[t].accepted \cup call[t].conflicts)
Unanswered(t) == call[t].batch \ (call[t].accepted \cup call[t].conflicts \cup call[t].errors)

Conflicting(row) ==
    /\ row.table = "products"
    /\ db.products[row.rec] > row.at

NumberTaken(row) ==
    /\ db.bills[row.rec].status = "absent"
    /\ \E s \in SaleIds : db.bills[s].status # "absent" /\ db.bills[s].number = row.number

Refused(row) ==
    \/ row.times = "local"
    \/ ~ UuidColumns[row.table] \subseteq row.uuids
    \/ row.table = "sales" /\ NumberTaken(row)

\* A sale that is known keeps its number and loses to no older version; a
\* supplier is overwritten by whatever the payload decodes to, its payable
\* apart, and stamped by the trigger; other tables are skipped.
Stored(row) ==
    CASE row.table = "sales" ->
           [db EXCEPT !.bills[row.rec] =
              IF @.status = "absent"
              THEN [by |-> NoOne, status |-> row.status, number |-> row.number, at |-> row.at]
              ELSE IF @.at <= row.at THEN [@ EXCEPT !.status = row.status, !.at = row.at]
              ELSE @]
      [] row.table = "sale_items"      -> [db EXCEPT !.lines = @ \cup {row.rec}]
      [] row.table = "purchase_orders" -> [db EXCEPT !.orders = @ \cup {row.rec}]
      [] row.table = "products"        -> [db EXCEPT !.products[row.rec] = clock]
      [] row.table = "suppliers"       ->
           IF db.supplierAt[row.rec] <= row.at
           THEN [db EXCEPT !.supplierAt[row.rec] = clock]
           ELSE db
      [] OTHER -> db

\* Slip of Due: the items are applied side by side.
DueAny(t) == Unanswered(t)

\* The loop of Push takes the items in the order sent.
Due(t) == {i \in Unanswered(t) : \A j \in Unanswered(t) : i <= j}

ApplyNext(t) ==
    \E i \in Due(t) :
       LET row == outbox[t][i] IN
       /\ \/ /\ Conflicting(row)
             /\ call' = [call EXCEPT ![t].conflicts = @ \cup {i}]
             /\ UNCHANGED db
          \/ /\ ~Conflicting(row)
             /\ Refused(row)
             /\ call' = [call EXCEPT ![t].errors = @ \cup {i}]
             /\ UNCHANGED db
          \/ /\ ~Conflicting(row)
             /\ ~Refused(row)
             /\ call' = [call EXCEPT ![t].accepted = @ \cup {i}]
             /\ db' = Stored(row)
       /\ UNCHANGED <<clock, bills, orders, outbox, faults>>

Marked(t, S, m) ==
    [i \in DOMAIN outbox[t] |-> IF i \in S THEN [outbox[t][i] EXCEPT !.mark = m] ELSE outbox[t][i]]

HangUp(t) ==
    call' = [call EXCEPT ![t] = [batch |-> {}, accepted |-> {}, conflicts |-> {}, errors |-> {}]]

\* Whatever becomes of the rest, a conflict makes the caller reset its batch.
\* Slips: an answer settles the whole batch; a conflict gets a mark of its own.
MarksAll(t) ==
    IF call[t].conflicts # {} THEN Marked(t, call[t].batch, "pending")
    ELSE Marked(t, call[t].batch, "synced")
MarksConflict(t) == Marked(t, call[t].conflicts, "conflict")
MarksOf(t) ==
    IF call[t].conflicts # {} THEN Marked(t, call[t].batch, "pending")
    ELSE [i \in DOMAIN outbox[t] |->
            IF i \in call[t].accepted THEN [outbox[t][i] EXCEPT !.mark = "synced"]
            ELSE IF i \in call[t].errors THEN [outbox[t][i] EXCEPT !.mark = "failed"]
            ELSE outbox[t][i]]

Settle(t) ==
    /\ ~Idle(t)
    /\ Unanswered(t) = {}
    /\ outbox' = [outbox EXCEPT ![t] = MarksOf(t)]
    /\ HangUp(t)
    /\ UNCHANGED <<clock, bills, orders, db, faults>>

\* The request or its answer is lost: the server may have got anywhere.
Interrupt(t) ==
    /\ faults < MaxFaults
    /\ faults' = faults + 1
    /\ ~Idle(t)
    /\ outbox' = [outbox EXCEPT ![t] = Marked(t, call[t].batch, "pending")]
    /\ HangUp(t)
    /\ UNCHANGED <<clock, bills, orders, db>>

-----------------------------------------------------------------------------
Next ==
    \E t \in Terminals :
       \/ \E s \in SaleIds : CompleteSale(t, s) \/ CreateSale(t, s) \/ CancelSale(t, s)
       \/ \E o \in OrderIds, p \in Products, x \in Suppliers : StockIn(t, o, p, x)
       \/ StartSync(t) \/ ApplyNext(t) \/ Settle(t) \/ Interrupt(t)

Spec == Init /\ [][Next]_vars

\* Every terminal syncs again and again and the server answers (section 4 of
\* the README); nobody has to ring up, cancel or take in anything.
FairSpec ==
    /\ Spec
    /\ \A t \in Terminals : WF_vars(StartSync(t)) /\ WF_vars(ApplyNext(t)) /\ WF_vars(Settle(t))

-----------------------------------------------------------------------------
\* Type invariant.
TypeOK ==
    /\ clock \in 0..MaxClock
    /\ bills \in [SaleIds -> Bill]
    /\ orders \subseteq OrderIds
    /\ outbox \in [Terminals -> Seq(Row)]
    /\ call \in [Terminals -> [batch : SUBSET Nat, accepted : SUBSET Nat,
                               conflicts : SUBSET Nat, errors : SUBSET Nat]]
    /\ db \in [products   : [Products -> 0..MaxClock],
               bills      : [SaleIds -> Bill],
               lines      : SUBSET SaleIds,
               orders     : SUBSET OrderIds,
               supplierAt : [Suppliers -> 0..MaxClock]]
    /\ faults \in 0..MaxFaults

Synced(t) == {outbox[t][i] : i \in {j \in DOMAIN outbox[t] : outbox[t][j].mark = "synced"}}

\* A row marked synced, which the purge will delete, has taken effect on the
\* server: its bill stands there under its number and at this version or a
\* later one, its line or order is stored (SyncService.syncNow, MarksOf).
SyncedMeansStored ==
    \A t \in Terminals : \A row \in Synced(t) :
       /\ row.table = "sales" =>
             /\ db.bills[row.rec].number = bills[row.rec].number
             /\ db.bills[row.rec].at >= row.at
       /\ row.table = "sale_items" => row.rec \in db.lines
       /\ row.table = "purchase_orders" => row.rec \in db.orders
       /\ row.table = "suppliers" => db.supplierAt[row.rec] >= row.at

\* Every bill completeSale issues reaches the server, whatever else is in the
\* outbox, unless another bill got its number first ("The device can operate
\* fully offline for 48+ hours without any data loss", sync_service.dart:11).
BillsArrive ==
    \A s \in SaleIds :
       bills[s].number.series = "B1" ~>
          \E r \in SaleIds : db.bills[r].number = bills[s].number

B1Numbers == {db.bills[s].number.seq : s \in {r \in SaleIds : db.bills[r].number.series = "B1"}}

\* At no time has the server a bill without the ones numbered before it, so
\* the audit tool, run at any moment, between two rows of a batch, after a
\* lost request or beside refused rows, has nothing to report, and the first
\* bill, whose absence it could not see, is there.
AuditPasses ==
    /\ BrokenSequences(B1Numbers) = 0
    /\ B1Numbers # {} => 1 \in B1Numbers
=============================================================================
