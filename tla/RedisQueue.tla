----------------------------- MODULE RedisQueue -----------------------------
(***************************************************************************)
(* The server's Redis queue (redis_queue.go): Enqueue, the consumer loop   *)
(* with its retries and dead letters, and the deduction it runs on         *)
(* PostgreSQL.  The other statement it runs, the sweep of overdue debts,   *)
(* is in SyncServer (MarkOverdue).                                         *)
(*                                                                         *)
(* BLPOP takes an item out of Redis before it is processed, so the item    *)
(* lives in the consumer alone until it is done, pushed back or pushed to  *)
(* the dead-letter list; there is no acknowledgement.  Redis appends to    *)
(* its file and syncs it every second, and may evict any key               *)
(* (infra/docker-compose.yml:62-68).  go-redis sends a command again when  *)
(* its answer is lost, so an RPUSH can append twice.                       *)
(*                                                                         *)
(* Nothing in the repository calls Enqueue at this commit: who enqueues    *)
(* what is left open, each item once.                                      *)
(***************************************************************************)
EXTENDS Integers, Sequences, FiniteSets, Functions, SequencesExt

CONSTANTS
    Items,        \* sync items somebody enqueues
    Kind,         \* by item, what applyToAnalytics makes of it
    Qty, Opening, \* quantity of each sale line; stock of the one product sold
    MaxRetries,   \* maxRetries
    MaxFaults     \* bound on faults of all kinds

Kinds == {"line",        \* INSERT of a sale_items row
          "unreadable",  \* sale_items, payload no SaleItem
          "other"}       \* ledger_entries, other tables and operations

ASSUME ItemsAssumption ==
    /\ IsFiniteSet(Items)
    /\ Kind \in [Items -> Kinds]
    /\ Qty \in [Items -> Nat]
    /\ Opening \in Nat
ASSUME BoundsAssumption ==
    /\ MaxRetries \in Nat \ {0}
    /\ MaxFaults \in Nat

VARIABLES
    lists,     \* the keys unnati:sync_queue and unnati:sync_dlq
    disk,      \* both as last synced to the append-only file
    consumer,  \* where the goroutine is, with the item it holds
    stock,     \* products.stock_qty
    faults,    \* faults so far: Redis calls and kills, Redis data, database
    \* history: nothing below is kept by the server
    enqueued,  \* the items enqueued
    tally      \* by item: processed, failed and deducted how often

vars == <<lists, disk, consumer, stock, faults, enqueued, tally>>

Entry == [item : Items, retries : 0..MaxRetries]
Lists == [queue : Seq(Entry), dlq : Seq(Entry)]

Waiting == [pc |-> "pop"]
ConsumerState == {Waiting} \cup [pc : {"apply", "backoff", "bury"}, entry : Entry]

TotalFaults == faults.calls + faults.data + faults.db

Fault(kind) ==
    /\ TotalFaults < MaxFaults
    /\ faults' = [faults EXCEPT ![kind] = @ + 1]

\* Failures are counted up to one more than RetriesCounted ever allows.
FailedOnceMore(n) == IF n > MaxRetries * (1 + MaxFaults) THEN n ELSE n + 1

ListVars  == <<lists, disk, enqueued>>
StockVars == <<stock, tally>>

-----------------------------------------------------------------------------
Init ==
    /\ lists = [queue |-> <<>>, dlq |-> <<>>]
    /\ disk = lists
    /\ consumer = Waiting
    /\ stock = Opening
    /\ faults = [calls |-> 0, data |-> 0, db |-> 0]
    /\ enqueued = {}
    /\ tally = [i \in Items |-> [done |-> 0, failed |-> 0, deducted |-> 0]]

-----------------------------------------------------------------------------
(* Redis *)

\* RPUSH: stored once, or twice when go-redis repeats it, or not at all.
Push(key, entry) ==
    \E n \in 0..2 :
       /\ lists' = [lists EXCEPT ![key] = @ \o [k \in 1..n |-> entry]]
       /\ IF n = 1 THEN UNCHANGED faults ELSE Fault("calls")

Fsync ==
    /\ disk # lists
    /\ disk' = lists
    /\ UNCHANGED <<lists, consumer, faults, enqueued>>
    /\ UNCHANGED StockVars

\* Redis comes back with what it had synced; the consumer only sees errors.
RedisCrash ==
    /\ disk # lists
    /\ Fault("data")
    /\ lists' = disk
    /\ UNCHANGED <<disk, consumer, enqueued>>
    /\ UNCHANGED StockVars

\* maxmemory-policy allkeys-lru: a list is one key.
Evict(key) ==
    /\ lists[key] # <<>>
    /\ Fault("data")
    /\ lists' = [lists EXCEPT ![key] = <<>>]
    /\ UNCHANGED <<disk, consumer, enqueued>>
    /\ UNCHANGED StockVars

-----------------------------------------------------------------------------
(* The server *)

\* The item of a caller; one that is not stored comes back as an error.
Enqueue(i) ==
    /\ i \notin enqueued
    /\ Push("queue", [item |-> i, retries |-> 0])
    /\ lists' # lists
    /\ enqueued' = enqueued \cup {i}
    /\ UNCHANGED <<disk, consumer>>
    /\ UNCHANGED StockVars

\* BLPOP.  When its answer is lost the item is gone and the loop goes on.
Pop ==
    /\ consumer = Waiting
    /\ lists.queue # <<>>
    /\ lists' = [lists EXCEPT !.queue = Tail(@)]
    /\ \/ /\ consumer' = [pc |-> "apply", entry |-> Head(lists.queue)]
          /\ UNCHANGED faults
       \/ /\ Fault("calls")
          /\ UNCHANGED consumer
    /\ UNCHANGED <<disk, enqueued>>
    /\ UNCHANGED StockVars

Holds(i) == consumer # Waiting /\ consumer.entry.item = i

Processes(i) == consumer.pc = "apply" /\ Holds(i)

\* Slips of Failed: one retry too many; tried again at once and uncounted; not
\* pushed back.
FailedLate(entry) ==
    [pc |-> IF entry.retries >= MaxRetries THEN "bury" ELSE "backoff",
     entry |-> [entry EXCEPT !.retries = IF @ < MaxRetries THEN @ + 1 ELSE @]]
FailedAtOnce(entry) == [pc |-> "apply", entry |-> entry]
FailedDropped(entry) == Waiting

\* processItem after an error: count it, then bury or sleep and push back.
Failed(entry) ==
    LET again == [entry EXCEPT !.retries = @ + 1] IN
    [pc |-> IF again.retries >= MaxRetries THEN "bury" ELSE "backoff", entry |-> again]

\* Slip of Deducts: no `stock_qty >= $1'.
DeductsAlways(i) == Kind[i] = "line"

\* An UPDATE that finds too little stock touches no row and is no error.
Deducts(i) == Kind[i] = "line" /\ stock >= Qty[i]

\* Slip of Succeed: an item is tried again although it went through.
SucceedAgain(i) ==
    /\ consumer' = Failed(consumer.entry)
    /\ tally' = [tally EXCEPT ![i].deducted = IF Deducts(i) THEN @ + 1 ELSE @]
    /\ stock' = IF Deducts(i) THEN stock - Qty[i] ELSE stock

Succeed(i) ==
    /\ consumer' = Waiting
    /\ tally' = [tally EXCEPT ![i].done = @ + 1,
                              ![i].deducted = IF Deducts(i) THEN @ + 1 ELSE @]
    /\ stock' = IF Deducts(i) THEN stock - Qty[i] ELSE stock

ApplyItem(i) ==
    /\ Processes(i)
    /\ Kind[i] \in {"line", "other"}
    /\ Succeed(i)
    /\ UNCHANGED faults
    /\ UNCHANGED ListVars

\* The payload does not decode, or the statement fails, in which case it may
\* have been committed all the same.
ApplyFails(i) ==
    /\ Processes(i)
    /\ \/ Kind[i] = "unreadable" /\ UNCHANGED <<faults, stock>>
       \/ Kind[i] = "line" /\ Fault("db") /\ UNCHANGED stock
       \/ Kind[i] = "line" /\ Fault("db") /\ Deducts(i) /\ stock' = stock - Qty[i]
    /\ tally' = [tally EXCEPT ![i].failed = FailedOnceMore(@),
                              ![i].deducted = IF stock' # stock THEN @ + 1 ELSE @]
    /\ consumer' = Failed(consumer.entry)
    /\ UNCHANGED ListVars

\* After the backoff; that the push fails is only logged.
Requeue ==
    /\ consumer.pc = "backoff"
    /\ Push("queue", consumer.entry)
    /\ consumer' = Waiting
    /\ UNCHANGED <<disk, enqueued>>
    /\ UNCHANGED StockVars

\* sendToDLQ looks at no error.
Bury ==
    /\ consumer.pc = "bury"
    /\ Push("dlq", consumer.entry)
    /\ consumer' = Waiting
    /\ UNCHANGED <<disk, enqueued>>
    /\ UNCHANGED StockVars

\* main waits for requests, not for the consumer, whose context is never
\* cancelled: whatever the consumer holds dies with the process.
Restart ==
    /\ consumer # Waiting
    /\ Fault("calls")
    /\ consumer' = Waiting
    /\ UNCHANGED ListVars /\ UNCHANGED StockVars

-----------------------------------------------------------------------------
Consume ==
    \/ Pop \/ Requeue \/ Bury
    \/ \E i \in Items : ApplyItem(i) \/ ApplyFails(i)

Next ==
    \/ Consume
    \/ \E i \in Items : Enqueue(i)
    \/ Restart \/ Fsync \/ RedisCrash
    \/ \E key \in DOMAIN lists : Evict(key)

Spec == Init /\ [][Next]_vars

\* The goroutine runs while the process does, and the process is restarted
\* (restart: unless-stopped).  Nobody has to enqueue anything.
FairSpec == Spec /\ WF_vars(Consume)

-----------------------------------------------------------------------------
\* Type invariant; the UPDATE keeps the stock from going below zero.
TypeOK ==
    /\ lists \in Lists /\ disk \in Lists
    /\ consumer \in ConsumerState
    /\ stock \in 0..Opening
    /\ faults \in [calls : 0..MaxFaults, data : 0..MaxFaults, db : 0..MaxFaults]
    /\ enqueued \subseteq Items
    /\ tally \in [Items -> [done : Nat, failed : Nat, deducted : Nat]]

Occurrences(i, list) == Cardinality({k \in DOMAIN list : list[k].item = i})

Copies(i) ==
    Occurrences(i, lists.queue) + Occurrences(i, lists.dlq) + tally[i].done
       + (IF Holds(i) THEN 1 ELSE 0)

Distance(m, n) == IF m > n THEN m - n ELSE n - m

\* As long as Redis keeps its data, an enqueued item is in exactly one place
\* (waiting, with the consumer, processed, dead), but for one copy lost or
\* added by each lost call, lost answer or kill: whatever items, retries and
\* faults are interleaved (StartConsumer, processItem, sendToDLQ).
CopiesConserved ==
    faults.data = 0 =>
       SumFunctionOnSet([i \in Items |-> Distance(Copies(i), IF i \in enqueued THEN 1 ELSE 0)],
                        Items) <= faults.calls

\* The retry count travels with the item and bounds its attempts: what waits
\* has attempts left, what is dead has failed maxRetries times, and no item
\* fails more often, unless a repeated push made two of it.
RetriesCounted ==
    /\ \A e \in Range(lists.queue) :
          e.retries < MaxRetries /\ e.retries <= tally[e.item].failed
    /\ \A e \in Range(lists.dlq) :
          e.retries = MaxRetries /\ tally[e.item].failed >= MaxRetries
    /\ faults.data = 0 =>
          \A i \in Items : tally[i].failed <= MaxRetries * (1 + faults.calls)

\* The consumer takes a line off the stock once, although an error of the
\* database does not tell whether the UPDATE was committed: each further time
\* needs such an error, a repeated push or a Redis that lost its last second.
DeductedOnce ==
    faults.data = 0 => \A i \in Items : tally[i].deducted <= 1 + faults.calls + faults.db

Pending == {i \in Items : Holds(i) \/ Occurrences(i, lists.queue) > 0}

\* Items are finitely many here, so the queue runs empty again: no item
\* circulates for ever, and one that always fails does not keep those behind
\* it waiting for ever (backoff, maxRetries).
QueueDrains == Pending # {} ~> Pending = {}
=============================================================================
