----------------------------- MODULE SyncEngine -----------------------------
(***************************************************************************)
(* The device's sync loop (SyncService.syncNow) against the server's       *)
(* /api/v1/sync/push, and the button that starts it by hand                *)
(* (SyncStatusNotifier.triggerManualSync).                                 *)
(*                                                                         *)
(* Each await of syncNow ends a step: the query for open rows, the mark    *)
(* `syncing', the POST, the mark `synced', each `failed' mark, the reset.  *)
(* Between them other calls of syncNow run (the WorkManager task and the   *)
(* button share the table, nothing else), the POST times out while the     *)
(* server goes on with it, local statements fail and the process is        *)
(* killed.  The server applies a batch item by item, outside any           *)
(* transaction.                                                            *)
(*                                                                         *)
(* Payloads are reduced to what the server makes of them, KindOf:          *)
(*   "good"     decoded and stored, or of a table the switch does not know *)
(*              and dropped: accepted either way;                          *)
(*   "bad"      cannot be decoded or violates a constraint: always an      *)
(*              error;                                                     *)
(*   "conflict" a product the server has a newer version of.               *)
(***************************************************************************)
EXTENDS Integers, FiniteSets, FiniteSetsExt

CONSTANTS
    Rows,       \* ids of sync_queue rows
    SeqOf,      \* their localSeq
    KindOf,     \* what the server makes of their payload
    Runners,    \* the isolates that call syncNow
    Manual,     \* the runner behind the button
    Requests,   \* bound on the requests the server has open
    BatchSize,  \* _kBatchSize
    MaxFaults,  \* bound on network and server faults
    MaxLocalFaults, \* bound on local statements that throw
    MaxCrashes  \* bound on kills of the app

ASSUME BatchAssumption == BatchSize \in Nat \ {0}
ASSUME BoundsAssumption ==
    MaxFaults \in Nat /\ MaxLocalFaults \in Nat /\ MaxCrashes \in Nat
ASSUME RowsAssumption ==
    /\ SeqOf \in [Rows -> Nat]
    /\ KindOf \in [Rows -> {"good", "bad", "conflict"}]

Nobody == "nobody"
ASSUME NobodyAssumption == Nobody \notin Runners

VARIABLES
    status,      \* sync_queue.status; "purged" once the row is deleted
    runner,      \* the locals of each syncNow call
    isSyncing,   \* SyncState.isSyncing
    request,     \* the Push handlers at work
    applied,     \* rows for which applyDelta has returned no error, no conflict
    faults, localFaults, crashes

vars == <<status, runner, isSyncing, request, applied, faults, localFaults, crashes>>

Answer == [accepted : SUBSET Rows, conflicts : SUBSET Rows, errors : SUBSET Rows]
NoAnswer == [accepted |-> {}, conflicts |-> {}, errors |-> {}]

Runner  == [pc : {"idle", "started", "selected", "marked", "waiting", "accepting",
                  "conflicts", "errors", "resetting"},
            batch : SUBSET Rows, answer : Answer]
Request == [open : BOOLEAN, waiter : Runners \cup {Nobody}, todo : SUBSET Rows,
            answer : Answer]

Idle   == [pc |-> "idle", batch |-> {}, answer |-> NoAnswer]
Closed == [open |-> FALSE, waiter |-> Nobody, todo |-> {}, answer |-> NoAnswer]

Goes(r, pc) == runner' = [runner EXCEPT ![r].pc = pc]

\* UPDATE sync_queue SET status = v WHERE id IN ids.
Updated(ids, v) ==
    [x \in Rows |-> IF x \in ids /\ status[x] # "purged" THEN v ELSE status[x]]

\* A slip of Returns: triggerManualSync forgets the flag.
ReturnsBusy(r) == runner' = [runner EXCEPT ![r] = Idle] /\ UNCHANGED isSyncing

\* syncNow returns; the button is freed by the line after its await.
Returns(r) ==
    /\ runner' = [runner EXCEPT ![r] = Idle]
    /\ isSyncing' = (isSyncing /\ r # Manual)

LocalsUnchanged == UNCHANGED <<request, applied, faults, localFaults, crashes>>

-----------------------------------------------------------------------------
Init ==
    /\ status = [x \in Rows |-> "absent"]
    /\ runner = [r \in Runners |-> Idle]
    /\ isSyncing = FALSE
    /\ request = [q \in Requests |-> Closed]
    /\ applied = {}
    /\ faults = 0 /\ localFaults = 0 /\ crashes = 0

\* A local transaction commits its outbox row.
EnqueueRow(x) ==
    /\ status[x] = "absent"
    /\ status' = [status EXCEPT ![x] = "pending"]
    /\ UNCHANGED <<runner, isSyncing>> /\ LocalsUnchanged

-----------------------------------------------------------------------------
(* syncNow *)

\* The WorkManager task fires, or the button is pressed; triggerManualSync
\* turns back if the last press has not ended.
StartSync(r) ==
    /\ runner[r].pc = "idle"
    /\ r = Manual => ~isSyncing
    /\ Goes(r, "started")
    /\ isSyncing' = (isSyncing \/ r = Manual)
    /\ UNCHANGED status /\ LocalsUnchanged

\* A slip of Open: rows that failed once are not picked up again.
OpenPendingOnly == {x \in Rows : status[x] = "pending"}

Open == {x \in Rows : status[x] \in {"pending", "failed"}}

\* ORDER BY local_seq LIMIT 50: the order of equal local_seq is SQLite's choice.
Batches ==
    {B \in kSubset(Min({BatchSize, Cardinality(Open)}), Open) :
        \A x \in B, y \in Open \ B : SeqOf[x] <= SeqOf[y]}

\* syncNow on a terminal without a server, a token or a device id returns before
\* this query and changes nothing; the terminal here has all three.
SelectRows(r) ==
    /\ runner[r].pc = "started"
    /\ \/ /\ Open = {}
          /\ Returns(r)
       \/ /\ Open # {}
          /\ \E B \in Batches :
               runner' = [runner EXCEPT ![r] = [pc |-> "selected", batch |-> B,
                                                answer |-> NoAnswer]]
          /\ UNCHANGED isSyncing
    /\ UNCHANGED status /\ LocalsUnchanged

\* The ids read before are marked whatever became of them since.
MarkSyncing(r) ==
    /\ runner[r].pc = "selected"
    /\ status' = Updated(runner[r].batch, "syncing")
    /\ Goes(r, "marked")
    /\ UNCHANGED isSyncing /\ LocalsUnchanged

Post(r, q) ==
    /\ runner[r].pc = "marked"
    /\ ~request[q].open
    /\ request' = [request EXCEPT ![q] =
          [open |-> TRUE, waiter |-> r, todo |-> runner[r].batch, answer |-> NoAnswer]]
    /\ Goes(r, "waiting")
    /\ UNCHANGED <<status, isSyncing, applied, faults, localFaults, crashes>>

\* No route to the server, or its answer is not 200 (expired token, overload):
\* nothing of the batch is processed.
PostFails(r) ==
    /\ runner[r].pc = "marked"
    /\ faults < MaxFaults
    /\ faults' = faults + 1
    /\ Goes(r, "resetting")
    /\ UNCHANGED <<status, isSyncing, request, applied, localFaults, crashes>>

\* The 30 s timeout, or the connection breaks: the server is not told.
GiveUp(r, q) ==
    /\ runner[r].pc = "waiting" /\ request[q].waiter = r
    /\ faults < MaxFaults
    /\ faults' = faults + 1
    /\ Goes(r, "resetting")
    /\ request' = [request EXCEPT ![q].waiter = Nobody]
    /\ UNCHANGED <<status, isSyncing, applied, localFaults, crashes>>

\* A slip of Confirmed: the whole batch is taken as accepted.
ConfirmedBatch(r) == runner[r].batch

Confirmed(r) == runner[r].answer.accepted

MarkAccepted(r) ==
    /\ runner[r].pc = "accepting"
    /\ status' = Updated(Confirmed(r), "synced")
    /\ Goes(r, IF runner[r].answer.conflicts # {} THEN "conflicts" ELSE "errors")
    /\ UNCHANGED isSyncing /\ LocalsUnchanged

\* _handleConflict: the server's decimals are JSON strings, `as num' throws
\* before anything is written and the catch-all takes over.
HandleConflict(r) ==
    /\ runner[r].pc = "conflicts"
    /\ Goes(r, "resetting")
    /\ UNCHANGED <<status, isSyncing>> /\ LocalsUnchanged

\* A slip of MarkError: a status no query knows.
MarkErrorUnknown(r, x) ==
    /\ runner[r].pc = "errors" /\ x \in runner[r].answer.errors
    /\ status' = Updated({x}, "error")
    /\ runner' = [runner EXCEPT ![r].answer.errors = @ \ {x}]
    /\ UNCHANGED isSyncing /\ LocalsUnchanged

MarkError(r, x) ==
    /\ runner[r].pc = "errors" /\ x \in runner[r].answer.errors
    /\ status' = Updated({x}, "failed")
    /\ runner' = [runner EXCEPT ![r].answer.errors = @ \ {x}]
    /\ UNCHANGED isSyncing /\ LocalsUnchanged

Finish(r) ==
    /\ runner[r].pc = "errors" /\ runner[r].answer.errors = {}
    /\ Returns(r)
    /\ UNCHANGED status /\ LocalsUnchanged

\* A slip of RowsToReset: only the rows the server answered for.
RowsAnswered(r) ==
    LET a == runner[r].answer IN a.accepted \cup a.conflicts \cup a.errors

RowsToReset(r) == runner[r].batch

\* _resetToPending: every row of the batch, the accepted ones included.
ResetToPending(r) ==
    /\ runner[r].pc = "resetting"
    /\ status' = Updated(RowsToReset(r), "pending")
    /\ Returns(r)
    /\ LocalsUnchanged

\* A statement outside the try block, or in a catch clause, throws (the
\* database is locked by the other isolate): the call ends, nobody resets
\* isSyncing.
LocalFailure(r) ==
    /\ runner[r].pc \in {"started", "selected", "resetting"}
    /\ localFaults < MaxLocalFaults
    /\ localFaults' = localFaults + 1
    /\ runner' = [runner EXCEPT ![r] = Idle]
    /\ UNCHANGED <<status, isSyncing, request, applied, faults, crashes>>

\* A statement inside the try block throws: the catch-all resets the batch.
UpdateFails(r) ==
    /\ runner[r].pc \in {"accepting", "conflicts", "errors"}
    /\ localFaults < MaxLocalFaults
    /\ localFaults' = localFaults + 1
    /\ Goes(r, "resetting")
    /\ UNCHANGED <<status, isSyncing, request, applied, faults, crashes>>

\* A slip of Purge: rows that failed are cleaned up too.
PurgeSettled(x) ==
    /\ status[x] \in {"synced", "failed"}
    /\ \A r \in Runners : x \notin runner[r].batch
    /\ status' = [status EXCEPT ![x] = "purged"]
    /\ UNCHANGED <<runner, isSyncing>> /\ LocalsUnchanged

\* purgeOldSyncedItems: a week later, no call that read the row is still at work.
Purge(x) ==
    /\ status[x] = "synced"
    /\ \A r \in Runners : x \notin runner[r].batch
    /\ status' = [status EXCEPT ![x] = "purged"]
    /\ UNCHANGED <<runner, isSyncing>> /\ LocalsUnchanged

\* The app is killed and started again; the server goes on with what it has.
AppCrash ==
    /\ crashes < MaxCrashes
    /\ crashes' = crashes + 1
    /\ runner' = [r \in Runners |-> Idle]
    /\ isSyncing' = FALSE
    /\ request' = [q \in Requests |-> [request[q] EXCEPT !.waiter = Nobody]]
    /\ UNCHANGED <<status, applied, faults, localFaults>>

-----------------------------------------------------------------------------
(* Push: for _, item := range req.Items *)

NextItems(q) ==
    {x \in request[q].todo : \A y \in request[q].todo : SeqOf[x] <= SeqOf[y]}

Answered(q, x, answer) ==
    request' = [request EXCEPT ![q].todo = @ \ {x}, ![q].answer = answer]

\* applyDelta and the branch of the loop its result takes.
ApplyDelta(q, x) ==
    LET a == request[q].answer IN
    /\ request[q].open /\ x \in NextItems(q)
    /\ \/ /\ KindOf[x] = "good"
          /\ Answered(q, x, [a EXCEPT !.accepted = @ \cup {x}])
          /\ applied' = applied \cup {x}
       \/ /\ KindOf[x] = "bad"
          /\ Answered(q, x, [a EXCEPT !.errors = @ \cup {x}])
          /\ UNCHANGED applied
       \/ /\ KindOf[x] = "conflict"
          /\ Answered(q, x, [a EXCEPT !.conflicts = @ \cup {x}])
          /\ UNCHANGED applied
    /\ UNCHANGED <<status, runner, isSyncing, faults, localFaults, crashes>>

\* PostgreSQL refuses the statement this once (lost connection, deadlock).
ApplyFails(q, x) ==
    LET a == request[q].answer IN
    /\ request[q].open /\ x \in NextItems(q)
    /\ faults < MaxFaults
    /\ faults' = faults + 1
    /\ Answered(q, x, [a EXCEPT !.errors = @ \cup {x}])
    /\ UNCHANGED <<status, runner, isSyncing, applied, localFaults, crashes>>

Reply(q) ==
    /\ request[q].open /\ request[q].todo = {}
    /\ runner' = IF request[q].waiter = Nobody THEN runner
                 ELSE [runner EXCEPT ![request[q].waiter].pc = "accepting",
                                     ![request[q].waiter].answer = request[q].answer]
    /\ request' = [request EXCEPT ![q] = Closed]
    /\ UNCHANGED <<status, isSyncing, applied, faults, localFaults, crashes>>

\* The server process dies with part of the batch applied.
ServerCrash(q) ==
    /\ request[q].open
    /\ faults < MaxFaults
    /\ faults' = faults + 1
    /\ runner' = IF request[q].waiter = Nobody THEN runner
                 ELSE [runner EXCEPT ![request[q].waiter].pc = "resetting"]
    /\ request' = [request EXCEPT ![q] = Closed]
    /\ UNCHANGED <<status, isSyncing, applied, localFaults, crashes>>

-----------------------------------------------------------------------------
\* What runs by itself once started: the awaits of syncNow and the handler.
ClientSteps(r) ==
    \/ SelectRows(r) \/ MarkSyncing(r) \/ (\E q \in Requests : Post(r, q))
    \/ MarkAccepted(r) \/ HandleConflict(r) \/ (\E x \in Rows : MarkError(r, x))
    \/ Finish(r) \/ ResetToPending(r)

ServerSteps(q) == (\E x \in Rows : ApplyDelta(q, x)) \/ Reply(q)

Faults ==
    \/ \E r \in Runners : PostFails(r) \/ LocalFailure(r) \/ UpdateFails(r)
    \/ \E r \in Runners, q \in Requests : GiveUp(r, q)
    \/ \E q \in Requests, x \in Rows : ApplyFails(q, x)
    \/ \E q \in Requests : ServerCrash(q)
    \/ AppCrash

Next ==
    \/ \E x \in Rows : EnqueueRow(x) \/ Purge(x)
    \/ \E r \in Runners : StartSync(r) \/ ClientSteps(r)
    \/ \E q \in Requests : ServerSteps(q)
    \/ Faults

Spec == Init /\ [][Next]_vars

\* WorkManager fires again and again, the button is not counted on; an await
\* that was started ends, and the server's loop goes on while the server lives.
\* Nothing is assumed of faults but that each run has finitely many.
FairSpec ==
    /\ Spec
    /\ \A r \in Runners : WF_vars(ClientSteps(r)) /\ WF_vars(r # Manual /\ StartSync(r))
    /\ \A q \in Requests : WF_vars(ServerSteps(q))
-----------------------------------------------------------------------------
(* Properties *)

\* Statuses, calls and requests have their shapes.  The status "conflict" of
\* domain/sync.go is not among them: no step writes it (ConflictsResolved).
TypeOK ==
    /\ status \in [Rows -> {"absent", "pending", "syncing", "synced", "failed", "purged"}]
    /\ runner \in [Runners -> Runner]
    /\ isSyncing \in BOOLEAN
    /\ request \in [Requests -> Request]
    /\ applied \subseteq Rows
    /\ faults \in 0..MaxFaults
    /\ localFaults \in 0..MaxLocalFaults
    /\ crashes \in 0..MaxCrashes

Done == {"synced", "purged"}

\* A row is marked synced, and later purged, only if the server has answered
\* for that very row, whatever was lost, repeated or answered late.
SyncedMeansApplied == \A x \in Rows : status[x] \in Done => x \in applied

AtWork == {"marked", "waiting", "accepting", "conflicts", "errors", "resetting"}

\* While nothing is killed and no local statement fails, a row left `syncing'
\* (which no query picks up again) is in the batch of a call still at work
\* that will settle it: no interleaving of two calls strands a row.
SyncingIsOwned ==
    crashes = 0 /\ localFaults = 0 =>
       \A x \in Rows : status[x] = "syncing" =>
          \E r \in Runners : runner[r].pc \in AtWork /\ x \in runner[r].batch

\* The engine delivers at least once (Delivery): a row leaves the rows owed
\* only when it has been applied, and the device only after that.
Outbox == INSTANCE Delivery
            WITH outstanding <- {x \in Rows : status[x] \in {"pending", "syncing", "failed"}},
                 confirmed   <- {x \in Rows : status[x] = "synced"},
                 forgotten   <- {x \in Rows : status[x] = "purged"}
ImplementsDelivery == Outbox!Spec

\* "items stay 'pending' and are retried ... without any data loss": once the
\* faults are over, every row the server can take is delivered for good.
EventuallyDelivered ==
    \A x \in Rows : KindOf[x] = "good" =>
       [](status[x] # "absent" => <>[](status[x] \in Done))

\* The button comes back: a press of it is answered in the end.
ManualSyncEnds == isSyncing ~> ~isSyncing

\* "Handle conflicts (server wins - update local record)": a row the server
\* wins against is settled in the end, as every other.
ConflictsResolved ==
    \A x \in Rows : KindOf[x] = "conflict" =>
       [](status[x] # "absent" => <>(status[x] \notin {"pending", "syncing", "failed"}))
=============================================================================
