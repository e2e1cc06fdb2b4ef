-------------------------- MODULE SyncEngineProofs --------------------------
(***************************************************************************)
(* Theorems about SyncEngine, for any rows, runners, requests, batch size  *)
(* and any number of faults and crashes.                                   *)
(***************************************************************************)
EXTENDS SyncEngine, TLAPS

Statuses == {"absent", "pending", "syncing", "synced", "failed", "purged"}

LEMMA IdleTyped == Idle \in Runner /\ Closed \in Request
  BY DEF Idle, Closed, Runner, Request, Answer, NoAnswer

LEMMA BatchTyped ==
    ASSUME NEW B \in Batches
    PROVE  B \subseteq Rows
  BY DEF Batches, kSubset, Open

LEMMA UpdatedTyped ==
    ASSUME TypeOK, NEW ids, NEW v \in Statuses
    PROVE  Updated(ids, v) \in [Rows -> Statuses]
  BY DEF Updated, TypeOK, Statuses

LEMMA AnsweredTyped ==
    ASSUME TypeOK, NEW q \in Requests, NEW x, NEW b \in Answer, Answered(q, x, b)
    PROVE  request' \in [Requests -> Request]
<1> DEFINE k == [request[q] EXCEPT !.todo = @ \ {x}, !.answer = b]
<1>1. k \in Request
  BY DEF TypeOK, Request
<1>2. request' = [request EXCEPT ![q] = k]
  BY DEF Answered
<1> HIDE DEF k
<1> QED
  BY <1>1, <1>2 DEF TypeOK

LEMMA TypeInit == Init => TypeOK
<1> SUFFICES ASSUME Init PROVE TypeOK
  OBVIOUS
<1>1. runner \in [Runners -> Runner] /\ request \in [Requests -> Request]
  BY IdleTyped DEF Init
<1>2. faults \in 0..MaxFaults /\ localFaults \in 0..MaxLocalFaults /\ crashes \in 0..MaxCrashes
  BY BoundsAssumption DEF Init
<1> QED
  BY <1>1, <1>2 DEF Init, TypeOK

LEMMA TypeNext == TypeOK /\ [Next]_vars => TypeOK'
<1> SUFFICES ASSUME TypeOK, [Next]_vars PROVE TypeOK'
  OBVIOUS
<1> USE BoundsAssumption
<1>1. ASSUME NEW x \in Rows, EnqueueRow(x) PROVE TypeOK'
  BY <1>1 DEF EnqueueRow, LocalsUnchanged, TypeOK
<1>2. ASSUME NEW r \in Runners, StartSync(r) PROVE TypeOK'
  BY <1>2 DEF StartSync, Goes, LocalsUnchanged, TypeOK, Runner
<1>3. ASSUME NEW r \in Runners, SelectRows(r) PROVE TypeOK'
  <2>1. CASE Open = {} /\ Returns(r)
    BY <1>3, <2>1, IdleTyped DEF SelectRows, Returns, LocalsUnchanged, TypeOK
  <2>2. CASE /\ \E B \in Batches :
                  runner' = [runner EXCEPT ![r] = [pc |-> "selected", batch |-> B,
                                                   answer |-> NoAnswer]]
             /\ UNCHANGED isSyncing
    BY <1>3, <2>2, BatchTyped
    DEF SelectRows, LocalsUnchanged, TypeOK, Runner, NoAnswer, Answer
  <2> QED
    BY <1>3, <2>1, <2>2 DEF SelectRows
<1>4. ASSUME NEW r \in Runners, MarkSyncing(r) PROVE TypeOK'
  <2>1. status' \in [Rows -> Statuses]
    BY <1>4, UpdatedTyped DEF MarkSyncing, Statuses
  <2>2. runner' \in [Runners -> Runner]
    BY <1>4 DEF MarkSyncing, Goes, TypeOK, Runner
  <2> QED
    BY <1>4, <2>1, <2>2 DEF MarkSyncing, LocalsUnchanged, TypeOK, Statuses
<1>5. ASSUME NEW r \in Runners, NEW q \in Requests, Post(r, q) PROVE TypeOK'
  <2> DEFINE k == [open |-> TRUE, waiter |-> r, todo |-> runner[r].batch, answer |-> NoAnswer]
  <2>1. k \in Request
    BY DEF TypeOK, Runner, Request, NoAnswer, Answer
  <2>2. request' = [request EXCEPT ![q] = k]
    BY <1>5 DEF Post
  <2>3. request' \in [Requests -> Request]
    <3> HIDE DEF k
    <3> QED
      BY <2>1, <2>2 DEF TypeOK
  <2>4. runner' \in [Runners -> Runner]
    BY <1>5 DEF Post, Goes, TypeOK, Runner
  <2> QED
    BY <1>5, <2>3, <2>4 DEF Post, TypeOK
<1>6. ASSUME NEW r \in Runners, PostFails(r) PROVE TypeOK'
  BY <1>6 DEF PostFails, Goes, TypeOK, Runner
<1>7. ASSUME NEW r \in Runners, NEW q \in Requests, GiveUp(r, q) PROVE TypeOK'
  <2>1. runner' \in [Runners -> Runner]
    BY <1>7 DEF GiveUp, Goes, TypeOK, Runner
  <2>2. request' \in [Requests -> Request]
    BY <1>7 DEF GiveUp, TypeOK, Request
  <2> QED
    BY <1>7, <2>1, <2>2 DEF GiveUp, TypeOK
<1>8. ASSUME NEW r \in Runners, MarkAccepted(r) PROVE TypeOK'
  BY <1>8, UpdatedTyped DEF MarkAccepted, Goes, LocalsUnchanged, TypeOK, Runner, Statuses
<1>9. ASSUME NEW r \in Runners, HandleConflict(r) PROVE TypeOK'
  BY <1>9 DEF HandleConflict, Goes, LocalsUnchanged, TypeOK, Runner
<1>10. ASSUME NEW r \in Runners, NEW x \in Rows, MarkError(r, x) PROVE TypeOK'
  <2>1. status' \in [Rows -> Statuses]
    BY <1>10, UpdatedTyped DEF MarkError, Statuses
  <2>2. runner' \in [Runners -> Runner]
    <3> DEFINE a == [runner[r].answer EXCEPT !.errors = @ \ {x}]
               k == [runner[r] EXCEPT !.answer = a]
    <3>1. a \in Answer
      <4>1. runner[r].answer \in Answer
        BY DEF TypeOK, Runner
      <4> QED
        BY <4>1 DEF Answer
    <3>2. k \in Runner
      <4> HIDE DEF a
      <4> QED
        BY <3>1 DEF TypeOK, Runner
    <3>3. runner' = [runner EXCEPT ![r] = k]
      BY <1>10 DEF MarkError
    <3> HIDE DEF k
    <3> QED
      BY <3>2, <3>3 DEF TypeOK
  <2> QED
    BY <1>10, <2>1, <2>2 DEF MarkError, LocalsUnchanged, TypeOK, Statuses
<1>11. ASSUME NEW r \in Runners, Finish(r) PROVE TypeOK'
  BY <1>11, IdleTyped DEF Finish, Returns, LocalsUnchanged, TypeOK
<1>12. ASSUME NEW r \in Runners, ResetToPending(r) PROVE TypeOK'
  <2>1. status' \in [Rows -> Statuses]
    BY <1>12, UpdatedTyped DEF ResetToPending, Statuses
  <2> QED
    BY <1>12, <2>1, IdleTyped DEF ResetToPending, Returns, LocalsUnchanged, TypeOK, Statuses
<1>13. ASSUME NEW r \in Runners, LocalFailure(r) PROVE TypeOK'
  BY <1>13, IdleTyped DEF LocalFailure, TypeOK
<1>14. ASSUME NEW r \in Runners, UpdateFails(r) PROVE TypeOK'
  BY <1>14 DEF UpdateFails, Goes, TypeOK, Runner
<1>15. ASSUME NEW x \in Rows, Purge(x) PROVE TypeOK'
  BY <1>15 DEF Purge, LocalsUnchanged, TypeOK
<1>16. CASE AppCrash
  <2>1. request' \in [Requests -> Request]
    <3> DEFINE Left(q) == [request[q] EXCEPT !.waiter = Nobody]
    <3>1. \A q \in Requests : Left(q) \in Request
      BY DEF TypeOK, Request
    <3>2. request' = [q \in Requests |-> Left(q)]
      BY <1>16 DEF AppCrash
    <3> HIDE DEF Left
    <3> QED
      BY <3>1, <3>2
  <2> QED
    <3>1. runner' \in [Runners -> Runner]
      BY <1>16, IdleTyped DEF AppCrash
    <3>2. crashes' \in 0..MaxCrashes
      BY <1>16 DEF AppCrash, TypeOK
    <3> QED
      BY <1>16, <2>1, <3>1, <3>2 DEF AppCrash, TypeOK
<1>17. ASSUME NEW q \in Requests, NEW x \in Rows, ApplyDelta(q, x) PROVE TypeOK'
  <2> DEFINE a == request[q].answer
  <2>1. a \in Answer
    BY DEF TypeOK, Request
  <2>2. ASSUME NEW b \in Answer, Answered(q, x, b) PROVE request' \in [Requests -> Request]
    BY <2>2, AnsweredTyped
  <2>3. /\ [a EXCEPT !.accepted = @ \cup {x}] \in Answer
        /\ [a EXCEPT !.errors = @ \cup {x}] \in Answer
        /\ [a EXCEPT !.conflicts = @ \cup {x}] \in Answer
    BY <2>1 DEF Answer
  <2>4. request' \in [Requests -> Request]
    BY <1>17, <2>2, <2>3 DEF ApplyDelta
  <2>5. applied' \subseteq Rows
    BY <1>17 DEF ApplyDelta, TypeOK
  <2> QED
    BY <1>17, <2>4, <2>5 DEF ApplyDelta, TypeOK
<1>18. ASSUME NEW q \in Requests, NEW x \in Rows, ApplyFails(q, x) PROVE TypeOK'
  <2> DEFINE b == [request[q].answer EXCEPT !.errors = @ \cup {x}]
  <2>1. b \in Answer
    BY DEF TypeOK, Request, Answer
  <2>2. Answered(q, x, b)
    BY <1>18 DEF ApplyFails
  <2>3. request' \in [Requests -> Request]
    <3> HIDE DEF b
    <3> QED
      BY <2>1, <2>2, AnsweredTyped
  <2> QED
    BY <1>18, <2>3 DEF ApplyFails, TypeOK
<1>19. ASSUME NEW q \in Requests, Reply(q) PROVE TypeOK'
  <2>1. runner' \in [Runners -> Runner]
    <3>1. request[q] \in Request
      BY DEF TypeOK
    <3>2. CASE request[q].waiter = Nobody
      BY <1>19, <3>2 DEF Reply, TypeOK
    <3>3. CASE request[q].waiter # Nobody
      <4> DEFINE r == request[q].waiter
                 k == [runner[r] EXCEPT !.pc = "accepting", !.answer = request[q].answer]
      <4>1. r \in Runners
        BY <3>1, <3>3 DEF Request
      <4>2. k \in Runner
        <5>1. runner[r] \in Runner /\ request[q].answer \in Answer
          BY <3>1, <4>1 DEF TypeOK, Request
        <5> QED
          BY <5>1 DEF Runner
      <4>3. runner' = [runner EXCEPT ![r].pc = "accepting", ![r].answer = request[q].answer]
        BY <1>19, <3>3 DEF Reply
      <4>4. runner' = [runner EXCEPT ![r] = k]
        BY <4>3
      <4> QED
        BY <4>2, <4>4 DEF TypeOK
    <3> QED
      BY <3>2, <3>3
  <2> QED
    BY <1>19, <2>1, IdleTyped DEF Reply, TypeOK
<1>20. ASSUME NEW q \in Requests, ServerCrash(q) PROVE TypeOK'
  <2>1. request' \in [Requests -> Request]
    BY <1>20, IdleTyped DEF ServerCrash, TypeOK
  <2>2. runner' \in [Runners -> Runner]
    <3>1. CASE runner' = runner
      BY <3>1 DEF TypeOK
    <3>2. CASE runner' # runner
      <4>1. PICK w \in Runners : runner' = [runner EXCEPT ![w].pc = "resetting"]
        BY <1>20, <3>2 DEF ServerCrash, TypeOK, Request
      <4> QED
        BY <4>1 DEF TypeOK, Runner
    <3> QED
      BY <3>1, <3>2
  <2>3. faults' \in 0..MaxFaults
    BY <1>20, BoundsAssumption DEF ServerCrash, TypeOK
  <2> QED
    BY <1>20, <2>1, <2>2, <2>3 DEF ServerCrash, TypeOK
<1>21. CASE UNCHANGED vars
  BY <1>21 DEF vars, TypeOK
<1> QED
  BY <1>1, <1>2, <1>3, <1>4, <1>5, <1>6, <1>7, <1>8, <1>9, <1>10, <1>11, <1>12, <1>13,
     <1>14, <1>15, <1>16, <1>17, <1>18, <1>19, <1>20, <1>21
  DEF Next, ClientSteps, ServerSteps, Faults

\* Type correctness, for every instance.
THEOREM TypeCorrect == Spec => []TypeOK
  BY TypeInit, TypeNext, PTL DEF Spec

-----------------------------------------------------------------------------
(* A row is confirmed only after the server has answered for it.  The answer  *)
(* travels: from the handler's loop to its reply, to the locals of the call   *)
(* that waited, to the status; the invariant follows it all the way, and with *)
(* it the fact that only rows once enqueued are ever spoken about.            *)

Enqueued == {x \in Rows : status[x] # "absent"}

AnswersApplied ==
    /\ \A r \in Runners : runner[r].answer.accepted \subseteq applied
    /\ \A q \in Requests : request[q].answer.accepted \subseteq applied

OnlyEnqueued ==
    /\ applied \subseteq Enqueued
    /\ \A r \in Runners : /\ runner[r].batch \subseteq Enqueued
                          /\ runner[r].answer.errors \subseteq Enqueued
    /\ \A q \in Requests : /\ request[q].todo \subseteq Enqueued
                           /\ request[q].answer.errors \subseteq Enqueued

Inv == TypeOK /\ SyncedMeansApplied /\ AnswersApplied /\ OnlyEnqueued

LEMMA InvInit == Init => Inv
  BY TypeInit
  DEF Init, Inv, SyncedMeansApplied, Done, AnswersApplied, OnlyEnqueued, Enqueued, Idle,
      Closed, NoAnswer

\* No step takes a row back to "absent".
LEMMA EnqueuedGrows == TypeOK /\ [Next]_vars => Enqueued \subseteq Enqueued'
<1> SUFFICES ASSUME TypeOK, [Next]_vars PROVE Enqueued \subseteq Enqueued'
  OBVIOUS
<1>1. CASE UNCHANGED status
  BY <1>1 DEF Enqueued
<1>2. ASSUME NEW x \in Rows, EnqueueRow(x) \/ Purge(x) PROVE Enqueued \subseteq Enqueued'
  BY <1>2 DEF EnqueueRow, Purge, Enqueued, TypeOK
<1>3. ASSUME NEW ids, NEW v \in Statuses \ {"absent"}, status' = Updated(ids, v)
      PROVE  Enqueued \subseteq Enqueued'
  BY <1>3 DEF Updated, Enqueued
<1>4. ASSUME NEW r \in Runners, ClientSteps(r) PROVE Enqueued \subseteq Enqueued'
  BY <1>1, <1>3, <1>4
  DEF ClientSteps, SelectRows, MarkSyncing, Post, MarkAccepted, HandleConflict, MarkError,
      Finish, ResetToPending, Statuses
<1> QED
  BY <1>1, <1>2, <1>4
  DEF Next, ServerSteps, Faults, vars, StartSync, ApplyDelta, Reply, PostFails, LocalFailure,
      UpdateFails, GiveUp, ApplyFails, ServerCrash, AppCrash

LEMMA AppliedGrows == [Next]_vars => applied \subseteq applied'
  BY DEF Next, vars, EnqueueRow, Purge, LocalsUnchanged, StartSync, ClientSteps, SelectRows,
         MarkSyncing, Post, MarkAccepted, HandleConflict, MarkError, Finish, ResetToPending,
         ServerSteps, ApplyDelta, Reply, Faults, PostFails, LocalFailure, UpdateFails, GiveUp,
         ApplyFails, ServerCrash, AppCrash

\* One item answered: the rest of the requests stay as they are.
LEMMA AnsweredEffect ==
    ASSUME TypeOK, NEW q \in Requests, NEW x, NEW a, Answered(q, x, a)
    PROVE  /\ request'[q].todo = request[q].todo \ {x}
           /\ request'[q].answer = a
           /\ \A p \in Requests \ {q} : request'[p] = request[p]
<1> DEFINE k == [request[q] EXCEPT !.todo = @ \ {x}, !.answer = a]
<1>1. request' = [request EXCEPT ![q] = k]
  BY DEF Answered
<1>2. k.todo = request[q].todo \ {x} /\ k.answer = a
  BY DEF TypeOK, Request
<1> HIDE DEF k
<1> QED
  BY <1>1, <1>2 DEF TypeOK

\* What a runner holds stays known when the step leaves it alone, drops it or
\* passes it on.
LEMMA InvNext == Inv /\ [Next]_vars => Inv'
<1> SUFFICES ASSUME Inv, [Next]_vars PROVE Inv'
  OBVIOUS
<1>a. TypeOK /\ TypeOK' /\ Enqueued \subseteq Enqueued' /\ applied \subseteq applied'
  BY TypeNext, EnqueuedGrows, AppliedGrows DEF Inv
<1>b. SyncedMeansApplied /\ AnswersApplied /\ OnlyEnqueued
  BY DEF Inv
<1>c. ASSUME UNCHANGED <<status, applied>> PROVE SyncedMeansApplied'
  BY <1>b, <1>c DEF SyncedMeansApplied, Done
<1>d. ASSUME UNCHANGED <<runner, request>> PROVE AnswersApplied'
  BY <1>a, <1>b, <1>d DEF AnswersApplied
<1>e. ASSUME UNCHANGED <<runner, request, applied>> PROVE OnlyEnqueued'
  BY <1>a, <1>b, <1>e DEF OnlyEnqueued
\* A runner that only moves on, or returns, holds no more than before.
<1>f. ASSUME UNCHANGED <<request, applied>>, NEW r \in Runners,
             \/ \E pc : runner' = [runner EXCEPT ![r].pc = pc]
             \/ runner' = [runner EXCEPT ![r] = Idle]
      PROVE  AnswersApplied' /\ OnlyEnqueued'
  <2>1. \A i \in Runners : \/ /\ runner'[i].batch = runner[i].batch
                              /\ runner'[i].answer = runner[i].answer
                           \/ runner'[i] = Idle
    BY <1>f, <1>a DEF TypeOK, Runner
  <2>2. AnswersApplied'
    BY <2>1, <1>a, <1>b, <1>f DEF AnswersApplied, Idle, NoAnswer
  <2>3. OnlyEnqueued'
    BY <2>1, <1>a, <1>b, <1>f DEF OnlyEnqueued, Idle, NoAnswer
  <2> QED
    BY <2>2, <2>3
<1>1. ASSUME NEW x \in Rows, EnqueueRow(x) PROVE Inv'
  BY <1>1, <1>a, <1>b, <1>d, <1>e
  DEF EnqueueRow, LocalsUnchanged, Inv, SyncedMeansApplied, Done, TypeOK
<1>2. ASSUME NEW r \in Runners, StartSync(r) PROVE Inv'
  BY <1>2, <1>a, <1>c, <1>f DEF StartSync, Goes, LocalsUnchanged, Inv
<1>3. ASSUME NEW r \in Runners, SelectRows(r) PROVE Inv'
  <2>1. CASE Open = {} /\ Returns(r)
    BY <1>3, <2>1, <1>a, <1>c, <1>f DEF SelectRows, Returns, LocalsUnchanged, Inv
  <2>2. ASSUME NEW B \in Batches,
               runner' = [runner EXCEPT ![r] = [pc |-> "selected", batch |-> B,
                                                answer |-> NoAnswer]]
        PROVE  Inv'
    <3>1. B \subseteq Enqueued
      BY DEF Batches, kSubset, Open, Enqueued
    <3>2. AnswersApplied' /\ OnlyEnqueued'
      BY <1>3, <2>2, <3>1, <1>a, <1>b
      DEF SelectRows, LocalsUnchanged, AnswersApplied, OnlyEnqueued, TypeOK, NoAnswer
    <3> QED
      BY <1>3, <3>2, <1>a, <1>c DEF SelectRows, LocalsUnchanged, Inv
  <2> QED
    BY <1>3, <2>1, <2>2 DEF SelectRows
<1>4. ASSUME NEW r \in Runners, MarkSyncing(r) PROVE Inv'
  <2>1. SyncedMeansApplied'
    BY <1>4, <1>b DEF MarkSyncing, LocalsUnchanged, Updated, SyncedMeansApplied, Done
  <2> QED
    BY <1>4, <2>1, <1>a, <1>f DEF MarkSyncing, Goes, LocalsUnchanged, Inv
<1>5. ASSUME NEW r \in Runners, NEW q \in Requests, Post(r, q) PROVE Inv'
  <2>1. AnswersApplied' /\ OnlyEnqueued'
    BY <1>5, <1>a, <1>b
    DEF Post, Goes, AnswersApplied, OnlyEnqueued, TypeOK, Runner, NoAnswer
  <2> QED
    BY <1>5, <2>1, <1>a, <1>c DEF Post, Inv
<1>6. ASSUME NEW r \in Runners, PostFails(r) \/ LocalFailure(r) \/ UpdateFails(r) PROVE Inv'
  BY <1>6, <1>a, <1>c, <1>f DEF PostFails, LocalFailure, UpdateFails, Goes, Inv
<1>7. ASSUME NEW r \in Runners, NEW q \in Requests, GiveUp(r, q) PROVE Inv'
  <2>1. AnswersApplied' /\ OnlyEnqueued'
    BY <1>7, <1>a, <1>b
    DEF GiveUp, Goes, AnswersApplied, OnlyEnqueued, TypeOK, Runner, Request
  <2> QED
    BY <1>7, <2>1, <1>a, <1>c DEF GiveUp, Inv
<1>8. ASSUME NEW r \in Runners, MarkAccepted(r) PROVE Inv'
  <2>1. SyncedMeansApplied'
    BY <1>8, <1>b
    DEF MarkAccepted, Confirmed, LocalsUnchanged, Updated, SyncedMeansApplied, AnswersApplied, Done
  <2> QED
    BY <1>8, <2>1, <1>a, <1>f DEF MarkAccepted, Goes, LocalsUnchanged, Inv
<1>9. ASSUME NEW r \in Runners, HandleConflict(r) \/ Finish(r) PROVE Inv'
  BY <1>9, <1>a, <1>c, <1>f DEF HandleConflict, Finish, Goes, Returns, LocalsUnchanged, Inv
<1>10. ASSUME NEW r \in Runners, NEW x \in Rows, MarkError(r, x) PROVE Inv'
  <2>1. SyncedMeansApplied'
    BY <1>10, <1>b DEF MarkError, LocalsUnchanged, Updated, SyncedMeansApplied, Done
  <2>2. AnswersApplied' /\ OnlyEnqueued'
    BY <1>10, <1>a, <1>b
    DEF MarkError, LocalsUnchanged, AnswersApplied, OnlyEnqueued, TypeOK, Runner, Answer
  <2> QED
    BY <2>1, <2>2, <1>a DEF Inv
<1>11. ASSUME NEW r \in Runners, ResetToPending(r) PROVE Inv'
  <2>1. SyncedMeansApplied'
    BY <1>11, <1>b DEF ResetToPending, LocalsUnchanged, Updated, SyncedMeansApplied, Done
  <2> QED
    BY <1>11, <2>1, <1>a, <1>f DEF ResetToPending, Returns, LocalsUnchanged, Inv
<1>12. ASSUME NEW x \in Rows, Purge(x) PROVE Inv'
  BY <1>12, <1>a, <1>b, <1>d, <1>e
  DEF Purge, LocalsUnchanged, Inv, SyncedMeansApplied, Done, TypeOK
<1>13. CASE AppCrash
  <2>1. AnswersApplied' /\ OnlyEnqueued'
    <3>1. \A r \in Runners : runner'[r] = Idle
      BY <1>13 DEF AppCrash
    <3>2. \A q \in Requests : /\ request'[q].todo = request[q].todo
                             /\ request'[q].answer = request[q].answer
      BY <1>13, <1>a DEF AppCrash, TypeOK, Request
    <3>3. UNCHANGED <<status, applied>>
      BY <1>13 DEF AppCrash
    <3> QED
      BY <3>1, <3>2, <3>3, <1>b
      DEF AnswersApplied, OnlyEnqueued, Enqueued, Idle, NoAnswer
  <2> QED
    BY <1>13, <2>1, <1>a, <1>c DEF AppCrash, Inv
<1>14. ASSUME NEW q \in Requests, NEW x \in Rows, ApplyDelta(q, x) PROVE Inv'
  <2>1. SyncedMeansApplied'
    BY <1>14, <1>a, <1>b DEF ApplyDelta, SyncedMeansApplied, Done
  <2>2. x \in Enqueued
    BY <1>14, <1>b DEF ApplyDelta, NextItems, OnlyEnqueued
  <2>3. AnswersApplied' /\ OnlyEnqueued'
    <3>1. /\ request'[q].todo \subseteq request[q].todo
          /\ request'[q].answer.accepted \subseteq applied'
          /\ request'[q].answer.errors \subseteq request[q].answer.errors \cup {x}
      <4> DEFINE a == request[q].answer
      <4>1. a \in Answer /\ a.accepted \subseteq applied
        BY <1>a, <1>b DEF TypeOK, Request, AnswersApplied
      <4>2. CASE KindOf[x] = "good"
        <5> DEFINE b == [a EXCEPT !.accepted = @ \cup {x}]
        <5>1. Answered(q, x, b) /\ applied' = applied \cup {x}
          BY <1>14, <4>2 DEF ApplyDelta
        <5>2. b.accepted = a.accepted \cup {x} /\ b.errors = a.errors
          BY <4>1 DEF Answer
        <5> QED
          BY <4>1, <5>1, <5>2, <1>a, AnsweredEffect
      <4>3. CASE KindOf[x] = "bad"
        <5> DEFINE b == [a EXCEPT !.errors = @ \cup {x}]
        <5>1. Answered(q, x, b)
          BY <1>14, <4>3 DEF ApplyDelta
        <5>2. b.accepted = a.accepted /\ b.errors = a.errors \cup {x}
          BY <4>1 DEF Answer
        <5> HIDE DEF b
        <5>3. request'[q].todo = request[q].todo \ {x} /\ request'[q].answer = b
          BY <5>1, <1>a, AnsweredEffect
        <5> QED
          BY <4>1, <5>2, <5>3, <1>a
      <4>4. CASE KindOf[x] = "conflict"
        <5> DEFINE b == [a EXCEPT !.conflicts = @ \cup {x}]
        <5>1. Answered(q, x, b)
          BY <1>14, <4>4 DEF ApplyDelta
        <5>2. b.accepted = a.accepted /\ b.errors = a.errors
          BY <4>1 DEF Answer
        <5> QED
          BY <4>1, <5>1, <5>2, <1>a, AnsweredEffect, ZenonT(30)
      <4> QED
        BY <1>14, <4>2, <4>3, <4>4 DEF ApplyDelta
    <3>2. \A p \in Requests \ {q} : request'[p] = request[p]
      BY <1>14, <1>a, AnsweredEffect DEF ApplyDelta
    <3>3. applied' \subseteq Enqueued /\ UNCHANGED <<status, runner>>
      BY <1>14, <2>2, <1>b DEF ApplyDelta, OnlyEnqueued
    <3> QED
      BY <2>2, <3>1, <3>2, <3>3, <1>a, <1>b DEF AnswersApplied, OnlyEnqueued, Enqueued
  <2> QED
    BY <2>1, <2>3, <1>a DEF Inv
<1>15. ASSUME NEW q \in Requests, NEW x \in Rows, ApplyFails(q, x) PROVE Inv'
  <2>1. x \in Enqueued
    BY <1>15, <1>b DEF ApplyFails, NextItems, OnlyEnqueued
  <2>2. AnswersApplied' /\ OnlyEnqueued'
    <3>1. /\ request'[q].todo \subseteq request[q].todo
          /\ request'[q].answer.accepted = request[q].answer.accepted
          /\ request'[q].answer.errors = request[q].answer.errors \cup {x}
      <4> DEFINE a == request[q].answer
                 b == [a EXCEPT !.errors = @ \cup {x}]
      <4>1. Answered(q, x, b)
        BY <1>15 DEF ApplyFails
      <4>2. b.accepted = a.accepted /\ b.errors = a.errors \cup {x}
        BY <1>a DEF TypeOK, Request, Answer
      <4> HIDE DEF b
      <4>3. request'[q].todo = request[q].todo \ {x} /\ request'[q].answer = b
        BY <4>1, <1>a, AnsweredEffect
      <4> QED
        BY <4>2, <4>3
    <3>2. \A p \in Requests \ {q} : request'[p] = request[p]
      BY <1>15, <1>a, AnsweredEffect DEF ApplyFails
    <3>3. UNCHANGED <<status, runner, applied>>
      BY <1>15 DEF ApplyFails
    <3> QED
      BY <2>1, <3>1, <3>2, <3>3, <1>b DEF AnswersApplied, OnlyEnqueued, Enqueued
  <2> QED
    BY <1>15, <2>2, <1>a, <1>c DEF ApplyFails, Inv
<1>16. ASSUME NEW q \in Requests, Reply(q) \/ ServerCrash(q) PROVE Inv'
  <2>1. AnswersApplied' /\ OnlyEnqueued'
    <3>1. request' = [request EXCEPT ![q] = Closed] /\ UNCHANGED <<status, applied>>
      BY <1>16 DEF Reply, ServerCrash
    <3>2. \A i \in Runners : /\ runner'[i].batch = runner[i].batch
                            /\ runner'[i].answer \in {runner[i].answer, request[q].answer}
      <4>1. runner' = runner \/ \E w \in Runners :
               \/ runner' = [runner EXCEPT ![w].pc = "resetting"]
               \/ runner' = [runner EXCEPT ![w].pc = "accepting", ![w].answer = request[q].answer]
        BY <1>16, <1>a DEF Reply, ServerCrash, TypeOK, Request
      <4>2. CASE runner' = runner
        BY <4>2
      <4>3. ASSUME NEW w \in Runners, runner' = [runner EXCEPT ![w].pc = "resetting"],
                   NEW i \in Runners
            PROVE  runner'[i].batch = runner[i].batch /\ runner'[i].answer = runner[i].answer
        BY <4>3, <1>a DEF TypeOK, Runner
      <4>4. ASSUME NEW w \in Runners, NEW i \in Runners,
                   runner' = [runner EXCEPT ![w].pc = "accepting",
                                            ![w].answer = request[q].answer]
            PROVE  /\ runner'[i].batch = runner[i].batch
                   /\ runner'[i].answer \in {runner[i].answer, request[q].answer}
        <5> DEFINE k == [runner[w] EXCEPT !.pc = "accepting", !.answer = request[q].answer]
        <5>1. runner' = [runner EXCEPT ![w] = k]
          BY <4>4
        <5>2. k.batch = runner[w].batch /\ k.answer = request[q].answer
          BY <1>a DEF TypeOK, Runner
        <5> HIDE DEF k
        <5> QED
          BY <5>1, <5>2, <1>a DEF TypeOK
      <4> QED
        BY <4>1, <4>2, <4>3, <4>4
    <3> QED
      BY <3>1, <3>2, <1>b DEF AnswersApplied, OnlyEnqueued, Enqueued, Closed, NoAnswer
  <2> QED
    BY <1>16, <2>1, <1>a, <1>c DEF Reply, ServerCrash, Inv
<1>17. CASE UNCHANGED vars
  BY <1>17, <1>a, <1>c, <1>d, <1>e DEF vars, Inv
<1> QED
  BY <1>1, <1>2, <1>3, <1>4, <1>5, <1>6, <1>7, <1>8, <1>9, <1>10, <1>11, <1>12, <1>13,
     <1>14, <1>15, <1>16, <1>17
  DEF Next, ClientSteps, ServerSteps, Faults

\* A row is synced or purged only if the server has answered for it: no loss,
\* retry, late answer, second runner, crash or failing statement changes that.
THEOREM NeverConfirmedUnapplied == Spec => []SyncedMeansApplied
<1>1. Inv => SyncedMeansApplied
  BY DEF Inv
<1> QED
  BY <1>1, InvInit, InvNext, PTL DEF Spec

-----------------------------------------------------------------------------
(* The engine delivers at least once: each step is one step of Delivery, or   *)
(* none.                                                                      *)

RowsIn(S) == {x \in Rows : status[x] \in S}

Owed == {"pending", "syncing", "failed"}

LEMMA OutboxInit == Init => Outbox!Init
  BY DEF Init, Outbox!Init

LEMMA OfferedAreEnqueued ==
    ASSUME TypeOK
    PROVE  Outbox!Offered = Enqueued
  BY DEF Outbox!Offered, Enqueued, TypeOK

\* An UPDATE back to an open status reopens what it finds synced.
LEMMA UpdateReopens ==
    ASSUME TypeOK, NEW ids, ids \subseteq Enqueued, NEW v \in Owed,
           status' = Updated(ids, v), UNCHANGED applied
    PROVE  Outbox!Next
<1>1. PICK S \in SUBSET Rows : S = ids \cap RowsIn({"synced"})
  BY DEF RowsIn
<1>2. Outbox!Reopen(S)
  BY <1>1 DEF Outbox!Reopen, RowsIn, Owed, Updated, Enqueued, TypeOK
<1> QED
  BY <1>2 DEF Outbox!Next

\* An UPDATE to `synced' confirms what it finds open.
LEMMA UpdateConfirms ==
    ASSUME TypeOK, NEW ids, ids \subseteq Enqueued, ids \subseteq applied,
           status' = Updated(ids, "synced"), UNCHANGED applied
    PROVE  Outbox!Next
<1>1. PICK S \in SUBSET Rows : S = ids \cap RowsIn(Owed)
  BY DEF RowsIn
<1>2. Outbox!Confirm(S)
  BY <1>1 DEF Outbox!Confirm, RowsIn, Owed, Updated, Enqueued, TypeOK
<1> QED
  BY <1>2 DEF Outbox!Next

LEMMA OutboxNext == Inv /\ [Next]_vars => [Outbox!Next]_(Outbox!deliveryVars)
<1> SUFFICES ASSUME Inv, [Next]_vars PROVE [Outbox!Next]_(Outbox!deliveryVars)
  OBVIOUS
<1>a. TypeOK /\ AnswersApplied /\ OnlyEnqueued
  BY DEF Inv
<1>b. ASSUME UNCHANGED <<status, applied>> PROVE UNCHANGED Outbox!deliveryVars
  BY <1>b DEF Outbox!deliveryVars
<1>1. ASSUME NEW x \in Rows, EnqueueRow(x) PROVE Outbox!Next
  <2>1. Outbox!Offer(x)
    <3>1. x \notin Outbox!Offered
      BY <1>1, <1>a, OfferedAreEnqueued DEF EnqueueRow, Enqueued
    <3> QED
      BY <1>1, <1>a, <3>1 DEF EnqueueRow, LocalsUnchanged, Outbox!Offer, TypeOK
  <2> QED
    BY <2>1 DEF Outbox!Next
<1>2. ASSUME NEW x \in Rows, Purge(x) PROVE Outbox!Next
  <2>1. Outbox!Forget(x)
    BY <1>2, <1>a DEF Purge, LocalsUnchanged, Outbox!Forget, TypeOK
  <2> QED
    BY <2>1 DEF Outbox!Next
<1>3. ASSUME NEW r \in Runners, MarkSyncing(r) PROVE Outbox!Next
  <2> DEFINE ids == runner[r].batch
  <2>1. ids \subseteq Enqueued /\ status' = Updated(ids, "syncing") /\ UNCHANGED applied
    BY <1>3, <1>a DEF MarkSyncing, LocalsUnchanged, OnlyEnqueued
  <2> HIDE DEF ids
  <2> QED
    BY <2>1, <1>a, UpdateReopens DEF Owed
<1>4. ASSUME NEW r \in Runners, ResetToPending(r) PROVE Outbox!Next
  <2> DEFINE ids == runner[r].batch
  <2>1. ids \subseteq Enqueued /\ status' = Updated(ids, "pending") /\ UNCHANGED applied
    BY <1>4, <1>a DEF ResetToPending, RowsToReset, LocalsUnchanged, OnlyEnqueued
  <2> HIDE DEF ids
  <2> QED
    BY <2>1, <1>a, UpdateReopens DEF Owed
<1>5. ASSUME NEW r \in Runners, NEW x \in Rows, MarkError(r, x) PROVE Outbox!Next
  <2> DEFINE ids == {x}
  <2>1. ids \subseteq Enqueued /\ status' = Updated(ids, "failed") /\ UNCHANGED applied
    BY <1>5, <1>a DEF MarkError, LocalsUnchanged, OnlyEnqueued
  <2> HIDE DEF ids
  <2> QED
    BY <2>1, <1>a, UpdateReopens DEF Owed
<1>6. ASSUME NEW r \in Runners, MarkAccepted(r) PROVE Outbox!Next
  <2> DEFINE ids == runner[r].answer.accepted
  <2>1. /\ ids \subseteq Enqueued /\ ids \subseteq applied
        /\ status' = Updated(ids, "synced") /\ UNCHANGED applied
    BY <1>6, <1>a DEF MarkAccepted, Confirmed, LocalsUnchanged, AnswersApplied, OnlyEnqueued
  <2> HIDE DEF ids
  <2> QED
    BY <2>1, <1>a, UpdateConfirms
<1>7. ASSUME NEW q \in Requests, NEW x \in Rows, ApplyDelta(q, x)
      PROVE  [Outbox!Next]_(Outbox!deliveryVars)
  <2>1. CASE UNCHANGED applied
    BY <1>7, <2>1, <1>b DEF ApplyDelta
  <2>2. CASE applied' = applied \cup {x}
    <3>1. x \in Outbox!Offered
      BY <1>7, <1>a, OfferedAreEnqueued DEF ApplyDelta, NextItems, OnlyEnqueued
    <3>2. Outbox!Apply(x)
      BY <1>7, <2>2, <3>1 DEF ApplyDelta, Outbox!Apply
    <3> QED
      BY <3>2 DEF Outbox!Next
  <2> QED
    BY <1>7, <2>1, <2>2 DEF ApplyDelta
<1> QED
  BY <1>b, <1>1, <1>2, <1>3, <1>4, <1>5, <1>6, <1>7
  DEF Next, ClientSteps, ServerSteps, Faults, vars, LocalsUnchanged, StartSync, SelectRows,
      Post, HandleConflict, Finish, Reply, PostFails, LocalFailure, UpdateFails, GiveUp,
      ApplyFails, ServerCrash, AppCrash

\* The sync engine implements at-least-once delivery: whatever two runners, lost
\* answers, conflicts and crashes do, a row stops being owed only after the
\* server has answered for it, and leaves the device only after that.
THEOREM EngineImplementsDelivery == Spec => ImplementsDelivery
  BY InvInit, InvNext, OutboxInit, OutboxNext, PTL DEF Spec, ImplementsDelivery, Outbox!Spec

-----------------------------------------------------------------------------
(* No row is stranded.  A call that returns drops its batch, so it must have  *)
(* settled every row of it that is still `syncing': the server's answer has   *)
(* to speak of every row of the batch (BatchesAccounted), and of the rows it  *)
(* does not accept the call keeps count until they are marked (Owns).         *)

Covers(a, S) == S \subseteq a.accepted \cup a.conflicts \cup a.errors

\* A request is waited for by one call at most, which does nothing else; what
\* is done of its batch is in the answer, all of it once the answer is back.
BatchesAccounted ==
    /\ \A q \in Requests : request[q].waiter # Nobody =>
          /\ runner[request[q].waiter].pc = "waiting"
          /\ Covers(request[q].answer, runner[request[q].waiter].batch \ request[q].todo)
    /\ \A p, q \in Requests : p # q /\ request[p].waiter = request[q].waiter =>
          request[p].waiter = Nobody
    /\ \A r \in Runners : runner[r].pc = "accepting" =>
          Covers(runner[r].answer, runner[r].batch)

\* The call will settle the row: of the rows it marks one by one, those left.
Owns(r, x) ==
    /\ x \in runner[r].batch
    /\ \/ runner[r].pc \in AtWork \ {"errors"}
       \/ runner[r].pc = "errors" /\ x \in runner[r].answer.errors

RowsOwned ==
    crashes = 0 /\ localFaults = 0 =>
       \A x \in Rows : status[x] = "syncing" => \E r \in Runners : Owns(r, x)

\* A call that is not waiting can go anywhere but to "accepting".
LEMMA AccountedMoves ==
    ASSUME TypeOK, BatchesAccounted, UNCHANGED request, NEW r \in Runners, NEW k,
           runner' = [runner EXCEPT ![r] = k], runner[r].pc # "waiting", k.pc # "accepting"
    PROVE  BatchesAccounted'
<1>1. \A i \in Runners : runner'[i] = IF i = r THEN k ELSE runner[i]
  BY DEF TypeOK
<1>2. \A q \in Requests : request[q].waiter # Nobody =>
         request[q].waiter \in Runners \ {r}
  BY DEF TypeOK, Request, BatchesAccounted
<1> QED
  BY <1>1, <1>2 DEF BatchesAccounted, Covers

LEMMA AccountedGoes ==
    ASSUME TypeOK, BatchesAccounted, UNCHANGED request, NEW r \in Runners, NEW pc,
           Goes(r, pc), runner[r].pc # "waiting", pc # "accepting"
    PROVE  BatchesAccounted'
<1> DEFINE k == [runner[r] EXCEPT !.pc = pc]
<1>1. runner' = [runner EXCEPT ![r] = k]
  BY DEF Goes
<1>2. k.pc = pc
  BY DEF TypeOK, Runner
<1> HIDE DEF k
<1> QED
  BY <1>1, <1>2, AccountedMoves

\* An item of a request answered, one way or another.
LEMMA AccountedAnswers ==
    ASSUME TypeOK, BatchesAccounted, UNCHANGED runner, NEW q \in Requests, NEW x, NEW a,
           request' = [request EXCEPT ![q].todo = @ \ {x}, ![q].answer = a],
           \A S : Covers(request[q].answer, S) => Covers(a, S \cup {x})
    PROVE  BatchesAccounted'
<1> DEFINE k == [request[q] EXCEPT !.todo = @ \ {x}, !.answer = a]
<1>1. request' = [request EXCEPT ![q] = k]
  OBVIOUS
<1>2. k.todo = request[q].todo \ {x} /\ k.answer = a /\ k.waiter = request[q].waiter
  BY DEF TypeOK, Request
<1> HIDE DEF k
<1>3. \A p \in Requests : request'[p].waiter = request[p].waiter
  BY <1>1, <1>2 DEF TypeOK
<1>4. ASSUME NEW p \in Requests, request[p].waiter # Nobody
      PROVE  Covers(request'[p].answer, runner[request[p].waiter].batch \ request'[p].todo)
  <2>1. Covers(request[p].answer, runner[request[p].waiter].batch \ request[p].todo)
    BY <1>4 DEF BatchesAccounted
  <2>2. CASE p # q
    BY <1>1, <2>1, <2>2 DEF TypeOK
  <2>3. CASE p = q
    <3> DEFINE S == runner[request[p].waiter].batch \ request[p].todo
    <3>1. Covers(a, S \cup {x})
      BY <2>1, <2>3
    <3>2. request'[p].answer = a /\ request'[p].todo = request[p].todo \ {x}
      BY <1>1, <1>2, <2>3 DEF TypeOK
    <3> QED
      BY <3>1, <3>2 DEF Covers
  <2> QED
    BY <2>2, <2>3
<1>5. \A p \in Requests : request'[p].waiter # Nobody =>
         /\ runner'[request'[p].waiter].pc = "waiting"
         /\ Covers(request'[p].answer, runner'[request'[p].waiter].batch \ request'[p].todo)
  BY <1>3, <1>4 DEF BatchesAccounted
<1>6. \A p, s \in Requests : p # s /\ request'[p].waiter = request'[s].waiter =>
         request'[p].waiter = Nobody
  BY <1>3, ZenonT(30) DEF BatchesAccounted
<1>7. \A r \in Runners : runner'[r].pc = "accepting" => Covers(runner'[r].answer, runner'[r].batch)
  BY DEF BatchesAccounted
<1> QED
  BY <1>5, <1>6, <1>7 DEF BatchesAccounted

\* A request that ends: the call that waited, if one still did, leaves its wait.
LEMMA AccountedCloses ==
    ASSUME TypeOK, BatchesAccounted, NEW q \in Requests,
           request' = [request EXCEPT ![q] = Closed],
           \/ request[q].waiter = Nobody /\ UNCHANGED runner
           \/ \E r \in Runners, k \in Runner :
                 /\ request[q].waiter = r
                 /\ runner' = [runner EXCEPT ![r] = k]
                 /\ k.pc = "accepting" => Covers(k.answer, k.batch)
    PROVE  BatchesAccounted'
<1>1. \A p \in Requests : request'[p] = IF p = q THEN Closed ELSE request[p]
  BY DEF TypeOK
<1>2. Closed.waiter = Nobody
  BY DEF Closed
<1>3. CASE request[q].waiter = Nobody /\ UNCHANGED runner
  BY <1>1, <1>2, <1>3 DEF BatchesAccounted
<1>4. ASSUME NEW r \in Runners, NEW k \in Runner, request[q].waiter = r,
             runner' = [runner EXCEPT ![r] = k],
             k.pc = "accepting" => Covers(k.answer, k.batch)
      PROVE  BatchesAccounted'
  <2>1. \A i \in Runners : runner'[i] = IF i = r THEN k ELSE runner[i]
    BY <1>4 DEF TypeOK
  <2>2. \A p \in Requests : request'[p].waiter # Nobody =>
           /\ p # q /\ request'[p] = request[p]
           /\ request[p].waiter \in Runners \ {r}
    BY <1>1, <1>2, <1>4, NobodyAssumption DEF BatchesAccounted, TypeOK, Request
  <2>3. \A p \in Requests : request'[p].waiter # Nobody =>
           /\ runner'[request'[p].waiter].pc = "waiting"
           /\ Covers(request'[p].answer, runner'[request'[p].waiter].batch \ request'[p].todo)
    BY <2>1, <2>2 DEF BatchesAccounted
  <2>4. \A i, p \in Requests : i # p /\ request'[i].waiter = request'[p].waiter =>
           request'[i].waiter = Nobody
    BY <2>2 DEF BatchesAccounted
  <2>5. \A i \in Runners : runner'[i].pc = "accepting" =>
           Covers(runner'[i].answer, runner'[i].batch)
    BY <2>1, <1>4 DEF BatchesAccounted
  <2> QED
    BY <2>3, <2>4, <2>5 DEF BatchesAccounted
<1> QED
  BY <1>3, <1>4

LEMMA AccountedNext == TypeOK /\ BatchesAccounted /\ [Next]_vars => BatchesAccounted'
<1> SUFFICES ASSUME TypeOK, BatchesAccounted, [Next]_vars PROVE BatchesAccounted'
  OBVIOUS
<1>a. ASSUME UNCHANGED <<runner, request>> PROVE BatchesAccounted'
  BY <1>a DEF BatchesAccounted
<1>b. Idle.pc = "idle"
  BY DEF Idle
<1>c. ASSUME NEW q \in Requests PROVE request[q].answer \in Answer
  BY DEF TypeOK, Request
<1>1. ASSUME NEW x \in Rows, EnqueueRow(x) \/ Purge(x) PROVE BatchesAccounted'
  BY <1>1, <1>a DEF EnqueueRow, Purge, LocalsUnchanged
<1>2. ASSUME NEW r \in Runners,
             \/ StartSync(r) \/ MarkSyncing(r) \/ PostFails(r) \/ MarkAccepted(r)
             \/ HandleConflict(r) \/ UpdateFails(r)
      PROVE  BatchesAccounted'
  <2>1. \E pc \in {"started", "marked", "resetting", "conflicts", "errors"} : Goes(r, pc)
    BY <1>2 DEF StartSync, MarkSyncing, PostFails, MarkAccepted, HandleConflict, UpdateFails
  <2>2. runner[r].pc # "waiting" /\ UNCHANGED request
    BY <1>2
    DEF StartSync, MarkSyncing, PostFails, MarkAccepted, HandleConflict, UpdateFails,
        LocalsUnchanged
  <2> QED
    BY <2>1, <2>2, AccountedGoes
<1>3. ASSUME NEW r \in Runners, Finish(r) \/ ResetToPending(r) \/ LocalFailure(r)
      PROVE  BatchesAccounted'
  <2>1. /\ runner' = [runner EXCEPT ![r] = Idle]
        /\ runner[r].pc # "waiting" /\ UNCHANGED request
    BY <1>3 DEF Finish, ResetToPending, LocalFailure, Returns, LocalsUnchanged
  <2> QED
    BY <2>1, <1>b, AccountedMoves
<1>4. ASSUME NEW r \in Runners, SelectRows(r) PROVE BatchesAccounted'
  <2>1. runner[r].pc # "waiting" /\ UNCHANGED request
    BY <1>4 DEF SelectRows, LocalsUnchanged
  <2>2. PICK k : runner' = [runner EXCEPT ![r] = k] /\ k.pc \in {"idle", "selected"}
    <3>1. CASE runner' = [runner EXCEPT ![r] = Idle]
      BY <1>b, <3>1
    <3>2. ASSUME NEW B \in Batches,
                 runner' = [runner EXCEPT ![r] = [pc |-> "selected", batch |-> B,
                                                  answer |-> NoAnswer]]
          PROVE  \E k : runner' = [runner EXCEPT ![r] = k] /\ k.pc \in {"idle", "selected"}
      <4> WITNESS [pc |-> "selected", batch |-> B, answer |-> NoAnswer]
      <4> QED
        BY <3>2
    <3> QED
      BY <1>4, <3>1, <3>2 DEF SelectRows, Returns
  <2> QED
    BY <2>1, <2>2, AccountedMoves
<1>5. ASSUME NEW r \in Runners, NEW q \in Requests, Post(r, q) PROVE BatchesAccounted'
  <2> DEFINE k == [open |-> TRUE, waiter |-> r, todo |-> runner[r].batch, answer |-> NoAnswer]
  <2>1. \A p \in Requests : request'[p] = IF p = q THEN k ELSE request[p]
    BY <1>5 DEF Post, TypeOK
  <2>2. k.waiter = r /\ k.todo = runner[r].batch
    OBVIOUS
  <2> HIDE DEF k
  <2>3. runner[r].pc = "marked"
    BY <1>5 DEF Post
  <2>4. \A i \in Runners : /\ runner'[i].batch = runner[i].batch
                          /\ runner'[i].answer = runner[i].answer
                          /\ runner'[i].pc = IF i = r THEN "waiting" ELSE runner[i].pc
    BY <1>5 DEF Post, Goes, TypeOK, Runner
  <2>5. \A p \in Requests : request[p].waiter # r
    BY <2>3, NobodyAssumption DEF BatchesAccounted
  <2>6. \A p \in Requests : request[p].waiter # Nobody => request[p].waiter \in Runners
    BY DEF TypeOK, Request
  <2>7. Covers(k.answer, runner'[r].batch \ k.todo)
    BY <2>2, <2>4 DEF Covers
  <2>8. \A p \in Requests : request'[p].waiter # Nobody =>
           /\ runner'[request'[p].waiter].pc = "waiting"
           /\ Covers(request'[p].answer, runner'[request'[p].waiter].batch \ request'[p].todo)
    <3>1. ASSUME NEW p \in Requests \ {q}, request[p].waiter # Nobody
          PROVE  /\ runner'[request[p].waiter].pc = "waiting"
                 /\ Covers(request[p].answer, runner'[request[p].waiter].batch \ request[p].todo)
      BY <3>1, <2>3, <2>4, <2>6 DEF BatchesAccounted
    <3>2. \A p \in Requests \ {q} : request'[p] = request[p]
      BY <2>1
    <3>3. request'[q] = k
      BY <2>1
    <3>4. /\ runner'[request'[q].waiter].pc = "waiting"
          /\ Covers(request'[q].answer, runner'[request'[q].waiter].batch \ request'[q].todo)
      BY <2>2, <2>4, <2>7, <3>3
    <3> QED
      BY <3>1, <3>2, <3>4
  <2>9. \A i, p \in Requests : i # p /\ request'[i].waiter = request'[p].waiter =>
           request'[i].waiter = Nobody
    BY <2>1, <2>2, <2>5 DEF BatchesAccounted
  <2>10. \A i \in Runners : runner'[i].pc = "accepting" =>
           Covers(runner'[i].answer, runner'[i].batch)
    BY <2>4 DEF BatchesAccounted
  <2> QED
    BY <2>8, <2>9, <2>10 DEF BatchesAccounted
<1>6. ASSUME NEW r \in Runners, NEW q \in Requests, GiveUp(r, q) PROVE BatchesAccounted'
  <2>1. \A p \in Requests :
           /\ request'[p].waiter = IF p = q THEN Nobody ELSE request[p].waiter
           /\ request'[p].todo = request[p].todo /\ request'[p].answer = request[p].answer
    BY <1>6 DEF GiveUp, TypeOK, Request
  <2>2. \A i \in Runners : /\ runner'[i].batch = runner[i].batch
                          /\ runner'[i].answer = runner[i].answer
                          /\ runner'[i].pc = IF i = r THEN "resetting" ELSE runner[i].pc
    BY <1>6 DEF GiveUp, Goes, TypeOK, Runner
  <2>3. \A p \in Requests : request'[p].waiter # Nobody =>
           request[p].waiter \in Runners \ {r}
    BY <1>6, <2>1, NobodyAssumption DEF GiveUp, BatchesAccounted, TypeOK, Request
  <2>4. ASSUME NEW p \in Requests, request'[p].waiter # Nobody
        PROVE  /\ runner'[request'[p].waiter].pc = "waiting"
               /\ Covers(request'[p].answer, runner'[request'[p].waiter].batch \ request'[p].todo)
    <3>1. request[p].waiter \in Runners \ {r} /\ request'[p].waiter = request[p].waiter
      BY <2>1, <2>3, <2>4
    <3>2. /\ runner[request[p].waiter].pc = "waiting"
          /\ Covers(request[p].answer, runner[request[p].waiter].batch \ request[p].todo)
      BY <3>1, NobodyAssumption DEF BatchesAccounted
    <3> QED
      BY <2>1, <2>2, <3>1, <3>2, ZenonT(30)
  <2>5. \A i, p \in Requests : i # p /\ request'[i].waiter = request'[p].waiter =>
           request'[i].waiter = Nobody
    BY <2>1 DEF BatchesAccounted
  <2>6. \A i \in Runners : runner'[i].pc = "accepting" =>
           Covers(runner'[i].answer, runner'[i].batch)
    BY <2>2 DEF BatchesAccounted
  <2> QED
    BY <2>4, <2>5, <2>6 DEF BatchesAccounted
<1>7. CASE AppCrash
  <2>1. \A p \in Requests : request'[p].waiter = Nobody
    BY <1>7 DEF AppCrash, TypeOK, Request
  <2>2. \A i \in Runners : runner'[i].pc = "idle"
    BY <1>7, <1>b DEF AppCrash
  <2> QED
    BY <2>1, <2>2 DEF BatchesAccounted
<1>8. ASSUME NEW q \in Requests, NEW x \in Rows, ApplyDelta(q, x) \/ ApplyFails(q, x)
      PROVE  BatchesAccounted'
  <2> DEFINE a == request[q].answer
  <2>1. PICK b \in {[a EXCEPT !.accepted = @ \cup {x}], [a EXCEPT !.errors = @ \cup {x}],
                    [a EXCEPT !.conflicts = @ \cup {x}]} :
           request' = [request EXCEPT ![q].todo = @ \ {x}, ![q].answer = b]
    BY <1>8 DEF ApplyDelta, ApplyFails, Answered
  <2>2. \A S : Covers(a, S) => Covers(b, S \cup {x})
    BY <1>c DEF Answer, Covers
  <2>3. UNCHANGED runner
    BY <1>8 DEF ApplyDelta, ApplyFails
  <2> HIDE DEF a
  <2> QED
    BY <2>1, <2>2, <2>3, AccountedAnswers DEF a
<1>9. ASSUME NEW q \in Requests, Reply(q) PROVE BatchesAccounted'
  <2>1. request' = [request EXCEPT ![q] = Closed]
    BY <1>9 DEF Reply
  <2>2. CASE request[q].waiter = Nobody
    BY <1>9, <2>1, <2>2, AccountedCloses DEF Reply
  <2>3. CASE request[q].waiter # Nobody
    <3> DEFINE r == request[q].waiter
               k == [runner[r] EXCEPT !.pc = "accepting", !.answer = request[q].answer]
    <3>1. r \in Runners
      BY <2>3 DEF TypeOK, Request
    <3>2. runner' = [runner EXCEPT ![r] = k]
      BY <1>9, <2>3 DEF Reply
    <3>3. runner[r] \in Runner
      BY <3>1 DEF TypeOK
    <3>4. /\ k \in Runner /\ k.batch = runner[r].batch
          /\ k.answer = request[q].answer
      BY <3>3, <1>c DEF Runner
    <3>5. Covers(request[q].answer, runner[r].batch \ request[q].todo) /\ request[q].todo = {}
      BY <1>9, <2>3 DEF BatchesAccounted, Reply
    <3>6. Covers(k.answer, k.batch)
      BY <3>4, <3>5 DEF Covers
    <3> HIDE DEF k
    <3> QED
      BY <2>1, <3>1, <3>2, <3>4, <3>6, AccountedCloses
  <2> QED
    BY <2>2, <2>3
<1>10. ASSUME NEW q \in Requests, ServerCrash(q) PROVE BatchesAccounted'
  <2>1. request' = [request EXCEPT ![q] = Closed]
    BY <1>10 DEF ServerCrash
  <2>2. CASE request[q].waiter = Nobody
    BY <1>10, <2>1, <2>2, AccountedCloses DEF ServerCrash
  <2>3. CASE request[q].waiter # Nobody
    <3> DEFINE r == request[q].waiter
               k == [runner[r] EXCEPT !.pc = "resetting"]
    <3>1. r \in Runners
      BY <2>3 DEF TypeOK, Request
    <3>2. runner' = [runner EXCEPT ![r] = k]
      BY <1>10, <2>3 DEF ServerCrash
    <3>3. k \in Runner /\ k.pc = "resetting"
      BY <3>1 DEF TypeOK, Runner
    <3> HIDE DEF k
    <3> QED
      BY <2>1, <3>1, <3>2, <3>3, AccountedCloses
  <2> QED
    BY <2>2, <2>3
<1>11. ASSUME NEW r \in Runners, NEW x \in Rows, MarkError(r, x) PROVE BatchesAccounted'
  <2> DEFINE k == [runner[r] EXCEPT !.answer.errors = @ \ {x}]
  <2>1. /\ runner' = [runner EXCEPT ![r] = k]
        /\ runner[r].pc = "errors" /\ UNCHANGED request
    BY <1>11 DEF MarkError, LocalsUnchanged
  <2>2. k.pc = runner[r].pc
    BY DEF TypeOK, Runner
  <2> HIDE DEF k
  <2> QED
    BY <2>1, <2>2, AccountedMoves
<1>12. CASE UNCHANGED vars
  BY <1>12, <1>a DEF vars
<1> QED
  BY <1>1, <1>2, <1>3, <1>4, <1>5, <1>6, <1>7, <1>8, <1>9, <1>10, <1>11, <1>12
  DEF Next, ClientSteps, ServerSteps, Faults

\* Of the steps that leave the counters of kills and local failures at zero,
\* each leaves every syncing row to the call that had it or to the one at work.
LEMMA OwnedNext ==
    TypeOK /\ TypeOK' /\ BatchesAccounted /\ RowsOwned /\ [Next]_vars => RowsOwned'
<1> SUFFICES ASSUME TypeOK, TypeOK', BatchesAccounted, RowsOwned, [Next]_vars,
                    crashes' = 0, localFaults' = 0, NEW x \in Rows, status'[x] = "syncing"
             PROVE  \E r \in Runners : Owns(r, x)'
  BY DEF RowsOwned
<1>a. crashes \in Nat /\ localFaults \in Nat /\ crashes' # crashes + 1
      /\ localFaults' # localFaults + 1
  BY BoundsAssumption DEF TypeOK
<1>b. ASSUME status[x] = "syncing", crashes = 0, localFaults = 0
      PROVE  \E r \in Runners : Owns(r, x)
  BY <1>b DEF RowsOwned
\* A call that moves on keeps what it owns, unless it enters the error loop.
<1>c. ASSUME NEW r \in Runners, NEW pc \in AtWork \ {"errors"}, Goes(r, pc),
             status[x] = "syncing", crashes = 0, localFaults = 0
      PROVE  \E i \in Runners : Owns(i, x)'
  BY <1>b, <1>c DEF Goes, Owns, AtWork, TypeOK, Runner
\* A call that owns nothing of x may do as it likes.
<1>d. ASSUME NEW r \in Runners, ~Owns(r, x), \A i \in Runners \ {r} : runner'[i] = runner[i],
             status[x] = "syncing", crashes = 0, localFaults = 0
      PROVE  \E i \in Runners : Owns(i, x)'
  BY <1>b, <1>d DEF Owns
<1>e. ASSUME UNCHANGED <<status, runner, localFaults, crashes>>
      PROVE  \E r \in Runners : Owns(r, x)'
  BY <1>b, <1>e DEF Owns
<1>1. ASSUME NEW y \in Rows, EnqueueRow(y) \/ Purge(y)
      PROVE  \E r \in Runners : Owns(r, x)'
  BY <1>1, <1>b DEF EnqueueRow, Purge, LocalsUnchanged, Owns, TypeOK
<1>2. ASSUME NEW r \in Runners, StartSync(r) \/ SelectRows(r)
      PROVE  \E i \in Runners : Owns(i, x)'
  <2>1. ~Owns(r, x)
    BY <1>2 DEF StartSync, SelectRows, Owns, AtWork
  <2>2. UNCHANGED <<status, localFaults, crashes>>
    BY <1>2 DEF StartSync, SelectRows, LocalsUnchanged
  <2>3. \A i \in Runners \ {r} : runner'[i] = runner[i]
    BY <1>2 DEF StartSync, SelectRows, Goes, Returns, TypeOK
  <2> QED
    BY <1>d, <2>1, <2>2, <2>3
<1>3. ASSUME NEW r \in Runners, MarkSyncing(r) PROVE \E i \in Runners : Owns(i, x)'
  <2>1. /\ UNCHANGED <<localFaults, crashes>> /\ Goes(r, "marked")
        /\ status' = Updated(runner[r].batch, "syncing")
    BY <1>3 DEF MarkSyncing, LocalsUnchanged
  <2>2. CASE x \in runner[r].batch
    BY <2>1, <2>2 DEF Goes, Owns, AtWork, TypeOK, Runner
  <2>3. CASE x \notin runner[r].batch
    <3>1. status[x] = "syncing"
      BY <2>1, <2>3 DEF Updated
    <3> QED
      BY <2>1, <3>1, <1>c DEF AtWork
  <2> QED
    BY <2>2, <2>3
<1>4. ASSUME NEW r \in Runners,
             PostFails(r) \/ HandleConflict(r) \/ \E q \in Requests : Post(r, q) \/ GiveUp(r, q)
      PROVE  \E i \in Runners : Owns(i, x)'
  <2>1. UNCHANGED <<status, localFaults, crashes>>
    BY <1>4 DEF PostFails, HandleConflict, Post, GiveUp, LocalsUnchanged
  <2>2. Goes(r, "resetting") \/ Goes(r, "waiting")
    BY <1>4 DEF PostFails, HandleConflict, Post, GiveUp
  <2> QED
    BY <2>1, <2>2, <1>c DEF AtWork
<1>5. ASSUME NEW r \in Runners, MarkAccepted(r) PROVE \E i \in Runners : Owns(i, x)'
  <2> DEFINE a == runner[r].answer
  <2>1. /\ UNCHANGED <<localFaults, crashes>> /\ runner[r].pc = "accepting"
        /\ status' = Updated(a.accepted, "synced")
        /\ Goes(r, IF a.conflicts # {} THEN "conflicts" ELSE "errors")
    BY <1>5 DEF MarkAccepted, Confirmed, LocalsUnchanged
  <2>2. status[x] = "syncing" /\ x \notin a.accepted
    BY <2>1 DEF Updated
  <2>3. CASE a.conflicts # {}
    <3>1. Goes(r, "conflicts")
      BY <2>1, <2>3
    <3> QED
      BY <2>1, <2>2, <3>1, <1>c DEF AtWork
  <2>4. CASE a.conflicts = {}
    <3>1. Goes(r, "errors")
      BY <2>1, <2>4
    <3>2. x \in runner[r].batch => x \in a.errors
      BY <2>1, <2>2, <2>4 DEF BatchesAccounted, Covers
    <3>3. /\ runner'[r].pc = "errors" /\ runner'[r].batch = runner[r].batch
          /\ runner'[r].answer = a
          /\ \A i \in Runners \ {r} : runner'[i] = runner[i]
      BY <3>1 DEF Goes, TypeOK, Runner
    <3>4. PICK i \in Runners : Owns(i, x)
      BY <2>1, <2>2, <1>b
    <3>5. Owns(i, x)'
      BY <3>2, <3>3, <3>4 DEF Owns
    <3> QED
      BY <3>5
  <2> QED
    BY <2>3, <2>4
<1>6. ASSUME NEW r \in Runners, NEW y \in Rows, MarkError(r, y)
      PROVE  \E i \in Runners : Owns(i, x)'
  <2>1. /\ UNCHANGED <<localFaults, crashes>> /\ runner[r].pc = "errors"
        /\ status' = Updated({y}, "failed")
        /\ runner' = [runner EXCEPT ![r].answer.errors = @ \ {y}]
    BY <1>6 DEF MarkError, LocalsUnchanged
  <2>2. status[x] = "syncing" /\ x # y
    BY <2>1 DEF Updated
  <2>3. /\ runner'[r].pc = "errors" /\ runner'[r].batch = runner[r].batch
        /\ runner'[r].answer.errors = runner[r].answer.errors \ {y}
        /\ \A i \in Runners \ {r} : runner'[i] = runner[i]
    BY <2>1 DEF TypeOK, Runner, Answer
  <2>4. PICK i \in Runners : Owns(i, x)
    BY <2>1, <2>2, <1>b
  <2>5. Owns(i, x)'
    BY <2>1, <2>2, <2>3, <2>4 DEF Owns
  <2> QED
    BY <2>5
<1>7. ASSUME NEW r \in Runners, Finish(r) PROVE \E i \in Runners : Owns(i, x)'
  <2>1. ~Owns(r, x)
    BY <1>7 DEF Finish, Owns, AtWork
  <2>2. UNCHANGED <<status, localFaults, crashes>>
    BY <1>7 DEF Finish, LocalsUnchanged
  <2>3. \A i \in Runners \ {r} : runner'[i] = runner[i]
    BY <1>7 DEF Finish, Returns, TypeOK
  <2> QED
    BY <1>d, <2>1, <2>2, <2>3
<1>8. ASSUME NEW r \in Runners, ResetToPending(r) PROVE \E i \in Runners : Owns(i, x)'
  <2>1. /\ UNCHANGED <<localFaults, crashes>>
        /\ status' = Updated(runner[r].batch, "pending")
        /\ runner' = [runner EXCEPT ![r] = Idle]
    BY <1>8 DEF ResetToPending, RowsToReset, Returns, LocalsUnchanged
  <2>2. status[x] = "syncing" /\ x \notin runner[r].batch
    BY <2>1 DEF Updated
  <2>3. ~Owns(r, x) /\ \A i \in Runners \ {r} : runner'[i] = runner[i]
    BY <2>1, <2>2 DEF Owns, TypeOK
  <2> QED
    BY <1>d, <2>1, <2>2, <2>3
<1>9. ASSUME NEW r \in Runners, LocalFailure(r) \/ UpdateFails(r) PROVE FALSE
  BY <1>9, <1>a DEF LocalFailure, UpdateFails
<1>10. CASE AppCrash
  BY <1>10, <1>a DEF AppCrash
<1>11. ASSUME NEW q \in Requests, NEW y \in Rows, ApplyDelta(q, y) \/ ApplyFails(q, y)
       PROVE  \E r \in Runners : Owns(r, x)'
  BY <1>11, <1>e DEF ApplyDelta, ApplyFails
<1>12. ASSUME NEW q \in Requests, Reply(q) \/ ServerCrash(q)
       PROVE  \E r \in Runners : Owns(r, x)'
  <2>1. UNCHANGED <<status, localFaults, crashes>>
    BY <1>12 DEF Reply, ServerCrash
  <2>2. PICK i \in Runners : Owns(i, x)
    BY <2>1, <1>b
  <2>3. CASE request[q].waiter # i
    <3>1. runner'[i] = runner[i]
      BY <1>12, <2>3 DEF Reply, ServerCrash, TypeOK
    <3> QED
      BY <2>2, <3>1 DEF Owns
  <2>4. CASE request[q].waiter = i
    <3>1. runner'[i].batch = runner[i].batch /\ runner'[i].pc \in {"accepting", "resetting"}
      <4>1. request[q].waiter # Nobody
        BY <2>4, NobodyAssumption
      <4>2. CASE Reply(q)
        <5>1. runner' = [runner EXCEPT ![i].pc = "accepting", ![i].answer = request[q].answer]
          BY <2>4, <4>1, <4>2 DEF Reply
        <5> DEFINE k == [runner[i] EXCEPT !.pc = "accepting", !.answer = request[q].answer]
        <5>2. runner' = [runner EXCEPT ![i] = k]
          BY <5>1
        <5>3. k.batch = runner[i].batch /\ k.pc = "accepting"
          BY DEF TypeOK, Runner
        <5> HIDE DEF k
        <5> QED
          BY <5>2, <5>3 DEF TypeOK
      <4>3. CASE ServerCrash(q)
        BY <2>4, <4>1, <4>3 DEF ServerCrash, TypeOK, Runner
      <4> QED
        BY <1>12, <4>2, <4>3
    <3>2. Owns(i, x)'
      BY <2>2, <3>1 DEF Owns, AtWork
    <3> QED
      BY <3>2
  <2> QED
    BY <2>3, <2>4
<1>13. CASE UNCHANGED vars
  BY <1>13, <1>e DEF vars
<1> QED
  BY <1>1, <1>2, <1>3, <1>4, <1>5, <1>6, <1>7, <1>8, <1>9, <1>10, <1>11, <1>12, <1>13
  DEF Next, ClientSteps, ServerSteps, Faults

\* However two calls of syncNow interleave, whatever the network and the server
\* do, no row is left `syncing' with no call to settle it, as long as the app
\* is not killed and no local statement throws.
THEOREM NoRowStranded == Spec => []SyncingIsOwned
<1>1. Init => BatchesAccounted /\ RowsOwned
  BY DEF Init, BatchesAccounted, RowsOwned, Idle, Closed
<1>2. RowsOwned => SyncingIsOwned
  BY DEF RowsOwned, SyncingIsOwned, Owns, AtWork
<1> QED
  BY <1>1, <1>2, TypeInit, TypeNext, AccountedNext, OwnedNext, PTL DEF Spec
=============================================================================
