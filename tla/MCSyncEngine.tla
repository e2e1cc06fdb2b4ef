---------------------------- MODULE MCSyncEngine ----------------------------
(* Small instances of SyncEngine for TLC. *)
EXTENDS SyncEngine

CONSTANTS x1, x2, x3

MCSeqOf == [x \in Rows |-> CASE x = x1 -> 1 [] x = x2 -> 2 [] OTHER -> 3]

\* A conflict behind a good row: both in one batch, or in two.
MCMixed == [x \in Rows |-> IF x = x1 THEN "good" ELSE "conflict"]
\* One row the server never takes, ahead of one it takes.
MCPoison == [x \in Rows |-> IF x = x1 THEN "bad" ELSE "good"]
MCGood  == [x \in Rows |-> "good"]
\* A conflict ahead of a good row.
MCConflict == [x \in Rows |-> IF x = x1 THEN "conflict" ELSE "good"]
=============================================================================
