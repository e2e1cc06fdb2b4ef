---------------------------- MODULE MCReplication ----------------------------
(* Small instances of Replication for TLC. *)
EXTENDS Replication

ASSUME ScanCountsJumps ==
    \A numbers \in SUBSET (1..6) : BrokenSequences(numbers) = Cardinality(JumpsIn(numbers))
=============================================================================
