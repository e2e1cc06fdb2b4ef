---------------------------- MODULE MCRedisQueue ----------------------------
(* The stock covers both lines once and the smaller one up to three times;  *)
(* a third payload does not decode.                                         *)
EXTENDS RedisQueue

CONSTANTS line, line2, broken

MCKind == [i \in Items |-> IF i = broken THEN "unreadable" ELSE "line"]
MCQty  == [i \in Items |-> IF i = line THEN 1 ELSE 2]
=============================================================================
