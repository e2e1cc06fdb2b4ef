----------------------------- MODULE AuditCheck -----------------------------
(***************************************************************************)
(* The audit tool of the server (cmd/audit_check): it groups the bill      *)
(* numbers of `sales' by prefix, sorts each group and counts the places    *)
(* where a number is not the successor of the one before.  It starts at    *)
(* whatever number comes first, so the first bills of a series may be      *)
(* missing, and the last ones, without its noticing.                       *)
(***************************************************************************)
EXTENDS Integers, Sequences, SequencesExt, FiniteSetsExt

\* One number of a sorted group: after an alarm the scan goes on from there.
ScanNext(scan, actual) ==
    [expected |-> actual + 1,
     breaks   |-> IF actual # scan.expected THEN scan.breaks + 1 ELSE scan.breaks]

\* brokenSequencesFound for one prefix.
Scan(sequences) ==
    IF sequences = <<>> THEN 0
    ELSE FoldLeft(ScanNext, [expected |-> Head(sequences), breaks |-> 0], sequences).breaks

\* sort.Ints on a group, which is a set: bill numbers are unique on the server.
Sorted(numbers) ==
    LET places == 1..Cardinality(numbers) IN
    CHOOSE s \in [places -> numbers] : \A i, j \in places : i < j => s[i] < s[j]

BrokenSequences(numbers) == Scan(Sorted(numbers))

\* What the tool counts is what it says: the numbers whose predecessor is
\* missing, the least one apart.
JumpsIn(numbers) ==
    {n \in numbers : n - 1 \notin numbers /\ \E m \in numbers : m < n}
=============================================================================
