-------------------------- MODULE ReplicationProofs --------------------------
(***************************************************************************)
(* Theorems about Replication, for any number of terminals, products,      *)
(* suppliers, bills and orders, any batch size and any number of faults,   *)
(* and about the audit tool (AuditCheck) over any set of bill numbers.     *)
(***************************************************************************)
EXTENDS Replication, FiniteSums, SequenceTheorems

-----------------------------------------------------------------------------
(* The audit tool.  The fold over the sorted group is a recursive function on *)
(* sets of places; what it has counted up to a place is proved by taking the  *)
(* least place where it is wrong.                                             *)

LEMMA GreatestNumber ==
    ASSUME NEW m \in Nat, NEW K \in SUBSET (1..m), K # {}
    PROVE  \E k \in K : \A l \in K : l <= k
<1> DEFINE L == {m + 1 - k : k \in K}
<1>1. L \in SUBSET (1..m) /\ L # {}
  <2>1. \A k \in K : k \in 1..m
    OBVIOUS
  <2>2. \A k \in 1..m : m + 1 - k \in 1..m
    OBVIOUS
  <2> QED
    BY <2>1, <2>2
<1>2. PICK l \in L : \A n \in L : l <= n
  BY <1>1, LeastNumber
<1>3. PICK k \in K : l = m + 1 - k
  BY <1>2
<1>4. ASSUME NEW j \in K PROVE j <= k
  <2>1. m + 1 - j \in L
    OBVIOUS
  <2> QED
    BY <1>2, <1>3, <2>1
<1> QED
  BY <1>4

\* Any finite set of integers has a greatest member.
LEMMA GreatestMember ==
    ASSUME NEW S, IsFiniteSet(S), \A x \in S : x \in Int, S # {}
    PROVE  \E k \in S : \A l \in S : l <= k
<1> DEFINE B == {{x \in S : x >= k} : k \in S}
<1>1. B \in SUBSET (SUBSET S) /\ B # {}
  OBVIOUS
<1>2. PICK T \in B : \A U \in B : ~(U \subseteq T /\ U # T)
  <2> HIDE DEF B
  <2> QED
    BY <1>1, MinimalSet
<1>3. PICK k \in S : T = {x \in S : x >= k}
  BY <1>2
<1>4. ASSUME NEW l \in S, l > k PROVE FALSE
  <2> DEFINE U == {x \in S : x >= l}
  <2>1. U \in B /\ U \subseteq T
    BY <1>3, <1>4
  <2>2. k \in T /\ k \notin U
    BY <1>3, <1>4
  <2> QED
    BY <1>2, <2>1, <2>2
<1> QED
  BY <1>4

Increasing(s, n) == \A i, j \in 1..n : i < j => s[i] < s[j]

LEMMA SortedExists ==
    ASSUME NEW S, IsFiniteSet(S), \A x \in S : x \in Int
    PROVE  \E s \in [1..Cardinality(S) -> S] : Increasing(s, Cardinality(S))
<1> DEFINE B == {T \in SUBSET S :
                   ~ \E s \in [1..Cardinality(T) -> T] : Increasing(s, Cardinality(T))}
<1> SUFFICES ASSUME B # {} PROVE FALSE
  OBVIOUS
<1>1. B \in SUBSET (SUBSET S)
  OBVIOUS
<1>2. PICK T \in B : \A V \in B : ~(V \subseteq T /\ V # T)
  <2> HIDE DEF B
  <2> QED
    BY <1>1, MinimalSet
<1>3. IsFiniteSet(T) /\ Cardinality(T) \in Nat /\ \A x \in T : x \in Int
  BY FS_Subset, FS_CardinalityType
<1>4. CASE T = {}
  <2>1. Cardinality(T) = 0
    BY <1>4, FS_EmptySet
  <2> DEFINE s == [i \in 1..0 |-> 0]
  <2>2. s \in [1..0 -> T] /\ Increasing(s, 0)
    BY DEF Increasing
  <2> QED
    BY <1>2, <2>1, <2>2
<1>5. CASE T # {}
  <2>1. PICK k \in T : \A l \in T : l <= k
    BY <1>3, <1>5, GreatestMember
  <2> DEFINE R == T \ {k}
             n == Cardinality(R)
  <2>2. IsFiniteSet(R) /\ n \in Nat /\ Cardinality(T) = n + 1
    <3>1. IsFiniteSet(R) /\ Cardinality(R) = Cardinality(T) - 1
      BY <1>3, FS_RemoveElement
    <3>2. Cardinality(R) \in Nat
      BY <3>1, FS_CardinalityType
    <3> HIDE DEF R
    <3> QED
      BY <1>3, <3>1, <3>2
  <2>a. R \in SUBSET S /\ R \subseteq T /\ R # T
    OBVIOUS
  <2>b. R \notin B
    BY <1>2, <2>a
  <2>3. PICK s \in [1..n -> R] : Increasing(s, n)
    BY <2>a, <2>b
  <2> HIDE DEF n
  <2> DEFINE r == [i \in 1..(n + 1) |-> IF i = n + 1 THEN k ELSE s[i]]
  <2>4. /\ r[n + 1] = k
        /\ \A i \in 1..n : r[i] = s[i] /\ s[i] \in R /\ i \in 1..(n + 1)
    BY <2>2
  <2>5. r \in [1..(n + 1) -> T]
    BY <2>2
  <2>6. ASSUME NEW i \in 1..(n + 1), NEW j \in 1..(n + 1), i < j PROVE r[i] < r[j]
    <3>1. i \in 1..n
      BY <2>2, <2>6
    <3>2. CASE j = n + 1
      <4>1. r[i] \in T /\ r[i] # k /\ r[j] = k
        BY <2>4, <3>1, <3>2
      <4>2. r[i] \in Int /\ k \in Int /\ r[i] <= k
        BY <1>3, <2>1, <4>1
      <4> QED
        BY <4>1, <4>2
    <3>3. CASE j # n + 1
      <4>1. j \in 1..n
        BY <2>2, <3>3
      <4> QED
        BY <2>3, <2>4, <2>6, <3>1, <4>1 DEF Increasing
    <3> QED
      BY <3>2, <3>3
  <2>7. Increasing(r, n + 1)
    <3> HIDE DEF r
    <3> QED
      BY <2>6 DEF Increasing
  <2> HIDE DEF r
  <2> QED
    BY <1>2, <2>2, <2>5, <2>7
<1> QED
  BY <1>4, <1>5

\* The sorted group is the set in its order, each number once.
LEMMA SortedIs ==
    ASSUME NEW S, IsFiniteSet(S), \A x \in S : x \in Int
    PROVE  /\ Sorted(S) \in [1..Cardinality(S) -> S]
           /\ Increasing(Sorted(S), Cardinality(S))
           /\ \A x \in S : \E i \in 1..Cardinality(S) : Sorted(S)[i] = x
<1> DEFINE n == Cardinality(S)
<1>1. n \in Nat
  BY FS_CardinalityType
<1>2. Sorted(S) = CHOOSE s \in [1..n -> S] : Increasing(s, n)
  BY DEF Sorted, Increasing
<1>3. PICK s : s = Sorted(S)
  OBVIOUS
<1>4. s \in [1..n -> S] /\ Increasing(s, n)
  <2>1. \E r \in [1..n -> S] : Increasing(r, n)
    BY SortedExists
  <2> HIDE DEF n
  <2> QED
    BY <1>2, <1>3, <2>1
<1>5. ASSUME NEW i \in 1..n, NEW j \in 1..n, s[i] = s[j] PROVE i = j
  <2>1. s[i] \in Int /\ s[j] \in Int
    BY <1>4
  <2>2. ~(i < j) /\ ~(j < i)
    BY <1>4, <1>5, <2>1 DEF Increasing
  <2> QED
    BY <1>1, <2>2
<1>6. s \in Injection(1..n, S)
  BY <1>4, <1>5 DEF Injection, IsInjective
<1>7. Cardinality(1..n) = Cardinality(S)
  BY <1>1, FS_Interval
<1>8. s \in Surjection(1..n, S)
  <2> HIDE DEF n
  <2> QED
    BY <1>6, <1>7, FS_Injection
<1>9. \A x \in S : \E i \in 1..n : s[i] = x
  BY <1>8 DEF Surjection
<1> QED
  BY <1>3, <1>4, <1>9

\* g is the recursive function behind the scan of a group from b on.
Folds(g, b, seq, S) ==
    g = [T \in SUBSET S |-> IF T = {} THEN b ELSE ScanNext(g[T \ {Max(T)}], seq[Max(T)])]

LEMMA MaxOf ==
    ASSUME NEW m \in Nat, NEW T \in SUBSET (1..m), T # {}
    PROVE  Max(T) \in T /\ \A x \in T : x <= Max(T)
<1>1. PICK k \in T : \A x \in T : x <= k
  BY GreatestNumber
<1>2. \A x \in T : k >= x
  BY <1>1
<1> QED
  BY <1>2 DEF Max

Within(S, m) == \A x \in S : x \in 1..m
Agree(g, h, S, U) == \A T \in SUBSET S : T \subseteq U => g[T] = h[T]

LEMMA FoldsAgree ==
    ASSUME NEW b, NEW seq, NEW m \in Nat, NEW S, Within(S, m), NEW U,
           NEW g, NEW h, Folds(g, b, seq, S), Folds(h, b, seq, U)
    PROVE  Agree(g, h, S, U)
<1> USE DEF Within, Agree
<1> DEFINE B == {T \in SUBSET S : T \subseteq U /\ g[T] # h[T]}
<1> SUFFICES ASSUME B # {} PROVE FALSE
  OBVIOUS
<1>0. B \in SUBSET (SUBSET S)
  OBVIOUS
<1>a. IsFiniteSet(S)
  <2>1. IsFiniteSet(1..m) /\ S \subseteq 1..m
    BY FS_Interval
  <2> QED
    BY <2>1, FS_Subset
<1>1. PICK T \in B : \A V \in B : ~(V \subseteq T /\ V # T)
  <2> HIDE DEF B
  <2> QED
    BY <1>0, <1>a, MinimalSet
<1>2. CASE T = {}
  BY <1>1, <1>2 DEF Folds
<1>3. CASE T # {}
  <2>0. T \in SUBSET (1..m)
    BY <1>1
  <2>1. Max(T) \in T
    BY <1>3, <2>0, MaxOf
  <2>2. T \ {Max(T)} \notin B
    BY <1>1, <2>1
  <2>3. g[T \ {Max(T)}] = h[T \ {Max(T)}]
    BY <1>1, <2>2
  <2>4. /\ g[T] = ScanNext(g[T \ {Max(T)}], seq[Max(T)])
        /\ h[T] = ScanNext(h[T \ {Max(T)}], seq[Max(T)])
    BY <1>1, <1>3 DEF Folds
  <2> QED
    BY <1>1, <2>3, <2>4
<1> QED
  BY <1>2, <1>3

LEMMA FoldExists ==
    ASSUME NEW b, NEW seq, NEW m \in Nat
    PROVE  \E g : Folds(g, b, seq, 1..m)
<1> DEFINE S == 1..m
           B == {T \in SUBSET S : ~ \E g : Folds(g, b, seq, T)}
<1> SUFFICES ASSUME B # {} PROVE FALSE
  OBVIOUS
<1>0. B \in SUBSET (SUBSET S)
  OBVIOUS
<1>1. PICK T \in B : \A V \in B : ~(V \subseteq T /\ V # T)
  <2>1. IsFiniteSet(S)
    BY FS_Interval
  <2> HIDE DEF B, S
  <2> QED
    BY <1>0, <2>1, MinimalSet
<1> DEFINE G(W) == CHOOSE g : Folds(g, b, seq, W)
           R(W) == W \ {Max(W)}
           h == [V \in SUBSET T |-> IF V = {} THEN b ELSE ScanNext(G(R(V))[R(V)], seq[Max(V)])]
<1>2. ASSUME NEW W, W \subseteq T, W # T PROVE Folds(G(W), b, seq, W)
  <2>1. \E g : Folds(g, b, seq, W)
    BY <1>1, <1>2
  <2> QED
    BY <2>1
<1>3. ASSUME NEW W \in SUBSET T, W # {} PROVE Max(W) \in W /\ R(W) \in SUBSET T /\ R(W) # T
  BY <1>1, <1>3, MaxOf
<1>4. ASSUME NEW W \in SUBSET T, W # T PROVE h[W] = G(W)[W]
  <2>1. Folds(G(W), b, seq, W)
    BY <1>2, <1>4
  <2>2. CASE W = {}
    <3>1. h[W] = b
      BY <2>2
    <3> HIDE DEF G, h
    <3> QED
      BY <2>1, <2>2, <3>1 DEF Folds
  <2>3. CASE W # {}
    <3>1. Folds(G(R(W)), b, seq, R(W)) /\ R(W) \subseteq W
      BY <1>2, <1>3, <2>3
    <3>2. h[W] = ScanNext(G(R(W))[R(W)], seq[Max(W)])
      BY <2>3
    <3>3. G(W)[W] = ScanNext(G(W)[R(W)], seq[Max(W)])
      <4> HIDE DEF G, h
      <4> QED
        BY <2>1, <2>3 DEF Folds
    <3>4. G(R(W))[R(W)] = G(W)[R(W)]
      <4>1. R(W) \in SUBSET (1..m) /\ R(W) \in SUBSET R(W)
        BY <1>1
      <4>2. Within(R(W), m)
        BY <4>1 DEF Within
      <4> HIDE DEF G, R
      <4>3. Agree(G(R(W)), G(W), R(W), W)
        BY <2>1, <3>1, <4>2, FoldsAgree
      <4> QED
        BY <3>1, <4>1, <4>3 DEF Agree
    <3> HIDE DEF G, R, h
    <3> QED
      BY <3>2, <3>3, <3>4
  <2> QED
    BY <2>2, <2>3
<1>5. Folds(h, b, seq, T)
  <2> DEFINE hh == [V \in SUBSET T |-> IF V = {} THEN b ELSE ScanNext(h[R(V)], seq[Max(V)])]
  <2>1. ASSUME NEW V \in SUBSET T PROVE h[V] = hh[V]
    <3>1. CASE V = {}
      BY <3>1
    <3>2. CASE V # {}
      <4>1. h[V] = ScanNext(G(R(V))[R(V)], seq[Max(V)])
        BY <3>2
      <4>2. hh[V] = ScanNext(h[R(V)], seq[Max(V)])
        BY <3>2
      <4>3. R(V) \in SUBSET T /\ R(V) # T
        BY <1>3, <3>2
      <4> HIDE DEF G, R, h, hh
      <4> QED
        BY <1>4, <4>1, <4>2, <4>3
    <3> QED
      BY <3>1, <3>2
  <2>2. h = hh
    BY <2>1
  <2>3. h = [V \in SUBSET T |-> IF V = {} THEN b ELSE ScanNext(h[V \ {Max(V)}], seq[Max(V)])]
    <3> HIDE DEF h
    <3> QED
      BY <2>2
  <2> HIDE DEF h
  <2> QED
    BY <2>3 DEF Folds
<1> QED
  BY <1>1, <1>5

\* Where a number is not the successor of the one before.
Breaks(seq, k) == {i \in 2..k : seq[i] # seq[i - 1] + 1}

LEMMA BreaksNext ==
    ASSUME NEW k \in Nat \ {0}, NEW seq
    PROVE  /\ IsFiniteSet(Breaks(seq, k)) /\ Cardinality(Breaks(seq, k)) \in Nat
           /\ Breaks(seq, 1) = {} /\ Cardinality(Breaks(seq, 1)) = 0
           /\ k > 1 => Cardinality(Breaks(seq, k)) =
                 IF seq[k] # seq[k - 1] + 1 THEN Cardinality(Breaks(seq, k - 1)) + 1
                 ELSE Cardinality(Breaks(seq, k - 1))
<1>1. ASSUME NEW l \in Nat PROVE IsFiniteSet(Breaks(seq, l)) /\ Cardinality(Breaks(seq, l)) \in Nat
  <2>1. Breaks(seq, l) \in SUBSET (2..l) /\ IsFiniteSet(2..l)
    BY FS_Interval DEF Breaks
  <2> QED
    BY <2>1, FS_Subset, FS_CardinalityType
<1>2. Breaks(seq, 1) = {}
  BY DEF Breaks
<1>3. ASSUME k > 1
      PROVE  Cardinality(Breaks(seq, k)) =
                 IF seq[k] # seq[k - 1] + 1 THEN Cardinality(Breaks(seq, k - 1)) + 1
                 ELSE Cardinality(Breaks(seq, k - 1))
  <2>1. /\ k - 1 \in Nat /\ k \in 2..k /\ k \notin 2..(k - 1)
        /\ \A i \in 2..k : i = k \/ i \in 2..(k - 1)
        /\ \A i \in 2..(k - 1) : i \in 2..k
    BY <1>3
  <2>2. IsFiniteSet(Breaks(seq, k - 1)) /\ k \notin Breaks(seq, k - 1)
    BY <1>1, <2>1 DEF Breaks
  <2>3. CASE seq[k] # seq[k - 1] + 1
    <3>1. Breaks(seq, k) = Breaks(seq, k - 1) \cup {k}
      BY <2>1, <2>3 DEF Breaks
    <3> QED
      BY <2>2, <2>3, <3>1, FS_AddElement
  <2>4. CASE seq[k] = seq[k - 1] + 1
    <3>1. Breaks(seq, k) = Breaks(seq, k - 1)
      BY <2>1, <2>4 DEF Breaks
    <3> QED
      BY <2>4, <3>1
  <2> QED
    BY <2>3, <2>4
<1> QED
  BY <1>1, <1>2, <1>3, FS_EmptySet

LEMMA ScanCounts ==
    ASSUME NEW m \in Nat \ {0}, NEW seq \in [1..m -> Int]
    PROVE  Scan(seq) = Cardinality(Breaks(seq, m))
<1> DEFINE b == [expected |-> seq[1], breaks |-> 0]
           S == 1..m
           g == CHOOSE g : g = [T \in SUBSET S |-> IF T = {} THEN b
                                                   ELSE ScanNext(g[T \ {Max(T)}], seq[Max(T)])]
<1>1. seq \in Seq(Int) /\ Len(seq) = m /\ DOMAIN seq = S
  BY SeqDef, LenProperties
<1>2. seq # <<>> /\ Head(seq) = seq[1]
  BY <1>1, EmptySeq, HeadTailProperties
<1>3. Scan(seq) = g[S].breaks
  <2>1. FoldLeft(ScanNext, b, seq) = g[S]
    <3>1. DOMAIN seq = S
      OBVIOUS
    <3> HIDE DEF b, S
    <3> QED
      BY <3>1 DEF FoldLeft, MapThenFoldSet
  <2> QED
    BY <1>2, <2>1 DEF Scan
<1>4. Folds(g, b, seq, S)
  <2> HIDE DEF b
  <2>1. \E f : Folds(f, b, seq, S)
    BY FoldExists
  <2> QED
    BY <2>1 DEF Folds
<1>5. b.expected = seq[1] /\ b.breaks = 0
  OBVIOUS
<1> HIDE DEF g, b
<1> DEFINE Count(k) == Cardinality(Breaks(seq, k))
           K == {k \in 1..m : g[1..k] # [expected |-> seq[k] + 1, breaks |-> Count(k)]}
<1>6. K = {}
  <2> SUFFICES ASSUME K # {} PROVE FALSE
    OBVIOUS
  <2>1. PICK k \in K : \A l \in K : k <= l
    BY LeastNumber
  <2>2. k \in 1..m /\ 1..k \in SUBSET S /\ 1..k # {}
    <3>1. k \in 1..m /\ 1 \in 1..k
      OBVIOUS
    <3>2. \A x \in 1..k : x \in S
      BY <3>1
    <3> QED
      BY <3>1, <3>2
  <2>3. Max(1..k) = k
    <3>1. Max(1..k) \in 1..k /\ \A x \in 1..k : x <= Max(1..k)
      BY <2>2, MaxOf
    <3> QED
      BY <2>2, <3>1
  <2>4. \A T \in SUBSET S : T # {} => g[T] = ScanNext(g[T \ {Max(T)}], seq[Max(T)])
    BY <1>4 DEF Folds
  <2>5. (1..k) \ {k} = 1..(k - 1)
    BY <2>2
  <2>6. g[1..k] # [expected |-> seq[k] + 1, breaks |-> Count(k)]
    OBVIOUS
  <2>7. k = 1 \/ (k - 1 \in 1..m /\ k - 1 \notin K)
    BY <2>1
  <2> HIDE DEF S, Count
  <2>8. g[1..k] = ScanNext(g[1..(k - 1)], seq[k])
    <3> HIDE DEF K
    <3> QED
      BY <2>2, <2>3, <2>4, <2>5
  <2>9. CASE k = 1
    <3>1. g[1..(k - 1)] = b
      <4>1. 1..(k - 1) = {} /\ {} \in SUBSET S
        BY <2>9
      <4> QED
        BY <1>4, <4>1 DEF Folds
    <3>2. ScanNext(b, seq[1]) = [expected |-> seq[1] + 1, breaks |-> 0]
      BY <1>5 DEF ScanNext
    <3>3. Count(1) = 0
      BY BreaksNext DEF Count
    <3> QED
      BY <2>6, <2>8, <2>9, <3>1, <3>2, <3>3
  <2>10. CASE k # 1
    <3>1. k - 1 \in 1..m /\ g[1..(k - 1)] = [expected |-> (seq[k - 1]) + 1, breaks |-> Count(k - 1)]
      BY <2>7, <2>10
    <3>2. g[1..k] = [expected |-> seq[k] + 1,
                     breaks   |-> IF seq[k] # seq[k - 1] + 1 THEN Count(k - 1) + 1 ELSE Count(k - 1)]
      BY <2>8, <3>1 DEF ScanNext
    <3>3. Count(k) = IF seq[k] # seq[k - 1] + 1 THEN Count(k - 1) + 1 ELSE Count(k - 1)
      <4>1. k \in Nat \ {0} /\ k > 1
        BY <2>2, <2>10
      <4> QED
        BY <4>1, BreaksNext DEF Count
    <3> QED
      BY <2>6, <3>2, <3>3
  <2> QED
    BY <2>9, <2>10
<1>7. g[S] = [expected |-> seq[m] + 1, breaks |-> Count(m)]
  <2>1. m \in 1..m
    OBVIOUS
  <2>2. m \notin K
    <3> HIDE DEF K
    <3> QED
      BY <1>6
  <2> HIDE DEF Count
  <2> QED
    BY <2>1, <2>2
<1> QED
  BY <1>3, <1>7

\* The scan of the audit tool, with its running `expected', counts what it is
\* meant to: the numbers whose predecessor is missing, but for the first.
THEOREM AuditCountsJumps ==
    ASSUME NEW S, IsFiniteSet(S), \A x \in S : x \in Int
    PROVE  BrokenSequences(S) = Cardinality(JumpsIn(S))
<1> DEFINE n == Cardinality(S)
<1>1. n \in Nat
  BY FS_CardinalityType
<1>2. PICK s : s = Sorted(S)
  OBVIOUS
<1>3. /\ s \in [1..n -> S] /\ Increasing(s, n)
      /\ \A x \in S : \E i \in 1..n : s[i] = x
  BY <1>2, SortedIs
<1>4. CASE n = 0
  <2>1. S = {} /\ JumpsIn(S) = {}
    BY <1>4, FS_EmptySet DEF JumpsIn
  <2>2. s = <<>>
    <3>1. s \in [1..0 -> Int]
      BY <1>3, <1>4, <2>1
    <3>2. s \in Seq(Int)
      BY <3>1, SeqDef
    <3>3. Len(s) = 0
      BY <3>1, <3>2, LenProperties
    <3> QED
      BY <3>2, <3>3, EmptySeq
  <2> QED
    BY <1>2, <2>1, <2>2, FS_EmptySet DEF BrokenSequences, Scan
<1>5. CASE n # 0
  <2> HIDE DEF n
  <2>1. n \in Nat \ {0} /\ s \in [1..n -> Int]
    BY <1>1, <1>3, <1>5
  <2>2. BrokenSequences(S) = Cardinality(Breaks(s, n))
    BY <1>2, <2>1, ScanCounts DEF BrokenSequences
  <2> DEFINE f == [i \in Breaks(s, n) |-> s[i]]
  <2>3. ASSUME NEW i \in 1..n, NEW j \in 1..n, s[i] <= s[j] PROVE i <= j
    <3>1. s[i] \in Int /\ s[j] \in Int
      BY <2>1
    <3> QED
      BY <1>1, <1>3, <2>3, <3>1 DEF Increasing
  <2>4. ASSUME NEW i \in 2..n
        PROVE  /\ i \in 1..n /\ i - 1 \in 1..n /\ s[i - 1] < s[i]
               /\ s[i] \in S /\ s[i] \in Int /\ s[i - 1] \in S /\ s[i - 1] \in Int
    <3>1. i \in 1..n /\ i - 1 \in 1..n /\ i - 1 < i
      BY <1>1
    <3> QED
      BY <1>3, <2>1, <3>1 DEF Increasing
  <2>5. ASSUME NEW i \in Breaks(s, n) PROVE s[i] \in JumpsIn(S)
    <3>1. i \in 2..n /\ s[i] # s[i - 1] + 1
      BY DEF Breaks
    <3>2. ASSUME s[i] - 1 \in S PROVE FALSE
      <4>1. PICK j \in 1..n : s[j] = s[i] - 1
        BY <1>3, <3>2
      <4>2. s[j] <= s[i] /\ s[j] # s[i]
        BY <2>4, <3>1, <4>1
      <4>3. j <= i - 1
        BY <2>3, <2>4, <3>1, <4>2
      <4>4. s[j] <= s[i - 1]
        <5>1. CASE j = i - 1
          BY <2>4, <3>1, <5>1
        <5>2. CASE j < i - 1
          <6>1. s[j] < s[i - 1]
            BY <1>3, <2>4, <3>1, <5>2 DEF Increasing
          <6> QED
            BY <2>1, <2>4, <3>1, <6>1
        <5> QED
          BY <2>4, <3>1, <4>3, <5>1, <5>2
      <4> QED
        BY <2>4, <3>1, <4>1, <4>4
    <3> QED
      BY <2>4, <3>1, <3>2 DEF JumpsIn
  <2>6. ASSUME NEW x \in JumpsIn(S) PROVE \E i \in Breaks(s, n) : s[i] = x
    <3>1. x \in S /\ x - 1 \notin S /\ x \in Int
      BY DEF JumpsIn
    <3>2. PICK y \in S : y < x
      BY DEF JumpsIn
    <3>3. PICK i \in 1..n : s[i] = x
      BY <1>3, <3>1
    <3>4. PICK j \in 1..n : s[j] = y
      BY <1>3
    <3>5. ~(i <= j) /\ i \in 2..n
      <4>1. ~(i < j) /\ i # j
        <5>1. y \in Int
          OBVIOUS
        <5> QED
          BY <1>3, <3>1, <3>2, <3>3, <3>4, <5>1 DEF Increasing
      <4> QED
        BY <1>1, <4>1
    <3>6. s[i] # s[i - 1] + 1
      BY <2>4, <3>1, <3>3, <3>5
    <3> QED
      BY <3>3, <3>5, <3>6 DEF Breaks
  <2>7. f \in Bijection(Breaks(s, n), JumpsIn(S))
    <3>1. f \in [Breaks(s, n) -> JumpsIn(S)]
      BY <2>5
    <3>2. ASSUME NEW i \in Breaks(s, n), NEW j \in Breaks(s, n), f[i] = f[j] PROVE i = j
      <4>1. i \in 2..n /\ j \in 2..n /\ s[i] = s[j]
        BY <3>2 DEF Breaks
      <4>2. s[i] <= s[j] /\ s[j] <= s[i]
        BY <2>4, <4>1
      <4>3. i <= j /\ j <= i
        BY <2>3, <2>4, <4>1, <4>2
      <4> QED
        BY <4>1, <4>3
    <3>3. \A x \in JumpsIn(S) : \E i \in Breaks(s, n) : f[i] = x
      BY <2>6
    <3> QED
      BY <3>1, <3>2, <3>3 DEF Bijection, Injection, Surjection, IsInjective
  <2>8. IsFiniteSet(Breaks(s, n))
    BY <2>1, BreaksNext
  <2> HIDE DEF f
  <2>9. Cardinality(JumpsIn(S)) = Cardinality(Breaks(s, n))
    BY <2>7, <2>8, FS_Bijection DEF ExistsBijection
  <2> QED
    BY <2>2, <2>9
<1> QED
  BY <1>4, <1>5

\* It has nothing to report on numbers that lack no predecessor.
LEMMA GaplessPasses ==
    ASSUME NEW m \in Nat, NEW S \in SUBSET (1..m), \A n \in S : n > 1 => n - 1 \in S
    PROVE  BrokenSequences(S) = 0 /\ (S # {} => 1 \in S)
<1> DEFINE I == 1..m
<1>a. IsFiniteSet(I) /\ S \in SUBSET I
  BY FS_Interval
<1>b. \A x \in S : x \in Int /\ ~(x < 1)
  OBVIOUS
<1>1. IsFiniteSet(S)
  <2> HIDE DEF I
  <2> QED
    BY <1>a, FS_Subset
<1>2. JumpsIn(S) = {}
  <2> SUFFICES ASSUME NEW x \in JumpsIn(S) PROVE FALSE
    OBVIOUS
  <2>1. x \in S /\ x - 1 \notin S
    BY DEF JumpsIn
  <2>2. PICK y \in S : y < x
    BY DEF JumpsIn
  <2>3. ~(x > 1)
    BY <2>1
  <2> QED
    BY <1>b, <2>1, <2>2, <2>3
<1>3. BrokenSequences(S) = 0
  BY <1>1, <1>b, <1>2, AuditCountsJumps, FS_EmptySet
<1>4. ASSUME S # {} PROVE 1 \in S
  <2>1. PICK k \in S : \A l \in S : k <= l
    BY <1>4, LeastNumber
  <2>2. ~(k > 1)
    BY <2>1
  <2>3. k = 1
    BY <2>1, <2>2
  <2> QED
    BY <2>1, <2>3
<1> QED
  BY <1>3, <1>4

-----------------------------------------------------------------------------
(* The inductive invariant.  The audit holds because every terminal numbers   *)
(* its bills one after the other and has them answered in the order of its    *)
(* outbox: what is refused for its number was there before.                   *)

\* The rows the server can take for a bill: those of completeSale.
Full(row) ==
    /\ row.table = "sales"
    /\ row.times = "zoned"
    /\ UuidColumns.sales \subseteq row.uuids

\* A bill has one instant of its own, and a number no greater than that.
BillsDated ==
    /\ \A s \in SaleIds : bills[s].at <= clock
    /\ \A s \in SaleIds : bills[s].status = "absent" => bills[s].by = NoOne
    /\ \A s \in SaleIds : bills[s].status # "absent" =>
          bills[s].by \in Terminals /\ bills[s].number.seq \in 1..bills[s].at
    /\ \A s, r \in SaleIds :
          bills[s].status # "absent" /\ bills[r].status # "absent" /\ bills[s].at = bills[r].at
             => s = r

\* A row tells of records that exist, and a full one of its bill as issued.
Sound(row) ==
    /\ row.at <= clock
    /\ row.table \in {"sales", "sale_items"} => row.rec \in SaleIds
    /\ row.table = "products" => row.rec \in Products
    /\ row.table = "suppliers" => row.rec \in Suppliers
    /\ row.table = "purchase_orders" => row.rec \in OrderIds
    /\ Full(row) =>
          /\ bills[row.rec].status # "absent"
          /\ row.number = bills[row.rec].number
          /\ row.number.series = "B1" /\ row.status = "completed"

RowsSound == \A t \in Terminals : \A i \in DOMAIN outbox[t] : Sound(outbox[t][i])

\* The server has no bill but those of completeSale, each under its number.
ServerFaithful ==
    \A s \in SaleIds :
       /\ db.bills[s].status = "absent" => db.bills[s].number = NoNumber
       /\ db.bills[s].status # "absent" =>
             /\ bills[s].status # "absent"
             /\ db.bills[s].number = bills[s].number
             /\ bills[s].number.series = "B1"

\* What it means on the server that a row has been taken.
Took(row) ==
    /\ row.table = "sales" =>
          db.bills[row.rec].status # "absent" /\ db.bills[row.rec].at >= row.at
    /\ row.table = "sale_items" => row.rec \in db.lines
    /\ row.table = "purchase_orders" => row.rec \in db.orders
    /\ row.table = "suppliers" => db.supplierAt[row.rec] >= row.at

Answered(t) == call[t].accepted \cup call[t].conflicts \cup call[t].errors

\* A batch leaves no row out before one it has.
CallsInOrder ==
    \A t \in Terminals :
       /\ call[t].batch \subseteq DOMAIN outbox[t]
       /\ Answered(t) \subseteq call[t].batch
       /\ \A i \in call[t].batch : \A j \in DOMAIN outbox[t] :
             j < i => j \in call[t].batch \/ outbox[t][j].mark = "synced"

AcceptedTook ==
    \A t \in Terminals : \A i \in DOMAIN outbox[t] :
       i \in call[t].accepted \/ outbox[t][i].mark = "synced" => Took(outbox[t][i])

\* Taken or refused, the number of a full row is on the server.
NumbersThere ==
    \A t \in Terminals : \A i \in DOMAIN outbox[t] :
       Full(outbox[t][i]) /\ (i \in Answered(t) \/ outbox[t][i].mark = "synced") =>
          outbox[t][i].number.seq \in B1Numbers

Predecessors ==
    \A t \in Terminals : \A i \in DOMAIN outbox[t] :
       Full(outbox[t][i]) /\ outbox[t][i].number.seq > 1 =>
          \E j \in DOMAIN outbox[t] :
             /\ j < i /\ Full(outbox[t][j])
             /\ outbox[t][j].number.seq = outbox[t][i].number.seq - 1

BillRows ==
    \A s \in SaleIds, t \in Terminals :
       bills[s].by = t /\ bills[s].number.series = "B1" =>
          \E i \in DOMAIN outbox[t] :
             Full(outbox[t][i]) /\ outbox[t][i].number = bills[s].number

Gapless == \A n \in B1Numbers : n \in 1..MaxClock /\ (n > 1 => n - 1 \in B1Numbers)

\* What rests on the rows, and is kept by whatever leaves the rows alone.
RowsInv == RowsSound /\ AcceptedTook /\ NumbersThere /\ Predecessors

IInv == TypeOK /\ BillsDated /\ RowsInv /\ ServerFaithful /\ CallsInOrder /\ BillRows /\ Gapless

-----------------------------------------------------------------------------
(* Local operations *)

LEMMA TableTyped ==
    /\ Tables = {"sales", "sale_items", "products", "suppliers", "purchase_orders", "audit_trail"}
    /\ \A table \in Tables : UuidColumns[table] \subseteq Columns
    /\ UuidColumns.sales = {"id", "staff_id", "device_id"}
    /\ {"id", "staff_id", "device_id", "sale_id", "product_id", "unit_id", "supplier_id"}
          \subseteq Columns
<1>1. /\ Tables = {"sales", "sale_items", "products", "suppliers", "purchase_orders", "audit_trail"}
      /\ UuidColumns.sales = {"id", "staff_id", "device_id"}
      /\ UuidColumns.sale_items = {"id", "sale_id", "product_id", "unit_id"}
      /\ UuidColumns.purchase_orders = {"id", "supplier_id", "staff_id", "device_id"}
  BY DEF Tables, UuidColumns
<1>2. \A table \in Tables : UuidColumns[table] \subseteq Columns
  BY DEF Columns
<1> QED
  BY <1>1, <1>2

LEMMA NowTyped ==
    ASSUME TypeOK, clock < MaxClock
    PROVE  Now \in 1..MaxClock /\ clock \in Nat /\ clock < Now
  BY BoundsAssumption DEF TypeOK, Now

LEMMA PayloadTyped ==
    ASSUME NEW table \in Tables, NEW rec \in Records, NEW uuids \in SUBSET Columns,
           NEW at \in 0..MaxClock
    PROVE  /\ Payload(table, rec, uuids, at) \in Row
           /\ Payload(table, rec, uuids, at).table = table
           /\ Payload(table, rec, uuids, at).rec = rec
           /\ Payload(table, rec, uuids, at).uuids = uuids
           /\ Payload(table, rec, uuids, at).at = at
           /\ Payload(table, rec, uuids, at).mark = "pending"
<1>1. NoNumber \in Number
  BY BoundsAssumption DEF NoNumber, Number
<1> QED
  BY <1>1 DEF Payload, Row

LEMMA NextNumberIs ==
    ASSUME TypeOK, BillsDated, clock < MaxClock, NEW t \in Terminals
    PROVE  /\ NextNumber(t) \in Number /\ NextNumber(t).series = "B1"
           /\ NextNumber(t).seq \in 1..Now
           /\ NextNumber(t).seq > 1 =>
                 \E s \in SaleIds : /\ bills[s].by = t /\ bills[s].number.series = "B1"
                                    /\ NextNumber(t).seq - 1 = bills[s].number.seq
<1> DEFINE last == CHOOSE s \in LastBills(t) : TRUE
<1>1. Now \in 1..MaxClock /\ clock \in Nat /\ Now = clock + 1
  BY NowTyped DEF Now
<1>2. CASE LastBills(t) # {}
  <2>1. last \in LastBills(t)
    BY <1>2
  <2> HIDE DEF last
  <2>2. /\ last \in SaleIds /\ bills[last].by = t /\ bills[last].number.series = "B1"
        /\ bills[last].status # "absent"
    BY <2>1, LabelAssumption DEF LastBills, YearsBills, BillsDated
  <2>3. bills[last].number.seq \in 1..clock
    BY <1>1, <2>2 DEF BillsDated, TypeOK, Bill
  <2>4. NextNumber(t) = [series |-> "B1", seq |-> 1 + bills[last].number.seq]
    BY <1>2 DEF NextNumber, last
  <2>5. PICK n \in 1..clock : n = bills[last].number.seq
    BY <2>3
  <2>6. 1 + n \in 0..MaxClock /\ 1 + n \in 1..Now /\ (1 + n) - 1 = n
    BY <1>1, BoundsAssumption
  <2>7. NextNumber(t) = [series |-> "B1", seq |-> 1 + n]
    BY <2>4, <2>5
  <2>8. NextNumber(t) \in Number /\ NextNumber(t).seq = 1 + n /\ NextNumber(t).series = "B1"
    BY <2>6, <2>7 DEF Number
  <2> QED
    BY <2>2, <2>5, <2>6, <2>8
<1>3. CASE LastBills(t) = {}
  <2>1. NextNumber(t) = [series |-> "B1", seq |-> 1]
    BY <1>3 DEF NextNumber
  <2>2. 1 \in 0..MaxClock /\ 1 \in 1..Now /\ ~(1 > 1)
    BY <1>1, BoundsAssumption
  <2> QED
    BY <2>1, <2>2 DEF Number
<1> QED
  BY <1>2, <1>3

\* What enqueueing rows does to an outbox.
LEMMA Enqueued ==
    ASSUME TypeOK, NEW t \in Terminals, NEW rows \in Seq(Row), Operation(t, rows)
    PROVE  /\ clock < MaxClock /\ clock' = Now
           /\ call' = call /\ db' = db /\ faults' = faults
           /\ outbox' \in [Terminals -> Seq(Row)]
           /\ \A u \in Terminals \ {t} : outbox'[u] = outbox[u]
           /\ \A i \in DOMAIN outbox[t] : i \in DOMAIN outbox'[t] /\ outbox'[t][i] = outbox[t][i]
           /\ \A i \in DOMAIN outbox'[t] :
                 \/ i \in DOMAIN outbox[t]
                 \/ /\ \A j \in DOMAIN outbox[t] : j < i
                    /\ \E k \in DOMAIN rows : outbox'[t][i] = rows[k]
           /\ \A k \in DOMAIN rows : \E i \in DOMAIN outbox'[t] : outbox'[t][i] = rows[k]
<1> DEFINE old == outbox[t]
           new == outbox[t] \o rows
<1>1. /\ clock < MaxClock /\ clock' = Now /\ call' = call /\ db' = db /\ faults' = faults
      /\ outbox' = [outbox EXCEPT ![t] = new]
  BY DEF Operation
<1>2. old \in Seq(Row) /\ outbox \in [Terminals -> Seq(Row)]
  BY DEF TypeOK
<1>3. /\ new \in Seq(Row) /\ Len(new) = Len(old) + Len(rows)
      /\ \A i \in 1..Len(old) + Len(rows) :
            new[i] = IF i <= Len(old) THEN old[i] ELSE rows[i - Len(old)]
  BY <1>2, ConcatProperties
<1>4. /\ Len(old) \in Nat /\ Len(rows) \in Nat
      /\ DOMAIN old = 1..Len(old) /\ DOMAIN rows = 1..Len(rows)
      /\ DOMAIN new = 1..Len(new)
  BY <1>2, <1>3, LenProperties
<1> HIDE DEF old, new
<1>5. \A i \in DOMAIN old : i \in DOMAIN new /\ new[i] = old[i]
  BY <1>3, <1>4
<1>6. ASSUME NEW i \in DOMAIN new, i \notin DOMAIN old
      PROVE  (\A j \in DOMAIN old : j < i) /\ \E k \in DOMAIN rows : new[i] = rows[k]
  <2>1. /\ i \in 1..Len(old) + Len(rows) /\ ~(i <= Len(old))
        /\ i - Len(old) \in DOMAIN rows /\ \A j \in DOMAIN old : j < i
    BY <1>3, <1>4, <1>6
  <2>2. new[i] = rows[i - Len(old)]
    BY <1>3, <2>1
  <2> QED
    BY <2>1, <2>2
<1>7. ASSUME NEW k \in DOMAIN rows PROVE \E i \in DOMAIN new : new[i] = rows[k]
  <2>1. /\ Len(old) + k \in 1..Len(old) + Len(rows) /\ Len(old) + k \in DOMAIN new
        /\ ~(Len(old) + k <= Len(old)) /\ (Len(old) + k) - Len(old) = k
    BY <1>3, <1>4
  <2>2. new[Len(old) + k] = rows[k]
    BY <1>3, <2>1
  <2> QED
    BY <2>1, <2>2
<1>8. outbox'[t] = new /\ \A u \in Terminals \ {t} : outbox'[u] = outbox[u]
  BY <1>1, <1>2
<1>9. outbox' \in [Terminals -> Seq(Row)]
  BY <1>1, <1>2, <1>3
<1> QED
  BY <1>1, <1>5, <1>6, <1>7, <1>8, <1>9 DEF old

\* Bills change in what a row or the server does not hold against them.
BillsGrow ==
    \A s \in SaleIds : bills[s].status # "absent" =>
       /\ bills'[s].status # "absent"
       /\ bills'[s].number = bills[s].number /\ bills'[s].by = bills[s].by

LEMMA RowsKept ==
    ASSUME IInv, NEW t \in Terminals, NEW rows \in Seq(Row), Operation(t, rows), BillsGrow,
           \A k \in DOMAIN rows : Sound(rows[k])' /\ rows[k].mark = "pending",
           \A k \in DOMAIN rows : Full(rows[k]) /\ rows[k].number.seq > 1 =>
              \E j \in DOMAIN outbox[t] :
                 Full(outbox[t][j]) /\ outbox[t][j].number.seq = rows[k].number.seq - 1
    PROVE  RowsInv' /\ ServerFaithful' /\ CallsInOrder' /\ Gapless'
<1>a. TypeOK /\ clock \in Nat
  BY DEF IInv, TypeOK
<1>1. /\ clock < MaxClock /\ clock' = Now
      /\ call' = call /\ db' = db
      /\ \A u \in Terminals \ {t} : outbox'[u] = outbox[u]
      /\ \A i \in DOMAIN outbox[t] : i \in DOMAIN outbox'[t] /\ outbox'[t][i] = outbox[t][i]
      /\ \A i \in DOMAIN outbox'[t] :
            \/ i \in DOMAIN outbox[t]
            \/ /\ \A j \in DOMAIN outbox[t] : j < i
               /\ \E k \in DOMAIN rows : outbox'[t][i] = rows[k]
  BY <1>a, Enqueued
<1>2. ASSUME NEW u \in Terminals, NEW i \in DOMAIN outbox[u]
      PROVE  i \in DOMAIN outbox'[u] /\ outbox'[u][i] = outbox[u][i]
  BY <1>1
<1>3. ASSUME NEW u \in Terminals, NEW i \in DOMAIN outbox'[u]
      PROVE  \/ i \in DOMAIN outbox[u] /\ outbox'[u][i] = outbox[u][i]
             \/ /\ u = t /\ i \notin DOMAIN outbox[t]
                /\ \A j \in DOMAIN outbox[t] : j < i
                /\ \E k \in DOMAIN rows : outbox'[t][i] = rows[k]
  BY <1>1
<1>4. ASSUME NEW row, row.at \in Int, Sound(row) PROVE Sound(row)'
  <2>1. row.at <= clock'
    BY <1>a, <1>1, <1>4 DEF Sound, Now
  <2>2. Full(row) => row.rec \in SaleIds
    BY <1>4 DEF Sound, Full
  <2> QED
    BY <1>4, <2>1, <2>2 DEF Sound, BillsGrow
<1>5. \A u \in Terminals : \A i \in DOMAIN outbox[u] : outbox[u][i] \in Row /\ outbox[u][i].at \in Int
  <2>1. ASSUME NEW u \in Terminals, NEW i \in DOMAIN outbox[u]
        PROVE  outbox[u][i] \in Row /\ outbox[u][i].at \in Int
    <3>1. outbox[u] \in Seq(Row)
      BY <1>a DEF TypeOK
    <3>2. outbox[u][i] \in Row
      BY <3>1, ElementOfSeq, LenProperties
    <3>3. \A x \in 0..MaxClock : x \in Int
      BY BoundsAssumption
    <3> QED
      BY <3>2, <3>3 DEF Row
  <2> QED
    BY <2>1
<1>b. ASSUME NEW u \in Terminals, NEW i \in DOMAIN outbox[u]
      PROVE  /\ Sound(outbox[u][i])
             /\ i \in call[u].accepted \/ outbox[u][i].mark = "synced" => Took(outbox[u][i])
             /\ Full(outbox[u][i]) /\ (i \in Answered(u) \/ outbox[u][i].mark = "synced") =>
                   outbox[u][i].number.seq \in B1Numbers
             /\ Full(outbox[u][i]) /\ outbox[u][i].number.seq > 1 =>
                   \E j \in DOMAIN outbox[u] :
                      /\ j < i /\ Full(outbox[u][j])
                      /\ outbox[u][j].number.seq = outbox[u][i].number.seq - 1
  BY DEF IInv, RowsInv, RowsSound, AcceptedTook, NumbersThere, Predecessors
<1>c. \A u \in Terminals : /\ call[u].batch \subseteq DOMAIN outbox[u]
                           /\ Answered(u) \subseteq call[u].batch
                           /\ call[u].accepted \subseteq Answered(u)
  BY DEF IInv, CallsInOrder, Answered
<1>6. RowsSound'
  <2> SUFFICES ASSUME NEW u \in Terminals, NEW i \in DOMAIN outbox'[u], NEW row,
                      row = outbox'[u][i]
               PROVE  Sound(row)'
    BY DEF RowsSound, Sound, Full
  <2>1. CASE i \in DOMAIN outbox[u] /\ outbox'[u][i] = outbox[u][i]
    BY <1>4, <1>5, <1>b, <2>1
  <2>2. CASE \E k \in DOMAIN rows : outbox'[u][i] = rows[k]
    BY <2>2
  <2> QED
    BY <1>3, <2>1, <2>2
<1>7. AcceptedTook'
  <2> SUFFICES ASSUME NEW u \in Terminals, NEW i \in DOMAIN outbox'[u], NEW row,
                      row = outbox'[u][i], i \in call[u].accepted \/ row.mark = "synced"
               PROVE  Took(row)
    BY <1>1 DEF AcceptedTook, Took
  <2>1. CASE i \in DOMAIN outbox[u] /\ outbox'[u][i] = outbox[u][i]
    BY <1>b, <2>1
  <2>2. CASE u = t /\ i \notin DOMAIN outbox[t] /\ \E k \in DOMAIN rows : outbox'[t][i] = rows[k]
    BY <1>c, <2>2
  <2> QED
    BY <1>3, <2>1, <2>2
<1>8. NumbersThere'
  <2> SUFFICES ASSUME NEW u \in Terminals, NEW i \in DOMAIN outbox'[u], NEW row,
                      row = outbox'[u][i], Full(row),
                      i \in Answered(u) \/ row.mark = "synced"
               PROVE  row.number.seq \in B1Numbers
    <3>1. B1Numbers' = B1Numbers /\ \A u \in Terminals : Answered(u)' = Answered(u)
      BY <1>1 DEF Answered, B1Numbers
    <3> QED
      BY <1>1, <3>1 DEF NumbersThere
  <2>1. CASE i \in DOMAIN outbox[u] /\ outbox'[u][i] = outbox[u][i]
    BY <1>b, <2>1
  <2>2. CASE u = t /\ i \notin DOMAIN outbox[t] /\ \E k \in DOMAIN rows : outbox'[t][i] = rows[k]
    BY <1>c, <2>2
  <2> QED
    BY <1>3, <2>1, <2>2
<1>9. Predecessors'
  <2> SUFFICES ASSUME NEW u \in Terminals, NEW i \in DOMAIN outbox'[u], NEW row,
                      row = outbox'[u][i], Full(row), row.number.seq > 1
               PROVE  \E j \in DOMAIN outbox'[u] :
                         /\ j < i /\ Full(outbox'[u][j])
                         /\ outbox'[u][j].number.seq = row.number.seq - 1
    BY DEF Predecessors, Full
  <2>1. CASE i \in DOMAIN outbox[u] /\ outbox'[u][i] = outbox[u][i]
    <3>1. PICK j \in DOMAIN outbox[u] :
             /\ j < i /\ Full(outbox[u][j])
             /\ outbox[u][j].number.seq = row.number.seq - 1
      BY <1>b, <2>1
    <3>2. j \in DOMAIN outbox'[u] /\ outbox'[u][j] = outbox[u][j]
      BY <1>2
    <3> QED
      BY <3>1, <3>2
  <2>2. CASE /\ u = t /\ (\A j \in DOMAIN outbox[t] : j < i)
             /\ \E k \in DOMAIN rows : outbox'[t][i] = rows[k]
    <3>1. PICK j \in DOMAIN outbox[t] :
             Full(outbox[t][j]) /\ outbox[t][j].number.seq = row.number.seq - 1
      BY <2>2
    <3>2. j \in DOMAIN outbox'[t] /\ outbox'[t][j] = outbox[t][j]
      BY <1>2
    <3> QED
      BY <2>2, <3>1, <3>2
  <2> QED
    BY <1>3, <2>1, <2>2
<1>10. ServerFaithful'
  BY <1>1 DEF IInv, ServerFaithful, BillsGrow
<1>11. CallsInOrder'
  <2> SUFFICES ASSUME NEW u \in Terminals
               PROVE  /\ call[u].batch \subseteq DOMAIN outbox'[u]
                      /\ Answered(u) \subseteq call[u].batch
                      /\ \A i \in call[u].batch : \A j \in DOMAIN outbox'[u] :
                            j < i => j \in call[u].batch \/ outbox'[u][j].mark = "synced"
    BY <1>1 DEF CallsInOrder, Answered
  <2>1. call[u].batch \subseteq DOMAIN outbox'[u]
    BY <1>2, <1>c
  <2>2. ASSUME NEW i \in call[u].batch, NEW j \in DOMAIN outbox'[u], j < i
        PROVE  j \in call[u].batch \/ outbox'[u][j].mark = "synced"
    <3>1. i \in DOMAIN outbox[u]
      BY <1>c
    <3>2. CASE j \in DOMAIN outbox[u] /\ outbox'[u][j] = outbox[u][j]
      BY <2>2, <3>2 DEF IInv, CallsInOrder
    <3>3. CASE u = t /\ \A k \in DOMAIN outbox[t] : k < j
      <4>1. i < j /\ i \in Int /\ j \in Int
        <5>1. outbox[u] \in Seq(Row) /\ outbox'[u] \in Seq(Row)
          BY <1>a, Enqueued DEF TypeOK
        <5>2. DOMAIN outbox[u] = 1..Len(outbox[u]) /\ DOMAIN outbox'[u] = 1..Len(outbox'[u])
          BY <5>1, LenProperties
        <5> QED
          BY <3>1, <3>3, <5>2
      <4> QED
        BY <2>2, <4>1
    <3> QED
      BY <1>3, <3>2, <3>3
  <2> QED
    BY <1>c, <2>1, <2>2
<1>12. Gapless'
  BY <1>1 DEF IInv, Gapless, B1Numbers
<1> QED
  BY <1>6, <1>7, <1>8, <1>9, <1>10, <1>11, <1>12 DEF RowsInv

LEMMA LocalKept ==
    ASSUME IInv, NEW t \in Terminals, NEW rows \in Seq(Row), Operation(t, rows),
           bills' \in [SaleIds -> Bill], orders' \subseteq OrderIds, BillsDated', BillsGrow,
           \A k \in DOMAIN rows : Sound(rows[k])' /\ rows[k].mark = "pending",
           \A k \in DOMAIN rows : Full(rows[k]) /\ rows[k].number.seq > 1 =>
              \E j \in DOMAIN outbox[t] :
                 Full(outbox[t][j]) /\ outbox[t][j].number.seq = rows[k].number.seq - 1,
           \A s \in SaleIds : (/\ bills[s].status = "absent" /\ bills'[s].number.series = "B1"
                                /\ bills'[s].by = t) => \E k \in DOMAIN rows :
                 Full(rows[k]) /\ rows[k].number = bills'[s].number,
           \A s \in SaleIds : bills[s].status = "absent" =>
              bills'[s].by \in {t, NoOne}
    PROVE  IInv'
<1>1. RowsInv' /\ ServerFaithful' /\ CallsInOrder' /\ Gapless'
  BY RowsKept
<1>2. TypeOK
  BY DEF IInv
<1>3. /\ clock < MaxClock /\ clock' = Now
      /\ call' = call /\ db' = db /\ faults' = faults
      /\ outbox' \in [Terminals -> Seq(Row)]
      /\ \A u \in Terminals \ {t} : outbox'[u] = outbox[u]
      /\ \A i \in DOMAIN outbox[t] : i \in DOMAIN outbox'[t] /\ outbox'[t][i] = outbox[t][i]
      /\ \A k \in DOMAIN rows : \E i \in DOMAIN outbox'[t] : outbox'[t][i] = rows[k]
  BY <1>2, Enqueued
<1>4. TypeOK'
  <2>1. clock' \in 0..MaxClock
    BY <1>2, <1>3, NowTyped
  <2> QED
    BY <1>2, <1>3, <2>1 DEF TypeOK
<1>5. BillRows'
  <2> SUFFICES ASSUME NEW s \in SaleIds, NEW u \in Terminals,
                      bills'[s].by = u, bills'[s].number.series = "B1"
               PROVE  \E i \in DOMAIN outbox'[u] :
                         Full(outbox'[u][i]) /\ outbox'[u][i].number = bills'[s].number
    BY DEF BillRows, Full
  <2>1. CASE bills[s].status # "absent"
    <3>1. bills'[s].number = bills[s].number /\ bills'[s].by = bills[s].by
      BY <2>1 DEF BillsGrow
    <3>2. PICK i \in DOMAIN outbox[u] :
             Full(outbox[u][i]) /\ outbox[u][i].number = bills[s].number
      BY <3>1 DEF IInv, BillRows
    <3>3. i \in DOMAIN outbox'[u] /\ outbox'[u][i] = outbox[u][i]
      BY <1>3
    <3> QED
      BY <3>1, <3>2, <3>3
  <2>2. CASE bills[s].status = "absent"
    <3>1. u = t
      BY <2>2, LabelAssumption
    <3>2. PICK k \in DOMAIN rows : Full(rows[k]) /\ rows[k].number = bills'[s].number
      BY <2>2, <3>1
    <3>3. PICK i \in DOMAIN outbox'[t] : outbox'[t][i] = rows[k]
      BY <1>3
    <3> QED
      BY <3>1, <3>2, <3>3
  <2> QED
    BY <2>1, <2>2
<1> QED
  BY <1>1, <1>4, <1>5 DEF IInv

LEMMA Rows2 ==
    ASSUME NEW a \in Row, NEW b \in Row
    PROVE  /\ <<a, b>> \in Seq(Row) /\ DOMAIN <<a, b>> = 1..2
           /\ <<a, b>>[1] = a /\ <<a, b>>[2] = b
  OBVIOUS

LEMMA Rows1 ==
    ASSUME NEW a \in Row
    PROVE  <<a>> \in Seq(Row) /\ DOMAIN <<a>> = 1..1 /\ <<a>>[1] = a
  OBVIOUS

LEMMA Rows3 ==
    ASSUME NEW a \in Row, NEW b \in Row, NEW c \in Row
    PROVE  \E rows \in Seq(Row) : /\ rows = <<a, b, c>> /\ DOMAIN rows = 1..3
                                  /\ rows[1] = a /\ rows[2] = b /\ rows[3] = c
<1> DEFINE rows == <<a, b, c>>
<1>1. /\ rows \in Seq(Row) /\ DOMAIN rows = 1..3
      /\ rows[1] = a /\ rows[2] = b /\ rows[3] = c
  OBVIOUS
<1>2. rows = <<a, b, c>>
  OBVIOUS
<1> HIDE DEF rows
<1> QED
  BY <1>1, <1>2

LEMMA RowChanged ==
    ASSUME NEW p \in Row
    PROVE  /\ [p EXCEPT !.times = "local"] \in Row
           /\ [p EXCEPT !.status = "cancelled"] \in Row
           /\ [p EXCEPT !.mark = "pending"] \in Row
           /\ [p EXCEPT !.mark = "failed"] \in Row
           /\ [p EXCEPT !.mark = "synced"] \in Row
  BY DEF Row

\* A new bill takes the instant for its own.
LEMMA IssueKeeps ==
    ASSUME IInv, NEW t \in Terminals, NEW s \in SaleIds, NEW number \in Number,
           number.seq \in 1..Now, Issue(t, s, number), clock < MaxClock, clock' = Now
    PROVE  /\ bills' \in [SaleIds -> Bill] /\ BillsDated' /\ BillsGrow
           /\ bills'[s].status # "absent" /\ bills'[s].number = number /\ bills'[s].by = t
           /\ bills[s].status = "absent" /\ orders' = orders
           /\ \A r \in SaleIds \ {s} : bills'[r] = bills[r]
<1>1. TypeOK /\ BillsDated
  BY DEF IInv
<1>2. Now \in 1..MaxClock /\ clock \in Nat /\ clock < Now
  BY <1>1, NowTyped
<1>3. PICK b : b = [by |-> t, status |-> "completed", number |-> number, at |-> Now]
  OBVIOUS
<1>4. /\ b \in Bill /\ b.at = Now /\ b.status = "completed" /\ b.number = number /\ b.by = t
  BY <1>2, <1>3 DEF Bill
<1>5. bills[s].status = "absent" /\ bills' = [bills EXCEPT ![s] = b] /\ orders' = orders
  BY <1>3 DEF Issue
<1>6. bills'[s] = b /\ \A r \in SaleIds \ {s} : bills'[r] = bills[r]
  BY <1>1, <1>5 DEF TypeOK
<1>7. bills' \in [SaleIds -> Bill]
  BY <1>1, <1>4, <1>5 DEF TypeOK
<1>8. \A r \in SaleIds : bills[r].at <= clock /\ bills[r].at \in Int
  <2>1. \A x \in 0..MaxClock : x \in Int
    BY BoundsAssumption
  <2> QED
    BY <1>1, <2>1 DEF BillsDated, TypeOK, Bill
<1>9. BillsDated'
  <2>1. \A r \in SaleIds : bills'[r].at <= clock'
    BY <1>2, <1>4, <1>6, <1>8
  <2>2. \A r \in SaleIds : bills'[r].status = "absent" => bills'[r].by = NoOne
    BY <1>1, <1>4, <1>6 DEF BillsDated
  <2>3. \A r \in SaleIds : bills'[r].status # "absent" =>
           bills'[r].by \in Terminals /\ bills'[r].number.seq \in 1..bills'[r].at
    BY <1>1, <1>4, <1>6 DEF BillsDated
  <2>4. ASSUME NEW q \in SaleIds, NEW r \in SaleIds, bills'[q].status # "absent",
               bills'[r].status # "absent", bills'[q].at = bills'[r].at
        PROVE  q = r
    <3>1. CASE q # s /\ r # s
      BY <1>1, <1>6, <2>4, <3>1 DEF BillsDated
    <3>2. CASE q = s /\ r # s
      <4>1. bills'[q].at = Now /\ bills'[r].at <= clock /\ bills'[r].at \in Int
        BY <1>4, <1>6, <1>8, <3>2
      <4> QED
        BY <1>2, <2>4, <4>1
    <3>3. CASE q # s /\ r = s
      <4>1. bills'[r].at = Now /\ bills'[q].at <= clock /\ bills'[q].at \in Int
        BY <1>4, <1>6, <1>8, <3>3
      <4> QED
        BY <1>2, <2>4, <4>1
    <3> QED
      BY <3>1, <3>2, <3>3
  <2> QED
    BY <2>1, <2>2, <2>3, <2>4 DEF BillsDated
<1>10. BillsGrow
  BY <1>5, <1>6 DEF BillsGrow
<1> QED
  BY <1>4, <1>5, <1>6, <1>7, <1>9, <1>10

\* The sales row of a new bill.
LEMMA SalePayloadTyped ==
    ASSUME TypeOK, clock < MaxClock, NEW s \in SaleIds, NEW number \in Number
    PROVE  /\ SalePayload(s, number) \in Row
           /\ SalePayload(s, number).table = "sales" /\ SalePayload(s, number).rec = s
           /\ SalePayload(s, number).at = Now /\ SalePayload(s, number).status = "completed"
           /\ SalePayload(s, number).number = number
           /\ SalePayload(s, number).uuids = UuidColumns.sales
           /\ SalePayload(s, number).times = "zoned"
           /\ SalePayload(s, number).mark = "pending"
<1>1. Now \in 0..MaxClock
  BY NowTyped
<1>2. s \in Records /\ "sales" \in Tables /\ UuidColumns.sales \in SUBSET Columns
  BY TableTyped DEF Records
<1>3. PICK at \in 0..MaxClock : at = Now
  BY <1>1
<1>4. PICK uuids \in SUBSET Columns : uuids = UuidColumns.sales
  BY <1>2
<1>5. SalePayload(s, number) =
        [table |-> "sales", rec |-> s, uuids |-> uuids, times |-> "zoned", at |-> at,
         status |-> "completed", number |-> number, mark |-> "pending"]
  <2>1. Payload("sales", s, uuids, at) =
          [table |-> "sales", rec |-> s, uuids |-> uuids, times |-> "zoned", at |-> at,
           status |-> "", number |-> NoNumber, mark |-> "pending"]
    BY DEF Payload
  <2>2. SalePayload(s, number) =
          [Payload("sales", s, uuids, at) EXCEPT !.status = "completed", !.number = number]
    BY <1>3, <1>4 DEF SalePayload
  <2>3. PICK st \in {"completed"} : st = "completed"
    OBVIOUS
  <2>4. SalePayload(s, number) =
          [[table |-> "sales", rec |-> s, uuids |-> uuids, times |-> "zoned", at |-> at,
            status |-> "", number |-> NoNumber, mark |-> "pending"]
              EXCEPT !.status = st, !.number = number]
    BY <2>1, <2>2, <2>3
  <2> QED
    BY <2>3, <2>4
<1> QED
  BY <1>2, <1>3, <1>4, <1>5 DEF Row

LEMMA CompleteSaleKeeps ==
    ASSUME IInv, NEW t \in Terminals, NEW s \in SaleIds, CompleteSale(t, s)
    PROVE  IInv'
<1>1. TypeOK /\ BillsDated /\ clock < MaxClock /\ clock' = Now
  BY DEF IInv, CompleteSale, Operation
<1>2. PICK number \in Number :
         /\ number = NextNumber(t) /\ number.series = "B1" /\ number.seq \in 1..Now
         /\ number.seq > 1 =>
               \E r \in SaleIds : /\ bills[r].by = t /\ bills[r].number.series = "B1"
                                  /\ number.seq - 1 = bills[r].number.seq
  BY <1>1, NextNumberIs
<1>3. Now \in 1..MaxClock /\ clock \in Nat /\ 0 \in 0..MaxClock /\ Now \in 0..MaxClock
      /\ Now <= clock' /\ 0 <= clock'
  BY <1>1, NowTyped, BoundsAssumption
<1>4. s \in Records /\ "sales" \in Tables /\ "sale_items" \in Tables
      /\ UuidColumns.sales \in SUBSET Columns
      /\ {"sale_id", "product_id", "unit_id"} \in SUBSET Columns
  BY TableTyped DEF Records
<1>5. PICK a \in Row : /\ a = SalePayload(s, number)
                       /\ a.rec = s /\ a.at = Now /\ a.table = "sales" /\ a.status = "completed"
                       /\ a.number = number /\ a.mark = "pending"
  BY <1>1, SalePayloadTyped
<1>6. PICK b \in Row : /\ b = Payload("sale_items", s, {"sale_id", "product_id", "unit_id"}, 0)
                       /\ b.rec = s /\ b.at = 0 /\ b.table = "sale_items" /\ b.mark = "pending"
  BY <1>3, <1>4, PayloadTyped
<1>7. Issue(t, s, number) /\ Operation(t, <<a, b>>)
  BY <1>2, <1>5, <1>6 DEF CompleteSale
<1>8. PICK rows \in Seq(Row) : /\ rows = <<a, b>> /\ DOMAIN rows = 1..2
                               /\ rows[1] = a /\ rows[2] = b
  BY Rows2
<1>9. /\ bills' \in [SaleIds -> Bill] /\ BillsDated' /\ BillsGrow
      /\ bills'[s].status # "absent" /\ bills'[s].number = number /\ bills'[s].by = t
      /\ bills[s].status = "absent" /\ orders' = orders
      /\ \A r \in SaleIds \ {s} : bills'[r] = bills[r]
  BY <1>1, <1>2, <1>7, IssueKeeps
<1>10. Sound(a)' /\ Sound(b)'
  BY <1>2, <1>3, <1>5, <1>6, <1>9 DEF Sound, Full
<1>11. Full(a) /\ ~Full(b)
  <2>1. a.times = "zoned" /\ a.uuids = UuidColumns.sales
    BY <1>5 DEF SalePayload, Payload
  <2> QED
    BY <1>5, <1>6, <2>1 DEF Full
<1>12. ASSUME number.seq > 1
       PROVE  \E j \in DOMAIN outbox[t] :
                 Full(outbox[t][j]) /\ outbox[t][j].number.seq = number.seq - 1
  BY <1>2, <1>12 DEF IInv, BillRows
<1>13. \A k \in DOMAIN rows : Sound(rows[k])' /\ rows[k].mark = "pending"
  <2>1. \A k \in 1..2 : k = 1 \/ k = 2
    OBVIOUS
  <2>2. ASSUME NEW k \in DOMAIN rows PROVE Sound(rows[k])' /\ rows[k].mark = "pending"
    <3>1. CASE rows[k] = a
      BY <1>5, <1>10, <3>1
    <3>2. CASE rows[k] = b
      BY <1>6, <1>10, <3>2
    <3> QED
      BY <1>8, <2>1, <3>1, <3>2
  <2> QED
    BY <2>2
<1>14. \A k \in DOMAIN rows : Full(rows[k]) /\ rows[k].number.seq > 1 =>
          \E j \in DOMAIN outbox[t] :
             Full(outbox[t][j]) /\ outbox[t][j].number.seq = rows[k].number.seq - 1
  <2>1. \A k \in 1..2 : k = 1 \/ k = 2
    OBVIOUS
  <2> QED
    BY <1>5, <1>8, <1>11, <1>12, <2>1
<1>15. \A r \in SaleIds : (/\ bills[r].status = "absent" /\ bills'[r].number.series = "B1"
                            /\ bills'[r].by = t) => \E k \in DOMAIN rows :
             Full(rows[k]) /\ rows[k].number = bills'[r].number
  <2>1. 1 \in DOMAIN rows
    BY <1>8
  <2> SUFFICES ASSUME NEW r \in SaleIds, bills[r].status = "absent", bills'[r].by = t
               PROVE  Full(rows[1]) /\ rows[1].number = bills'[r].number
    BY <2>1
  <2>2. r = s
    BY <1>1, <1>9, LabelAssumption DEF BillsDated
  <2> QED
    BY <1>5, <1>8, <1>9, <1>11, <2>2
<1>16. \A r \in SaleIds : bills[r].status = "absent" => bills'[r].by \in {t, NoOne}
  BY <1>1, <1>9 DEF BillsDated
<1>17. Operation(t, rows) /\ orders' \subseteq OrderIds
  BY <1>1, <1>7, <1>8, <1>9 DEF TypeOK
<1> QED
  BY <1>9, <1>13, <1>14, <1>15, <1>16, <1>17, LocalKept

LEMMA CreateSaleKeeps ==
    ASSUME IInv, NEW t \in Terminals, NEW s \in SaleIds, CreateSale(t, s)
    PROVE  IInv'
<1>1. TypeOK /\ BillsDated /\ clock < MaxClock /\ clock' = Now
  BY DEF IInv, CreateSale, Operation
<1>2. Now \in 1..MaxClock /\ Now \in 0..MaxClock /\ Now \in 1..Now /\ Now <= clock'
  BY <1>1, NowTyped, BoundsAssumption
<1>3. PICK number \in Number :
         /\ number = [series |-> "INV", seq |-> Now]
         /\ number.series = "INV" /\ number.seq \in 1..Now
  <2>1. [series |-> "INV", seq |-> Now] \in Number
    BY <1>2 DEF Number
  <2> QED
    BY <1>2, <2>1
<1>4. PICK a \in Row : /\ a = [SalePayload(s, number) EXCEPT !.times = "local"]
                       /\ a.rec = s /\ a.at = Now /\ a.table = "sales" /\ a.times = "local"
                       /\ a.mark = "pending"
  <2>1. PICK p \in Row : /\ p = SalePayload(s, number)
                         /\ p.table = "sales" /\ p.rec = s /\ p.at = Now /\ p.mark = "pending"
    BY <1>1, SalePayloadTyped
  <2>2. [p EXCEPT !.times = "local"] \in Row
    BY <2>1, RowChanged
  <2>3. /\ [p EXCEPT !.times = "local"].table = "sales"
        /\ [p EXCEPT !.times = "local"].rec = s
        /\ [p EXCEPT !.times = "local"].at = Now
        /\ [p EXCEPT !.times = "local"].times = "local"
        /\ [p EXCEPT !.times = "local"].mark = "pending"
    BY <2>1 DEF Row
  <2> QED
    BY <2>1, <2>2, <2>3
<1>5. Issue(t, s, number) /\ Operation(t, <<a>>)
  BY <1>3, <1>4 DEF CreateSale
<1>6. PICK rows \in Seq(Row) : /\ rows = <<a>> /\ DOMAIN rows = 1..1 /\ rows[1] = a
  BY Rows1
<1>7. /\ bills' \in [SaleIds -> Bill] /\ BillsDated' /\ BillsGrow
      /\ bills'[s].status # "absent" /\ bills'[s].number = number /\ bills'[s].by = t
      /\ bills[s].status = "absent" /\ orders' = orders
      /\ \A r \in SaleIds \ {s} : bills'[r] = bills[r]
  BY <1>1, <1>2, <1>3, <1>5, IssueKeeps
<1>8. Sound(a)' /\ ~Full(a)
  BY <1>2, <1>4 DEF Sound, Full
<1>9. \A k \in DOMAIN rows : rows[k] = a
  BY <1>6
<1>10. \A k \in DOMAIN rows : Sound(rows[k])' /\ rows[k].mark = "pending"
  BY <1>4, <1>8, <1>9
<1>11. \A k \in DOMAIN rows : ~Full(rows[k])
  BY <1>8, <1>9
<1>12. ASSUME NEW r \in SaleIds, bills[r].status = "absent", bills'[r].number.series = "B1"
       PROVE  bills'[r].by # t
  <2>1. r # s
    BY <1>3, <1>7, <1>12
  <2>2. bills'[r].by = NoOne
    BY <1>1, <1>7, <1>12, <2>1 DEF BillsDated
  <2> QED
    BY <2>2, LabelAssumption
<1>13. \A r \in SaleIds : bills[r].status = "absent" => bills'[r].by \in {t, NoOne}
  BY <1>1, <1>7 DEF BillsDated
<1>14. Operation(t, rows) /\ orders' \subseteq OrderIds
  BY <1>1, <1>5, <1>6, <1>7 DEF TypeOK
<1> QED
  BY <1>7, <1>10, <1>11, <1>12, <1>13, <1>14, LocalKept

\* Operations that enqueue no full row and add no bill.
LEMMA PartialKept ==
    ASSUME IInv, NEW t \in Terminals, NEW rows \in Seq(Row), Operation(t, rows),
           bills' \in [SaleIds -> Bill], orders' \subseteq OrderIds,
           \A k \in DOMAIN rows :
              Sound(rows[k])' /\ rows[k].mark = "pending" /\ ~Full(rows[k]),
           \A s \in SaleIds :
              /\ (bills'[s].status = "absent") <=> (bills[s].status = "absent")
              /\ bills'[s].number = bills[s].number
              /\ bills'[s].by = bills[s].by /\ bills'[s].at = bills[s].at
    PROVE  IInv'
<1>1. TypeOK /\ BillsDated /\ clock < MaxClock /\ clock' = Now
  BY DEF IInv, Operation
<1>2. clock \in Nat /\ clock < clock'
  BY <1>1, NowTyped
<1>3. BillsGrow
  BY DEF BillsGrow
<1>4. \A s \in SaleIds : bills[s].at <= clock'
  <2>1. \A x \in 0..MaxClock : x \in Int
    BY BoundsAssumption
  <2>2. \A s \in SaleIds : bills[s].at <= clock /\ bills[s].at \in Int
    BY <1>1, <2>1 DEF BillsDated, TypeOK, Bill
  <2> QED
    BY <1>1, <1>2, <2>2, NowTyped
<1>5. BillsDated'
  BY <1>1, <1>4 DEF BillsDated
<1>6. \A s \in SaleIds : bills[s].status = "absent" => bills'[s].by = NoOne
  BY <1>1 DEF BillsDated
<1> QED
  BY <1>3, <1>5, <1>6, LabelAssumption, LocalKept

LEMMA CancelSaleKeeps ==
    ASSUME IInv, NEW t \in Terminals, NEW s \in SaleIds, CancelSale(t, s)
    PROVE  IInv'
<1>1. PICK p \in Products :
         Operation(t, <<Payload("products", p, {"id"}, Now),
                        [Payload("sales", s, {"id"}, Now) EXCEPT !.status = "cancelled"],
                        Payload("audit_trail", s, {"staff_id", "device_id"}, Now)>>)
  BY DEF CancelSale
<1>2. TypeOK /\ clock < MaxClock /\ clock' = Now
  BY <1>1 DEF IInv, Operation
<1>3. Now \in 0..MaxClock /\ Now <= clock'
  BY <1>2, NowTyped, BoundsAssumption
<1>4. /\ s \in Records /\ p \in Records
      /\ "sales" \in Tables /\ "products" \in Tables /\ "audit_trail" \in Tables
      /\ {"id"} \in SUBSET Columns /\ {"staff_id", "device_id"} \in SUBSET Columns
  BY TableTyped DEF Records
<1>5. PICK a \in Row : /\ a = Payload("products", p, {"id"}, Now)
                       /\ a.rec = p /\ a.at = Now /\ a.table = "products" /\ a.mark = "pending"
  BY <1>3, <1>4, PayloadTyped
<1>6. PICK b \in Row : /\ b = [Payload("sales", s, {"id"}, Now) EXCEPT !.status = "cancelled"]
                       /\ b.rec = s /\ b.at = Now /\ b.table = "sales" /\ b.mark = "pending"
                       /\ b.uuids = {"id"}
  <2>1. PICK q \in Row : /\ q = Payload("sales", s, {"id"}, Now)
                         /\ q.rec = s /\ q.at = Now /\ q.table = "sales" /\ q.mark = "pending"
                         /\ q.uuids = {"id"}
    BY <1>3, <1>4, PayloadTyped
  <2>2. [q EXCEPT !.status = "cancelled"] \in Row
    BY <2>1, RowChanged
  <2>3. /\ [q EXCEPT !.status = "cancelled"].table = "sales"
        /\ [q EXCEPT !.status = "cancelled"].rec = s
        /\ [q EXCEPT !.status = "cancelled"].at = Now
        /\ [q EXCEPT !.status = "cancelled"].uuids = {"id"}
        /\ [q EXCEPT !.status = "cancelled"].mark = "pending"
    BY <2>1 DEF Row
  <2> QED
    BY <2>1, <2>2, <2>3
<1>7. PICK c \in Row : /\ c = Payload("audit_trail", s, {"staff_id", "device_id"}, Now)
                       /\ c.rec = s /\ c.at = Now /\ c.table = "audit_trail"
                       /\ c.mark = "pending"
  BY <1>3, <1>4, PayloadTyped
<1>8. PICK rows \in Seq(Row) : /\ rows = <<a, b, c>> /\ DOMAIN rows = 1..3
                               /\ rows[1] = a /\ rows[2] = b /\ rows[3] = c
  BY Rows3
<1>9. Operation(t, rows)
  BY <1>1, <1>5, <1>6, <1>7, <1>8
<1>10. \A k \in DOMAIN rows : rows[k] = a \/ rows[k] = b \/ rows[k] = c
  <2>1. \A k \in 1..3 : k = 1 \/ k = 2 \/ k = 3
    OBVIOUS
  <2> QED
    BY <1>8, <2>1
<1>11. ~Full(a) /\ ~Full(b) /\ ~Full(c)
  BY <1>5, <1>6, <1>7, TableTyped DEF Full
<1>12. Sound(a)' /\ Sound(b)' /\ Sound(c)'
  BY <1>3, <1>5, <1>6, <1>7, <1>11 DEF Sound, Full
<1>13. \A k \in DOMAIN rows : Sound(rows[k])' /\ rows[k].mark = "pending" /\ ~Full(rows[k])
  <2> SUFFICES ASSUME NEW k \in DOMAIN rows
               PROVE  Sound(rows[k])' /\ rows[k].mark = "pending" /\ ~Full(rows[k])
    OBVIOUS
  <2>1. CASE rows[k] = a
    BY <1>5, <1>11, <1>12, <2>1
  <2>2. CASE rows[k] = b
    BY <1>6, <1>11, <1>12, <2>2
  <2>3. CASE rows[k] = c
    BY <1>7, <1>11, <1>12, <2>3
  <2> QED
    BY <1>10, <2>1, <2>2, <2>3
<1>14. /\ bills[s].status = "completed" /\ orders' = orders
       /\ bills' = [bills EXCEPT ![s].status = "cancelled"]
  BY DEF CancelSale
<1>15. bills \in [SaleIds -> Bill] /\ orders \subseteq OrderIds
  BY <1>2 DEF TypeOK
<1>16. PICK d \in Bill : /\ d = [bills[s] EXCEPT !.status = "cancelled"]
                         /\ d.status = "cancelled" /\ d.by = bills[s].by
                         /\ d.number = bills[s].number /\ d.at = bills[s].at
  <2>1. PICK q \in Bill : q = bills[s]
    BY <1>15
  <2>2. [q EXCEPT !.status = "cancelled"] \in Bill
    BY DEF Bill
  <2>3. /\ [q EXCEPT !.status = "cancelled"].status = "cancelled"
        /\ [q EXCEPT !.status = "cancelled"].by = q.by
        /\ [q EXCEPT !.status = "cancelled"].number = q.number
        /\ [q EXCEPT !.status = "cancelled"].at = q.at
    BY DEF Bill
  <2> QED
    BY <2>1, <2>2, <2>3
<1>17. bills' = [bills EXCEPT ![s] = d]
  BY <1>14, <1>16
<1>18. bills' \in [SaleIds -> Bill]
  BY <1>15, <1>17
<1>19. \A r \in SaleIds :
          /\ (bills'[r].status = "absent") <=> (bills[r].status = "absent")
          /\ bills'[r].number = bills[r].number
          /\ bills'[r].by = bills[r].by /\ bills'[r].at = bills[r].at
  BY <1>14, <1>15, <1>16, <1>17
<1>20. orders' \subseteq OrderIds
  BY <1>14, <1>15
<1> QED
  BY <1>9, <1>13, <1>18, <1>19, <1>20, PartialKept

LEMMA StockInKeeps ==
    ASSUME IInv, NEW t \in Terminals, NEW o \in OrderIds, NEW p \in Products,
           NEW x \in Suppliers, StockIn(t, o, p, x)
    PROVE  IInv'
<1>1. PICK credit \in BOOLEAN :
         Operation(t, <<Payload("products", p, {"id"}, 0),
                        Payload("purchase_orders", o, {"supplier_id", "staff_id", "device_id"}, Now)>>
                      \o IF credit THEN <<Payload("suppliers", x, {"id"}, Now)>> ELSE <<>>)
  BY DEF StockIn
<1>2. TypeOK /\ clock < MaxClock /\ clock' = Now
  BY <1>1 DEF IInv, Operation
<1>3. Now \in 0..MaxClock /\ Now <= clock' /\ 0 \in 0..MaxClock /\ 0 <= clock'
  BY <1>2, NowTyped, BoundsAssumption
<1>4. /\ o \in Records /\ p \in Records /\ x \in Records
      /\ "purchase_orders" \in Tables /\ "products" \in Tables /\ "suppliers" \in Tables
      /\ {"id"} \in SUBSET Columns
      /\ {"supplier_id", "staff_id", "device_id"} \in SUBSET Columns
  BY TableTyped DEF Records
<1>5. PICK a \in Row : /\ a = Payload("products", p, {"id"}, 0)
                       /\ a.rec = p /\ a.at = 0 /\ a.table = "products" /\ a.mark = "pending"
  BY <1>3, <1>4, PayloadTyped
<1>6. PICK b \in Row :
         /\ b = Payload("purchase_orders", o, {"supplier_id", "staff_id", "device_id"}, Now)
         /\ b.rec = o /\ b.at = Now /\ b.table = "purchase_orders" /\ b.mark = "pending"
  BY <1>3, <1>4, PayloadTyped
<1>7. PICK c \in Row : /\ c = Payload("suppliers", x, {"id"}, Now)
                       /\ c.rec = x /\ c.at = Now /\ c.table = "suppliers"
                       /\ c.mark = "pending"
  BY <1>3, <1>4, PayloadTyped
<1>8. PICK rows \in Seq(Row) :
         /\ Operation(t, rows)
         /\ \A k \in DOMAIN rows : rows[k] = a \/ rows[k] = b \/ rows[k] = c
  <2>1. CASE credit
    <3>1. PICK rows \in Seq(Row) : /\ rows = <<a, b, c>> /\ DOMAIN rows = 1..3
                                   /\ rows[1] = a /\ rows[2] = b /\ rows[3] = c
      BY Rows3
    <3>2. rows = <<a, b>> \o <<c>>
      BY <3>1
    <3>3. Operation(t, rows)
      BY <1>1, <1>5, <1>6, <1>7, <2>1, <3>2
    <3>4. \A k \in 1..3 : k = 1 \/ k = 2 \/ k = 3
      OBVIOUS
    <3> QED
      BY <3>1, <3>3, <3>4
  <2>2. CASE ~credit
    <3>1. PICK rows \in Seq(Row) : /\ rows = <<a, b>> /\ DOMAIN rows = 1..2
                                   /\ rows[1] = a /\ rows[2] = b
      BY Rows2
    <3>2. rows = <<a, b>> \o <<>>
      BY <3>1
    <3>3. Operation(t, rows)
      BY <1>1, <1>5, <1>6, <2>2, <3>2
    <3>4. \A k \in 1..2 : k = 1 \/ k = 2
      OBVIOUS
    <3> QED
      BY <3>1, <3>3, <3>4
  <2> QED
    BY <2>1, <2>2
<1>11. ~Full(a) /\ ~Full(b) /\ ~Full(c)
  BY <1>5, <1>6, <1>7 DEF Full
<1>12. Sound(a)' /\ Sound(b)' /\ Sound(c)'
  BY <1>3, <1>5, <1>6, <1>7, <1>11 DEF Sound, Full
<1>13. \A k \in DOMAIN rows : Sound(rows[k])' /\ rows[k].mark = "pending" /\ ~Full(rows[k])
  <2> SUFFICES ASSUME NEW k \in DOMAIN rows
               PROVE  Sound(rows[k])' /\ rows[k].mark = "pending" /\ ~Full(rows[k])
    OBVIOUS
  <2>1. CASE rows[k] = a
    BY <1>5, <1>11, <1>12, <2>1
  <2>2. CASE rows[k] = b
    BY <1>6, <1>11, <1>12, <2>2
  <2>3. CASE rows[k] = c
    BY <1>7, <1>11, <1>12, <2>3
  <2> QED
    BY <1>8, <2>1, <2>2, <2>3
<1>14. bills' = bills /\ orders' = orders \cup {o}
  BY DEF StockIn
<1>15. bills' \in [SaleIds -> Bill] /\ orders' \subseteq OrderIds
  BY <1>2, <1>14 DEF TypeOK
<1> QED
  BY <1>8, <1>13, <1>14, <1>15, PartialKept

-----------------------------------------------------------------------------
(* The steps of a sync *)

\* What the invariant says of one row.
LEMMA RowFacts ==
    ASSUME IInv, NEW t \in Terminals, NEW i \in DOMAIN outbox[t]
    PROVE  /\ outbox[t][i] \in Row /\ outbox[t][i].at \in 0..MaxClock /\ outbox[t][i].at \in Int
           /\ i \in Nat
           /\ Sound(outbox[t][i])
           /\ i \in call[t].accepted \/ outbox[t][i].mark = "synced" => Took(outbox[t][i])
           /\ Full(outbox[t][i]) /\ (i \in Answered(t) \/ outbox[t][i].mark = "synced") =>
                 outbox[t][i].number.seq \in B1Numbers
           /\ Full(outbox[t][i]) /\ outbox[t][i].number.seq > 1 =>
                 \E j \in DOMAIN outbox[t] :
                    /\ j < i /\ Full(outbox[t][j])
                    /\ outbox[t][j].number.seq = outbox[t][i].number.seq - 1
<1>1. outbox[t] \in Seq(Row)
  BY DEF IInv, TypeOK
<1>2. outbox[t][i] \in Row /\ i \in Nat
  BY <1>1, ElementOfSeq, LenProperties
<1>3. \A x \in 0..MaxClock : x \in Int
  BY BoundsAssumption
<1>4. outbox[t][i].at \in 0..MaxClock
  BY <1>2 DEF Row
<1> QED
  BY <1>2, <1>3, <1>4 DEF IInv, RowsInv, RowsSound, AcceptedTook, NumbersThere, Predecessors

\* A batch takes the open rows in their order.
LEMMA BatchClosed ==
    ASSUME TypeOK, NEW t \in Terminals
    PROVE  /\ Batch(t) \subseteq DOMAIN outbox[t] /\ Batch(t) \in SUBSET Nat
           /\ \A i \in Batch(t) : \A j \in DOMAIN outbox[t] :
                 j < i => j \in Batch(t) \/ outbox[t][j].mark = "synced"
<1>1. outbox[t] \in Seq(Row) /\ DOMAIN outbox[t] = 1..Len(outbox[t]) /\ Len(outbox[t]) \in Nat
  BY LenProperties DEF TypeOK
<1>2. Batch(t) \subseteq DOMAIN outbox[t] /\ Batch(t) \in SUBSET Nat
  BY <1>1 DEF Batch, Open
<1>3. ASSUME NEW i \in Batch(t), NEW j \in DOMAIN outbox[t], j < i, outbox[t][j].mark # "synced"
      PROVE  j \in Batch(t)
  <2>1. outbox[t][j] \in Row
    BY <1>1, ElementOfSeq
  <2>2. j \in Open(t)
    BY <1>3, <2>1 DEF Open, Row
  <2> DEFINE A == {k \in Open(t) : k <= j}
             B == {k \in Open(t) : k <= i}
  <2>3. i \in Open(t) /\ Cardinality(B) <= BatchSize
    BY DEF Batch
  <2>4. Open(t) \subseteq 1..Len(outbox[t])
    BY <1>1 DEF Open
  <2>5. i \in Nat /\ j \in Nat /\ \A k \in Open(t) : k \in Nat
    BY <1>1, <2>2, <2>3, <2>4
  <2>6. A \subseteq B /\ B \subseteq 1..Len(outbox[t])
    BY <1>3, <2>4, <2>5
  <2>7. IsFiniteSet(1..Len(outbox[t]))
    BY <1>1, FS_Interval
  <2>8. IsFiniteSet(B)
    <3> HIDE DEF B
    <3> QED
      BY <2>6, <2>7, FS_Subset
  <2>9. IsFiniteSet(A) /\ Cardinality(A) <= Cardinality(B)
    <3> HIDE DEF A, B
    <3> QED
      BY <2>6, <2>8, FS_Subset
  <2>10. Cardinality(A) \in Nat /\ Cardinality(B) \in Nat /\ BatchSize \in Nat
    BY <2>8, <2>9, FS_CardinalityType, BoundsAssumption
  <2>11. Cardinality(A) <= BatchSize
    <3> HIDE DEF A, B
    <3> QED
      BY <2>3, <2>9, <2>10
  <2> QED
    BY <2>2, <2>11 DEF Batch
<1> QED
  BY <1>2, <1>3

\* The new batch has no answers yet; nothing but the call changes.
LEMMA StartSyncKeeps ==
    ASSUME IInv, NEW t \in Terminals, StartSync(t)
    PROVE  IInv'
<1>1. TypeOK
  BY DEF IInv
<1>2. PICK batch \in SUBSET Nat :
         /\ batch = Batch(t) /\ batch \subseteq DOMAIN outbox[t]
         /\ \A i \in batch : \A j \in DOMAIN outbox[t] :
               j < i => j \in batch \/ outbox[t][j].mark = "synced"
  BY <1>1, BatchClosed
<1>3. /\ call' = [call EXCEPT ![t].batch = batch]
      /\ clock' = clock /\ bills' = bills /\ orders' = orders
      /\ outbox' = outbox /\ db' = db /\ faults' = faults
  BY <1>2 DEF StartSync
<1>4. call \in [Terminals -> [batch : SUBSET Nat, accepted : SUBSET Nat,
                              conflicts : SUBSET Nat, errors : SUBSET Nat]]
  BY <1>1 DEF TypeOK
<1>5. call' \in [Terminals -> [batch : SUBSET Nat, accepted : SUBSET Nat,
                               conflicts : SUBSET Nat, errors : SUBSET Nat]]
  BY <1>3, <1>4
<1>6. /\ call'[t].batch = batch
      /\ \A u \in Terminals : /\ call'[u].accepted = call[u].accepted
                              /\ call'[u].conflicts = call[u].conflicts
                              /\ call'[u].errors = call[u].errors
                              /\ u # t => call'[u].batch = call[u].batch
  BY <1>3, <1>4
<1>7. \A u \in Terminals : Answered(u)' = Answered(u)
  BY <1>6 DEF Answered
<1>8. Answered(t) = {}
  BY DEF IInv, CallsInOrder, StartSync, Idle
<1>9. CallsInOrder'
  <2> SUFFICES ASSUME NEW u \in Terminals
               PROVE  /\ call'[u].batch \subseteq DOMAIN outbox[u]
                      /\ Answered(u)' \subseteq call'[u].batch
                      /\ \A i \in call'[u].batch : \A j \in DOMAIN outbox[u] :
                            j < i => j \in call'[u].batch \/ outbox[u][j].mark = "synced"
    BY <1>3 DEF CallsInOrder
  <2>1. CASE u = t
    BY <1>2, <1>6, <1>7, <1>8, <2>1
  <2>2. CASE u # t
    BY <1>6, <1>7, <2>2 DEF IInv, CallsInOrder
  <2> QED
    BY <2>1, <2>2
<1>10. TypeOK'
  BY <1>1, <1>3, <1>5 DEF TypeOK
<1>11. BillsDated' /\ ServerFaithful' /\ BillRows' /\ Gapless' /\ RowsSound' /\ Predecessors'
  BY <1>3 DEF IInv, RowsInv, BillsDated, ServerFaithful, BillRows, Gapless, RowsSound,
              Predecessors, B1Numbers, Sound, Full
<1>12. AcceptedTook'
  BY <1>3, <1>6 DEF IInv, RowsInv, AcceptedTook, Took
<1>13. NumbersThere'
  <2>1. B1Numbers' = B1Numbers
    BY <1>3 DEF B1Numbers
  <2>2. NumbersThere
    BY DEF IInv, RowsInv
  <2> QED
    BY <1>3, <1>7, <2>1, <2>2 DEF NumbersThere
<1> QED
  BY <1>9, <1>10, <1>11, <1>12, <1>13 DEF IInv, RowsInv

\* What storing a row does to the server's tables.
LEMMA StoredKeeps ==
    ASSUME IInv, NEW row \in Row, row.at \in Int, Sound(row), ~Refused(row), db' = Stored(row)
    PROVE  /\ db' \in [products : [Products -> 0..MaxClock], bills : [SaleIds -> Bill],
                       lines : SUBSET SaleIds, orders : SUBSET OrderIds,
                       supplierAt : [Suppliers -> 0..MaxClock]]
           /\ \A s \in SaleIds : db.bills[s].status # "absent" =>
                 /\ db'.bills[s].status # "absent"
                 /\ db'.bills[s].number = db.bills[s].number
                 /\ db'.bills[s].at >= db.bills[s].at
           /\ \A s \in SaleIds : db.bills[s].status = "absent" =>
                 \/ db'.bills[s] = db.bills[s]
                 \/ /\ Full(row) /\ s = row.rec /\ db'.bills[s].number = row.number
                    /\ db'.bills[s].status # "absent"
           /\ db.lines \subseteq db'.lines /\ db.orders \subseteq db'.orders
           /\ \A x \in Suppliers : db'.supplierAt[x] >= db.supplierAt[x]
           /\ row.table = "sales" =>
                 db'.bills[row.rec].status # "absent" /\ db'.bills[row.rec].at >= row.at
           /\ row.table = "sale_items" => row.rec \in db'.lines
           /\ row.table = "purchase_orders" => row.rec \in db'.orders
           /\ row.table = "suppliers" => db'.supplierAt[row.rec] >= row.at
<1> DEFINE Db == [products : [Products -> 0..MaxClock], bills : [SaleIds -> Bill],
                  lines : SUBSET SaleIds, orders : SUBSET OrderIds,
                  supplierAt : [Suppliers -> 0..MaxClock]]
<1>1. db \in Db /\ clock \in 0..MaxClock /\ clock \in Int
  BY BoundsAssumption DEF IInv, TypeOK
<1>2. \A x \in 0..MaxClock : x \in Int
  BY BoundsAssumption
<1>3. \A s \in SaleIds : db.bills[s] \in Bill /\ db.bills[s].at \in Int
  BY <1>1, <1>2 DEF Bill
<1>4. \A x \in Suppliers : db.supplierAt[x] \in 0..MaxClock /\ db.supplierAt[x] \in Int
  BY <1>1, <1>2
<1>5. row.at \in 0..MaxClock /\ row.number \in Number /\ row.table \in Tables
  BY DEF Row
<1>6. row.at <= clock
  BY DEF Sound
<1>7. \A s \in SaleIds : db.bills[s].at >= db.bills[s].at
  BY <1>3
<1>8. \A x \in Suppliers : db.supplierAt[x] >= db.supplierAt[x]
  BY <1>4
<1> HIDE DEF Db
<1>9. CASE row.table = "sales"
  <2>1. row.rec \in SaleIds /\ Full(row)
    BY <1>5, <1>9, TableTyped DEF Sound, Refused, Full, Row
  <2>2. row.status = "completed"
    BY <2>1 DEF Sound
  <2>3. PICK old \in Bill : old = db.bills[row.rec] /\ old.at \in Int
    BY <1>3, <2>1
  <2>4. PICK new \in Bill :
           /\ new = IF old.status = "absent"
                    THEN [by |-> NoOne, status |-> row.status, number |-> row.number, at |-> row.at]
                    ELSE IF old.at <= row.at THEN [old EXCEPT !.status = row.status, !.at = row.at]
                    ELSE old
           /\ new.status # "absent" /\ new.at >= row.at
           /\ old.status = "absent" => new.number = row.number
           /\ old.status # "absent" => new.number = old.number /\ new.at >= old.at
    <3>1. CASE old.status = "absent"
      <4>1. PICK n \in Bill :
               /\ n = [by |-> NoOne, status |-> "completed", number |-> row.number, at |-> row.at]
               /\ n.status = "completed" /\ n.number = row.number /\ n.at = row.at
        <5>1. [by |-> NoOne, status |-> "completed", number |-> row.number, at |-> row.at] \in Bill
          BY <1>5 DEF Bill
        <5> QED
          BY <5>1
      <4>2. n.at >= row.at
        BY <4>1
      <4> QED
        BY <2>2, <3>1, <4>1, <4>2
    <3>2. CASE old.status # "absent" /\ old.at <= row.at
      <4>1. PICK n \in Bill :
               /\ n = [old EXCEPT !.status = "completed", !.at = row.at]
               /\ n.status = "completed" /\ n.number = old.number /\ n.at = row.at
        <5>1. [old EXCEPT !.status = "completed", !.at = row.at] \in Bill
          BY <1>5 DEF Bill
        <5>2. /\ [old EXCEPT !.status = "completed", !.at = row.at].status = "completed"
              /\ [old EXCEPT !.status = "completed", !.at = row.at].number = old.number
              /\ [old EXCEPT !.status = "completed", !.at = row.at].at = row.at
          BY DEF Bill
        <5> QED
          BY <5>1, <5>2
      <4>2. n.at >= row.at /\ n.at >= old.at
        BY <2>3, <3>2, <4>1
      <4> QED
        BY <2>2, <3>2, <4>1, <4>2
    <3>3. CASE old.status # "absent" /\ ~(old.at <= row.at)
      <4>1. old.at >= row.at /\ old.at >= old.at
        BY <2>3, <3>3
      <4> QED
        BY <3>3, <4>1
    <3> QED
      BY <3>1, <3>2, <3>3
  <2>5. db' = [db EXCEPT !.bills[row.rec] = new]
    BY <1>9, <2>3, <2>4 DEF Stored
  <2>6. db' \in Db
    BY <1>1, <2>1, <2>5 DEF Db
  <2>7. /\ db'.bills[row.rec] = new
        /\ \A s \in SaleIds \ {row.rec} : db'.bills[s] = db.bills[s]
        /\ db'.lines = db.lines /\ db'.orders = db.orders /\ db'.supplierAt = db.supplierAt
    BY <1>1, <2>1, <2>5 DEF Db
  <2>8. ASSUME NEW s \in SaleIds, db.bills[s].status # "absent"
        PROVE  /\ db'.bills[s].status # "absent"
               /\ db'.bills[s].number = db.bills[s].number
               /\ db'.bills[s].at >= db.bills[s].at
    BY <1>7, <2>3, <2>4, <2>7, <2>8
  <2>9. ASSUME NEW s \in SaleIds, db.bills[s].status = "absent"
        PROVE  \/ db'.bills[s] = db.bills[s]
               \/ /\ Full(row) /\ s = row.rec /\ db'.bills[s].number = row.number
                  /\ db'.bills[s].status # "absent"
    BY <2>1, <2>3, <2>4, <2>7, <2>9
  <2> QED
    BY <1>8, <1>9, <2>4, <2>6, <2>7, <2>8, <2>9 DEF Db
<1>10. ASSUME row.table # "sales", db' \in Db, db'.bills = db.bills,
              db.lines \subseteq db'.lines, db.orders \subseteq db'.orders,
              \A x \in Suppliers : db'.supplierAt[x] >= db.supplierAt[x],
              row.table = "sale_items" => row.rec \in db'.lines,
              row.table = "purchase_orders" => row.rec \in db'.orders,
              row.table = "suppliers" => db'.supplierAt[row.rec] >= row.at
       PROVE  /\ db' \in Db
              /\ \A s \in SaleIds : db.bills[s].status # "absent" =>
                    /\ db'.bills[s].status # "absent"
                    /\ db'.bills[s].number = db.bills[s].number
                    /\ db'.bills[s].at >= db.bills[s].at
              /\ \A s \in SaleIds : db.bills[s].status = "absent" =>
                    \/ db'.bills[s] = db.bills[s]
                    \/ /\ Full(row) /\ s = row.rec /\ db'.bills[s].number = row.number
                       /\ db'.bills[s].status # "absent"
              /\ db.lines \subseteq db'.lines /\ db.orders \subseteq db'.orders
              /\ \A x \in Suppliers : db'.supplierAt[x] >= db.supplierAt[x]
              /\ row.table = "sales" =>
                    db'.bills[row.rec].status # "absent" /\ db'.bills[row.rec].at >= row.at
              /\ row.table = "sale_items" => row.rec \in db'.lines
              /\ row.table = "purchase_orders" => row.rec \in db'.orders
              /\ row.table = "suppliers" => db'.supplierAt[row.rec] >= row.at
  BY <1>7, <1>10
<1>11. CASE row.table = "sale_items"
  <2>1. row.rec \in SaleIds /\ db' = [db EXCEPT !.lines = db.lines \cup {row.rec}]
    BY <1>11 DEF Sound, Stored
  <2>2. db' \in Db
    BY <1>1, <2>1 DEF Db
  <2>3. /\ db'.bills = db.bills /\ db'.lines = db.lines \cup {row.rec}
        /\ db'.orders = db.orders /\ db'.supplierAt = db.supplierAt
    BY <1>1, <2>1 DEF Db
  <2> QED
    BY <1>8, <1>10, <1>11, <2>2, <2>3 DEF Db
<1>12. CASE row.table = "purchase_orders"
  <2>1. row.rec \in OrderIds /\ db' = [db EXCEPT !.orders = db.orders \cup {row.rec}]
    BY <1>12 DEF Sound, Stored
  <2>2. db' \in Db
    BY <1>1, <2>1 DEF Db
  <2>3. /\ db'.bills = db.bills /\ db'.orders = db.orders \cup {row.rec}
        /\ db'.lines = db.lines /\ db'.supplierAt = db.supplierAt
    BY <1>1, <2>1 DEF Db
  <2> QED
    BY <1>8, <1>10, <1>12, <2>2, <2>3 DEF Db
<1>13. CASE row.table = "products"
  <2>1. row.rec \in Products /\ db' = [db EXCEPT !.products[row.rec] = clock]
    BY <1>13 DEF Sound, Stored
  <2>2. db' \in Db
    BY <1>1, <2>1 DEF Db
  <2>3. /\ db'.bills = db.bills /\ db'.orders = db.orders
        /\ db'.lines = db.lines /\ db'.supplierAt = db.supplierAt
    BY <1>1, <2>1 DEF Db
  <2> QED
    BY <1>8, <1>10, <1>13, <2>2, <2>3 DEF Db
<1>14. CASE row.table = "suppliers" /\ db.supplierAt[row.rec] <= row.at
  <2>1. row.rec \in Suppliers /\ db' = [db EXCEPT !.supplierAt[row.rec] = clock]
    BY <1>14 DEF Sound, Stored
  <2>2. db' \in Db
    BY <1>1, <2>1 DEF Db
  <2>3. /\ db'.bills = db.bills /\ db'.orders = db.orders /\ db'.lines = db.lines
        /\ db'.supplierAt[row.rec] = clock
        /\ \A x \in Suppliers \ {row.rec} : db'.supplierAt[x] = db.supplierAt[x]
    BY <1>1, <2>1 DEF Db
  <2>4. clock >= row.at /\ clock >= db.supplierAt[row.rec]
    BY <1>1, <1>4, <1>6, <1>14, <2>1
  <2>5. \A x \in Suppliers : db'.supplierAt[x] >= db.supplierAt[x]
    BY <1>8, <2>3, <2>4
  <2> QED
    BY <1>10, <1>14, <2>2, <2>3, <2>4, <2>5 DEF Db
<1>15. CASE row.table = "suppliers" /\ ~(db.supplierAt[row.rec] <= row.at)
  <2>1. row.rec \in Suppliers /\ db' = db
    BY <1>15 DEF Sound, Stored
  <2>2. db.supplierAt[row.rec] >= row.at
    BY <1>4, <1>15, <2>1
  <2> QED
    BY <1>1, <1>8, <1>10, <1>15, <2>1, <2>2 DEF Db
<1>16. CASE row.table = "audit_trail"
  <2>1. db' = db
    BY <1>16 DEF Stored
  <2> QED
    BY <1>1, <1>8, <1>10, <1>16, <2>1 DEF Db
<1> QED
  BY <1>5, <1>9, <1>11, <1>12, <1>13, <1>14, <1>15, <1>16, TableTyped

\* A number refused because it is taken is there; so is one just stored.
LEMMA NumbersGrow ==
    ASSUME IInv, NEW t \in Terminals, NEW i \in Due(t), NEW row, row = outbox[t][i],
           db' = db \/ (~Refused(row) /\ db' = Stored(row)),
           bills' = bills
    PROVE  /\ db' \in [products : [Products -> 0..MaxClock], bills : [SaleIds -> Bill],
                       lines : SUBSET SaleIds, orders : SUBSET OrderIds,
                       supplierAt : [Suppliers -> 0..MaxClock]]
           /\ \A n \in B1Numbers : n \in B1Numbers'
           /\ ServerFaithful' /\ Gapless'
           /\ \A r \in Row : Sound(r) /\ r.at \in Int /\ Took(r) => Took(r)'
<1>a. TypeOK /\ ServerFaithful /\ BillsDated /\ Gapless /\ CallsInOrder
  BY DEF IInv
<1>b. /\ i \in call[t].batch /\ i \in DOMAIN outbox[t] /\ i \notin Answered(t)
      /\ \A j \in call[t].batch : j \in Answered(t) \/ i <= j
  BY <1>a DEF CallsInOrder, Due, Unanswered, Answered
<1>c. row \in Row /\ row.at \in Int /\ Sound(row) /\ i \in Nat
  BY <1>b, RowFacts
<1>1. CASE db' = db
  BY <1>1, <1>a DEF TypeOK, B1Numbers, ServerFaithful, Gapless, Took
<1>2. CASE ~Refused(row) /\ db' = Stored(row)
  <2>1. /\ db' \in [products : [Products -> 0..MaxClock], bills : [SaleIds -> Bill],
                    lines : SUBSET SaleIds, orders : SUBSET OrderIds,
                    supplierAt : [Suppliers -> 0..MaxClock]]
        /\ \A s \in SaleIds : db.bills[s].status # "absent" =>
              /\ db'.bills[s].status # "absent"
              /\ db'.bills[s].number = db.bills[s].number
              /\ db'.bills[s].at >= db.bills[s].at
        /\ \A s \in SaleIds : db.bills[s].status = "absent" =>
              \/ db'.bills[s] = db.bills[s]
              \/ /\ Full(row) /\ s = row.rec /\ db'.bills[s].number = row.number
                 /\ db'.bills[s].status # "absent"
        /\ db.lines \subseteq db'.lines /\ db.orders \subseteq db'.orders
        /\ \A x \in Suppliers : db'.supplierAt[x] >= db.supplierAt[x]
    BY <1>2, <1>c, StoredKeeps
  <2>2. \A s \in SaleIds : /\ db.bills[s].number.series = "B1" => db.bills[s].status # "absent"
                           /\ db.bills[s].status = "absent" => db.bills[s].number = NoNumber
    BY <1>a DEF ServerFaithful, NoNumber
  <2>3. \A n \in B1Numbers : n \in B1Numbers'
    BY <2>1, <2>2 DEF B1Numbers
  <2>4. ASSUME NEW n \in B1Numbers', n \notin B1Numbers
        PROVE  Full(row) /\ n = row.number.seq
    <3>1. PICK s \in SaleIds : db'.bills[s].number.series = "B1" /\ n = db'.bills[s].number.seq
      BY DEF B1Numbers
    <3>2. CASE db.bills[s].status # "absent"
      BY <2>1, <2>4, <3>1, <3>2 DEF B1Numbers
    <3>3. CASE db.bills[s].status = "absent"
      BY <2>1, <2>2, <2>4, <3>1, <3>3 DEF NoNumber, B1Numbers
    <3> QED
      BY <3>2, <3>3
  <2>5. ServerFaithful'
    <3> SUFFICES ASSUME NEW s \in SaleIds
                 PROVE  /\ db'.bills[s].status = "absent" => db'.bills[s].number = NoNumber
                        /\ db'.bills[s].status # "absent" =>
                              /\ bills[s].status # "absent"
                              /\ db'.bills[s].number = bills[s].number
                              /\ bills[s].number.series = "B1"
      BY DEF ServerFaithful
    <3>1. CASE db.bills[s].status # "absent"
      BY <1>a, <2>1, <3>1 DEF ServerFaithful
    <3>2. CASE db'.bills[s] = db.bills[s]
      BY <1>a, <3>2 DEF ServerFaithful
    <3>3. CASE /\ Full(row) /\ s = row.rec /\ db'.bills[s].number = row.number
               /\ db'.bills[s].status # "absent"
      BY <1>c, <3>3 DEF Sound
    <3> QED
      BY <2>1, <3>1, <3>2, <3>3
  <2>6. Gapless'
    <3> SUFFICES ASSUME NEW n \in B1Numbers'
                 PROVE  n \in 1..MaxClock /\ (n > 1 => n - 1 \in B1Numbers')
      BY DEF Gapless
    <3>1. CASE n \in B1Numbers
      BY <1>a, <2>3, <3>1 DEF Gapless
    <3>2. CASE n \notin B1Numbers
      <4>1. Full(row) /\ n = row.number.seq
        BY <2>4, <3>2
      <4>2. n \in 1..MaxClock
        <5>1. row.rec \in SaleIds /\ bills[row.rec].status # "absent"
              /\ row.number = bills[row.rec].number
          BY <1>c, <4>1 DEF Sound, Full
        <5>2. PICK b \in Bill : b = bills[row.rec]
          BY <1>a, <5>1 DEF TypeOK
        <5>3. n \in 1..b.at /\ b.at \in 0..MaxClock
          BY <1>a, <4>1, <5>1, <5>2 DEF BillsDated, Bill
        <5>4. PICK m \in 0..MaxClock : m = b.at
          BY <5>3
        <5>5. MaxClock \in Nat
          BY BoundsAssumption
        <5>6. n \in 1..m
          BY <5>3, <5>4
        <5> QED
          BY <5>5, <5>6
      <4>3. ASSUME n > 1 PROVE n - 1 \in B1Numbers
        <5>1. PICK j \in DOMAIN outbox[t] :
                 /\ j < i /\ Full(outbox[t][j])
                 /\ outbox[t][j].number.seq = n - 1
          BY <1>b, <4>1, <4>3, RowFacts
        <5>2. j \in call[t].batch \/ outbox[t][j].mark = "synced"
          BY <1>a, <1>b, <5>1 DEF CallsInOrder
        <5>3. j \in Nat /\ ~(i <= j)
          BY <1>c, <5>1, RowFacts
        <5>4. j \in Answered(t) \/ outbox[t][j].mark = "synced"
          BY <1>b, <5>2, <5>3
        <5> QED
          BY <5>1, <5>4, RowFacts
      <4> QED
        BY <2>3, <4>2, <4>3
    <3> QED
      BY <3>1, <3>2
  <2>7. ASSUME NEW r \in Row, Sound(r), r.at \in Int, Took(r) PROVE Took(r)'
    <3>1. \A x \in 0..MaxClock : x \in Int
      BY BoundsAssumption
    <3>2. \A s \in SaleIds : db.bills[s].at \in Int /\ db'.bills[s].at \in Int
      BY <1>a, <2>1, <3>1 DEF TypeOK, Bill
    <3>3. \A x \in Suppliers : db.supplierAt[x] \in Int /\ db'.supplierAt[x] \in Int
      BY <1>a, <2>1, <3>1 DEF TypeOK
    <3>4. CASE r.table = "sales"
      <4>1. /\ r.rec \in SaleIds /\ db.bills[r.rec].status # "absent"
            /\ db.bills[r.rec].at >= r.at
        BY <2>7, <3>4 DEF Sound, Took
      <4>2. db'.bills[r.rec].status # "absent" /\ db'.bills[r.rec].at >= db.bills[r.rec].at
        BY <2>1, <4>1
      <4>3. db'.bills[r.rec].at >= r.at
        BY <2>7, <3>2, <4>1, <4>2
      <4> QED
        BY <3>4, <4>2, <4>3 DEF Took
    <3>5. CASE r.table = "suppliers"
      <4>1. r.rec \in Suppliers /\ db.supplierAt[r.rec] >= r.at
        BY <2>7, <3>5 DEF Sound, Took
      <4>2. db'.supplierAt[r.rec] >= r.at
        BY <2>1, <2>7, <3>3, <4>1
      <4> QED
        BY <3>5, <4>2 DEF Took
    <3>6. CASE r.table # "sales" /\ r.table # "suppliers"
      BY <2>1, <2>7, <3>6 DEF Took
    <3> QED
      BY <3>4, <3>5, <3>6
  <2> QED
    BY <2>1, <2>3, <2>5, <2>6, <2>7
<1> QED
  BY <1>1, <1>2

LEMMA ApplyNextKeeps ==
    ASSUME IInv, NEW t \in Terminals, ApplyNext(t)
    PROVE  IInv'
<1>1. PICK i \in Due(t) :
         LET row == outbox[t][i] IN
         /\ \/ /\ Conflicting(row)
               /\ call' = [call EXCEPT ![t].conflicts = @ \cup {i}]
               /\ UNCHANGED db
            \/ /\ ~Conflicting(row)
               /\ Refused(row)
               /\ call' = [call EXCEPT ![t].errors = @ \cup {i}]
               /\ UNCHANGED db
            \/ /\ ~Conflicting(row)
               /\ ~Refused(row)
               /\ call' = [call EXCEPT ![t].accepted = @ \cup {i}]
               /\ db' = Stored(row)
         /\ UNCHANGED <<clock, bills, orders, outbox, faults>>
  BY DEF ApplyNext
<1>2. PICK row : row = outbox[t][i]
  OBVIOUS
<1>3. /\ \/ /\ Conflicting(row)
            /\ call' = [call EXCEPT ![t].conflicts = @ \cup {i}]
            /\ db' = db
         \/ /\ Refused(row)
            /\ call' = [call EXCEPT ![t].errors = @ \cup {i}]
            /\ db' = db
         \/ /\ ~Refused(row)
            /\ call' = [call EXCEPT ![t].accepted = @ \cup {i}]
            /\ db' = Stored(row)
      /\ clock' = clock /\ bills' = bills /\ orders' = orders
      /\ outbox' = outbox /\ faults' = faults
  BY <1>1, <1>2
<1>4. TypeOK /\ CallsInOrder /\ RowsInv
  BY DEF IInv
<1>5. i \in call[t].batch /\ i \in DOMAIN outbox[t]
  BY <1>4 DEF CallsInOrder, Due, Unanswered
<1>6. row \in Row /\ row.at \in Int /\ Sound(row) /\ i \in Nat
  BY <1>2, <1>5, RowFacts
<1>7. db' = db \/ (~Refused(row) /\ db' = Stored(row))
  BY <1>3
<1>8. /\ db' \in [products : [Products -> 0..MaxClock], bills : [SaleIds -> Bill],
                  lines : SUBSET SaleIds, orders : SUBSET OrderIds,
                  supplierAt : [Suppliers -> 0..MaxClock]]
      /\ \A n \in B1Numbers : n \in B1Numbers'
      /\ ServerFaithful' /\ Gapless'
      /\ \A r \in Row : Sound(r) /\ r.at \in Int /\ Took(r) => Took(r)'
  BY <1>2, <1>3, <1>7, NumbersGrow
<1>9. call \in [Terminals -> [batch : SUBSET Nat, accepted : SUBSET Nat,
                              conflicts : SUBSET Nat, errors : SUBSET Nat]]
  BY <1>4 DEF TypeOK
<1>10. /\ call' \in [Terminals -> [batch : SUBSET Nat, accepted : SUBSET Nat,
                                   conflicts : SUBSET Nat, errors : SUBSET Nat]]
       /\ \A u \in Terminals : call'[u].batch = call[u].batch
       /\ \A u \in Terminals \ {t} : call'[u] = call[u]
       /\ call'[t].accepted \cup call'[t].conflicts \cup call'[t].errors =
             Answered(t) \cup {i}
       /\ \A j \in call'[t].accepted :
             j \in call[t].accepted \/ (j = i /\ ~Refused(row) /\ db' = Stored(row))
  <2>1. CASE call' = [call EXCEPT ![t].conflicts = @ \cup {i}]
    BY <1>6, <1>9, <2>1 DEF Answered
  <2>2. CASE call' = [call EXCEPT ![t].errors = @ \cup {i}]
    BY <1>6, <1>9, <2>2 DEF Answered
  <2>3. CASE /\ call' = [call EXCEPT ![t].accepted = @ \cup {i}]
             /\ ~Refused(row) /\ db' = Stored(row)
    BY <1>6, <1>9, <2>3 DEF Answered
  <2> QED
    BY <1>3, <2>1, <2>2, <2>3
<1>11. \A u \in Terminals : \A j \in Answered(u)' : j \in Answered(u) \/ (u = t /\ j = i)
  BY <1>10 DEF Answered
<1>12. TypeOK'
  BY <1>3, <1>4, <1>8, <1>10 DEF TypeOK
<1>13. BillsDated' /\ BillRows' /\ RowsSound' /\ Predecessors'
  <2>1. BillsDated' /\ BillRows'
    BY <1>3 DEF IInv, BillsDated, BillRows, Full
  <2>2. RowsSound'
    BY <1>3 DEF IInv, RowsInv, RowsSound, Sound, Full
  <2>3. Predecessors'
    BY <1>3 DEF IInv, RowsInv, Predecessors, Full
  <2> QED
    BY <2>1, <2>2, <2>3
<1>14. CallsInOrder'
  <2> SUFFICES ASSUME NEW u \in Terminals
               PROVE  /\ call'[u].batch \subseteq DOMAIN outbox[u]
                      /\ Answered(u)' \subseteq call'[u].batch
                      /\ \A k \in call'[u].batch : \A j \in DOMAIN outbox[u] :
                            j < k => j \in call'[u].batch \/ outbox[u][j].mark = "synced"
    BY <1>3 DEF CallsInOrder
  <2>1. Answered(u)' \subseteq call[u].batch
    BY <1>4, <1>5, <1>11 DEF CallsInOrder
  <2> QED
    BY <1>4, <1>10, <2>1 DEF CallsInOrder
<1>15. AcceptedTook'
  <2> SUFFICES ASSUME NEW u \in Terminals, NEW j \in DOMAIN outbox[u], NEW r, r = outbox[u][j],
                      j \in call'[u].accepted \/ r.mark = "synced"
               PROVE  Took(r)'
    BY <1>3 DEF AcceptedTook, Took
  <2>1. CASE j \in call[u].accepted \/ r.mark = "synced"
    <3>1. r \in Row /\ Sound(r) /\ r.at \in Int /\ Took(r)
      BY <2>1, RowFacts
    <3> QED
      BY <1>8, <3>1
  <2>2. CASE u = t /\ j = i /\ ~Refused(row) /\ db' = Stored(row)
    <3>1. /\ row.table = "sales" =>
                db'.bills[row.rec].status # "absent" /\ db'.bills[row.rec].at >= row.at
          /\ row.table = "sale_items" => row.rec \in db'.lines
          /\ row.table = "purchase_orders" => row.rec \in db'.orders
          /\ row.table = "suppliers" => db'.supplierAt[row.rec] >= row.at
      BY <1>6, <2>2, StoredKeeps
    <3>2. r = row
      BY <1>2, <2>2
    <3> QED
      BY <3>1, <3>2 DEF Took
  <2> QED
    BY <1>10, <2>1, <2>2
<1>16. Full(row) => row.number.seq \in B1Numbers'
  <2> SUFFICES ASSUME Full(row) PROVE row.number.seq \in B1Numbers'
    OBVIOUS
  <2>1. row.rec \in SaleIds /\ row.number.series = "B1"
    BY <1>6 DEF Sound, Full
  <2>2. CASE db' = db /\ Refused(row)
    <3>1. PICK s \in SaleIds : db.bills[s].number = row.number
      BY <2>2 DEF Refused, Full, NumberTaken
    <3> QED
      BY <2>1, <2>2, <3>1 DEF B1Numbers
  <2>3. CASE db' = Stored(row) /\ ~Refused(row)
    <3>1. /\ db'.bills[row.rec].status # "absent"
      BY <1>6, <2>3, StoredKeeps DEF Full
    <3>2. bills[row.rec].number = row.number
      BY <1>6 DEF Sound
    <3>3. db'.bills[row.rec].number = row.number
      BY <1>3, <1>8, <2>1, <3>1, <3>2 DEF ServerFaithful
    <3> QED
      BY <2>1, <3>3 DEF B1Numbers
  <2>4. ~Conflicting(row)
    BY DEF Conflicting, Full
  <2> QED
    BY <1>3, <2>2, <2>3, <2>4
<1>17. NumbersThere'
  <2> SUFFICES ASSUME NEW u \in Terminals, NEW j \in DOMAIN outbox[u], NEW r, r = outbox[u][j],
                      Full(r), j \in Answered(u)' \/ r.mark = "synced"
               PROVE  r.number.seq \in B1Numbers'
    BY <1>3 DEF NumbersThere, Full
  <2>1. CASE j \in Answered(u) \/ r.mark = "synced"
    BY <1>8, <2>1, RowFacts
  <2>2. CASE u = t /\ j = i
    BY <1>2, <1>16, <2>2
  <2> QED
    BY <1>11, <2>1, <2>2
<1> QED
  BY <1>8, <1>12, <1>13, <1>14, <1>15, <1>17 DEF IInv, RowsInv

\* Two rows that differ in their marks only.
SameRow(a, b) ==
    /\ a.table = b.table /\ a.rec = b.rec /\ a.uuids = b.uuids /\ a.times = b.times
    /\ a.at = b.at /\ a.status = b.status /\ a.number = b.number

LEMMA MarkChanged ==
    ASSUME NEW p \in Row, NEW m \in {"pending", "failed", "synced"}
    PROVE  /\ [p EXCEPT !.mark = m] \in Row
           /\ SameRow([p EXCEPT !.mark = m], p)
           /\ [p EXCEPT !.mark = m].mark = m
  BY DEF Row, SameRow

LEMMA RowsSoundNext ==
    ASSUME \A u \in Terminals : \A i \in DOMAIN outbox'[u] : \A r : r = outbox'[u][i] => Sound(r)'
    PROVE  RowsSound'
  BY DEF RowsSound, Sound, Full

LEMMA PredecessorsNext ==
    ASSUME \A u \in Terminals : \A i \in DOMAIN outbox'[u] : \A r :
              r = outbox'[u][i] /\ Full(r) /\ r.number.seq > 1 =>
                 \E j \in DOMAIN outbox'[u] :
                    /\ j < i /\ Full(outbox'[u][j])
                    /\ outbox'[u][j].number.seq = r.number.seq - 1
    PROVE  Predecessors'
  BY DEF Predecessors, Full

LEMMA RemarkedKeeps ==
    ASSUME IInv, NEW t \in Terminals, HangUp(t), NEW rows,
           outbox' = [outbox EXCEPT ![t] = rows],
           clock' = clock, bills' = bills, orders' = orders, db' = db, faults' \in 0..MaxFaults,
           rows = [i \in DOMAIN outbox[t] |-> rows[i]],
           \A i \in DOMAIN outbox[t] :
              /\ rows[i] \in Row /\ SameRow(rows[i], outbox[t][i])
              /\ rows[i].mark = "synced" =>
                    i \in call[t].accepted \/ outbox[t][i].mark = "synced"
    PROVE  IInv'
<1>1. TypeOK /\ CallsInOrder /\ BillRows
  BY DEF IInv
<1>2. /\ outbox \in [Terminals -> Seq(Row)]
      /\ call \in [Terminals -> [batch : SUBSET Nat, accepted : SUBSET Nat,
                                 conflicts : SUBSET Nat, errors : SUBSET Nat]]
  BY <1>1 DEF TypeOK
<1>3. rows \in Seq(Row) /\ DOMAIN rows = DOMAIN outbox[t]
  <2>1. Len(outbox[t]) \in Nat /\ DOMAIN outbox[t] = 1..Len(outbox[t])
    BY <1>2, LenProperties
  <2>2. rows \in [1..Len(outbox[t]) -> Row]
    BY <2>1
  <2> QED
    BY <2>1, <2>2, SeqDef
<1>4. /\ outbox' \in [Terminals -> Seq(Row)] /\ outbox'[t] = rows
      /\ \A u \in Terminals \ {t} : outbox'[u] = outbox[u]
  BY <1>2, <1>3
<1>5. /\ call' \in [Terminals -> [batch : SUBSET Nat, accepted : SUBSET Nat,
                                  conflicts : SUBSET Nat, errors : SUBSET Nat]]
      /\ call'[t].batch = {} /\ call'[t].accepted = {}
      /\ call'[t].conflicts = {} /\ call'[t].errors = {}
      /\ \A u \in Terminals \ {t} : call'[u] = call[u]
  BY <1>2 DEF HangUp
<1>6. \A u \in Terminals : DOMAIN outbox'[u] = DOMAIN outbox[u]
  BY <1>3, <1>4
<1>7. ASSUME NEW u \in Terminals, NEW i \in DOMAIN outbox[u]
      PROVE  /\ SameRow(outbox'[u][i], outbox[u][i])
             /\ outbox'[u][i].mark = "synced" =>
                   i \in call[u].accepted \/ outbox[u][i].mark = "synced"
  <2>1. CASE u = t
    BY <1>4, <2>1
  <2>2. CASE u # t
    BY <1>4, <2>2 DEF SameRow
  <2> QED
    BY <2>1, <2>2
<1>8. \A u \in Terminals : call'[u].accepted \subseteq call[u].accepted
  BY <1>5
<1>9. \A u \in Terminals : Answered(u)' \subseteq Answered(u)
  <2> SUFFICES ASSUME NEW u \in Terminals PROVE Answered(u)' \subseteq Answered(u)
    OBVIOUS
  <2>1. CASE u = t
    BY <1>5, <2>1 DEF Answered
  <2>2. CASE u # t
    BY <1>5, <2>2 DEF Answered
  <2> QED
    BY <2>1, <2>2
<1>10. TypeOK'
  BY <1>1, <1>4, <1>5 DEF TypeOK
<1>11. BillsDated' /\ ServerFaithful' /\ Gapless'
  BY DEF IInv, BillsDated, ServerFaithful, Gapless, B1Numbers
<1>12. RowsSound'
  <2> SUFFICES ASSUME NEW u \in Terminals, NEW i \in DOMAIN outbox'[u], NEW r,
                      r = outbox'[u][i]
               PROVE  Sound(r)'
    BY RowsSoundNext
  <2>1. Sound(outbox[u][i]) /\ SameRow(r, outbox[u][i])
    BY <1>6, <1>7, RowFacts
  <2>2. Sound(r)
    BY <2>1 DEF Sound, Full, SameRow
  <2> QED
    BY <2>2 DEF Sound, Full
<1>13. AcceptedTook'
  <2> SUFFICES ASSUME NEW u \in Terminals, NEW i \in DOMAIN outbox[u], NEW r,
                      r = outbox'[u][i], i \in call'[u].accepted \/ r.mark = "synced"
               PROVE  Took(r)
    <3>1. \A r : Took(r)' <=> Took(r)
      BY <1>6 DEF Took
    <3> QED
      BY <1>6, <3>1 DEF AcceptedTook
  <2>1. SameRow(r, outbox[u][i]) /\ Took(outbox[u][i])
    BY <1>7, <1>8, RowFacts
  <2> QED
    BY <2>1 DEF Took, SameRow
<1>14. NumbersThere'
  <2> SUFFICES ASSUME NEW u \in Terminals, NEW i \in DOMAIN outbox[u], NEW r,
                      r = outbox'[u][i], Full(r), i \in Answered(u)' \/ r.mark = "synced"
               PROVE  r.number.seq \in B1Numbers
    <3>1. B1Numbers' = B1Numbers
      BY <1>6 DEF B1Numbers
    <3> QED
      BY <1>6, <3>1 DEF NumbersThere
  <2>1. /\ SameRow(r, outbox[u][i])
        /\ i \in Answered(u) \/ outbox[u][i].mark = "synced"
    BY <1>7, <1>9 DEF Answered
  <2>2. Full(outbox[u][i])
    BY <2>1 DEF Full, SameRow
  <2>3. outbox[u][i].number.seq \in B1Numbers
    BY <2>1, <2>2, RowFacts
  <2> QED
    BY <2>1, <2>3 DEF SameRow
<1>15. \A u \in Terminals : \A i \in DOMAIN outbox[u] :
          /\ Full(outbox[u][i]) <=> Full(outbox'[u][i])
          /\ outbox[u][i].number = outbox'[u][i].number
  <2>1. \A a, b : SameRow(a, b) => (Full(a) <=> Full(b)) /\ a.number = b.number
    BY DEF Full, SameRow
  <2> QED
    BY <1>7, <2>1
<1>16. Predecessors'
  <2>1. ASSUME NEW u \in Terminals, NEW i \in DOMAIN outbox'[u], NEW r,
               r = outbox'[u][i] /\ Full(r) /\ r.number.seq > 1
        PROVE  \E j \in DOMAIN outbox'[u] :
                  /\ j < i /\ Full(outbox'[u][j])
                  /\ outbox'[u][j].number.seq = r.number.seq - 1
    <3>1. i \in DOMAIN outbox[u] /\ Full(outbox[u][i]) /\ outbox[u][i].number.seq > 1
      BY <1>6, <1>15, <2>1
    <3>2. PICK j \in DOMAIN outbox[u] :
             /\ j < i /\ Full(outbox[u][j])
             /\ outbox[u][j].number.seq = outbox[u][i].number.seq - 1
      BY <3>1, RowFacts
    <3> QED
      BY <1>6, <1>15, <2>1, <3>1, <3>2
  <2> QED
    BY <2>1, PredecessorsNext
<1>17. BillRows'
  <2> SUFFICES ASSUME NEW s \in SaleIds, NEW u \in Terminals,
                      bills'[s].by = u, bills'[s].number.series = "B1"
               PROVE  \E i \in DOMAIN outbox'[u] :
                         Full(outbox'[u][i]) /\ outbox'[u][i].number = bills'[s].number
    BY DEF BillRows, Full
  <2>1. PICK i \in DOMAIN outbox[u] :
           Full(outbox[u][i]) /\ outbox[u][i].number = bills[s].number
    BY <1>1 DEF BillRows
  <2> QED
    BY <1>6, <1>15, <2>1
<1>18. CallsInOrder'
  <2> SUFFICES ASSUME NEW u \in Terminals
               PROVE  /\ call'[u].batch \subseteq DOMAIN outbox'[u]
                      /\ Answered(u)' \subseteq call'[u].batch
                      /\ \A i \in call'[u].batch : \A j \in DOMAIN outbox'[u] :
                            j < i => j \in call'[u].batch \/ outbox'[u][j].mark = "synced"
    BY DEF CallsInOrder
  <2>1. CASE u = t
    BY <1>5, <2>1 DEF Answered
  <2>2. CASE u # t
    BY <1>1, <1>4, <1>5, <1>9, <2>2 DEF CallsInOrder
  <2> QED
    BY <2>1, <2>2
<1> QED
  BY <1>10, <1>11, <1>12, <1>13, <1>14, <1>16, <1>17, <1>18 DEF IInv, RowsInv

LEMMA SameRowItself ==
    ASSUME NEW a
    PROVE  SameRow(a, a)
  BY DEF SameRow

LEMMA MarkedKeeps ==
    ASSUME IInv, NEW t \in Terminals, NEW S
    PROVE  /\ Marked(t, S, "pending") = [i \in DOMAIN outbox[t] |-> Marked(t, S, "pending")[i]]
           /\ \A i \in DOMAIN outbox[t] :
                 /\ Marked(t, S, "pending")[i] \in Row
                 /\ SameRow(Marked(t, S, "pending")[i], outbox[t][i])
                 /\ Marked(t, S, "pending")[i].mark = "synced" => outbox[t][i].mark = "synced"
<1>1. Marked(t, S, "pending") = [i \in DOMAIN outbox[t] |-> Marked(t, S, "pending")[i]]
  BY DEF Marked
<1>2. ASSUME NEW i \in DOMAIN outbox[t]
      PROVE  /\ Marked(t, S, "pending")[i] \in Row
             /\ SameRow(Marked(t, S, "pending")[i], outbox[t][i])
             /\ Marked(t, S, "pending")[i].mark = "synced" => outbox[t][i].mark = "synced"
  <2>1. outbox[t][i] \in Row
    BY RowFacts
  <2>2. CASE i \in S
    <3>1. Marked(t, S, "pending")[i] = [outbox[t][i] EXCEPT !.mark = "pending"]
      BY <2>2 DEF Marked
    <3> QED
      BY <2>1, <3>1, MarkChanged
  <2>3. CASE i \notin S
    <3>1. Marked(t, S, "pending")[i] = outbox[t][i]
      BY <2>3 DEF Marked
    <3> QED
      BY <2>1, <3>1, SameRowItself
  <2> QED
    BY <2>2, <2>3
<1> QED
  BY <1>1, <1>2

LEMMA SettleKeeps ==
    ASSUME IInv, NEW t \in Terminals, Settle(t)
    PROVE  IInv'
<1>1. /\ outbox' = [outbox EXCEPT ![t] = MarksOf(t)] /\ HangUp(t)
      /\ clock' = clock /\ bills' = bills /\ orders' = orders /\ db' = db /\ faults' = faults
  BY DEF Settle
<1>2. faults' \in 0..MaxFaults
  BY <1>1 DEF IInv, TypeOK
<1>3. PICK rows :
         /\ rows = MarksOf(t)
         /\ rows = [i \in DOMAIN outbox[t] |-> rows[i]]
         /\ \A i \in DOMAIN outbox[t] :
               /\ rows[i] \in Row /\ SameRow(rows[i], outbox[t][i])
               /\ rows[i].mark = "synced" =>
                     i \in call[t].accepted \/ outbox[t][i].mark = "synced"
  <2>1. CASE call[t].conflicts # {}
    <3>1. MarksOf(t) = Marked(t, call[t].batch, "pending")
      BY <2>1 DEF MarksOf
    <3> QED
      BY <3>1, MarkedKeeps
  <2>2. CASE call[t].conflicts = {}
    <3>1. MarksOf(t) =
            [i \in DOMAIN outbox[t] |->
               IF i \in call[t].accepted THEN [outbox[t][i] EXCEPT !.mark = "synced"]
               ELSE IF i \in call[t].errors THEN [outbox[t][i] EXCEPT !.mark = "failed"]
               ELSE outbox[t][i]]
      BY <2>2 DEF MarksOf
    <3>2. MarksOf(t) = [i \in DOMAIN outbox[t] |-> MarksOf(t)[i]]
      BY <3>1
    <3>3. ASSUME NEW i \in DOMAIN outbox[t]
          PROVE  /\ MarksOf(t)[i] \in Row /\ SameRow(MarksOf(t)[i], outbox[t][i])
                 /\ MarksOf(t)[i].mark = "synced" =>
                       i \in call[t].accepted \/ outbox[t][i].mark = "synced"
      <4>1. outbox[t][i] \in Row
        BY RowFacts
      <4>2. CASE i \in call[t].accepted
        <5>1. MarksOf(t)[i] = [outbox[t][i] EXCEPT !.mark = "synced"]
          BY <3>1, <4>2
        <5> QED
          BY <4>1, <4>2, <5>1, MarkChanged
      <4>3. CASE i \notin call[t].accepted /\ i \in call[t].errors
        <5>1. MarksOf(t)[i] = [outbox[t][i] EXCEPT !.mark = "failed"]
          BY <3>1, <4>3
        <5> QED
          BY <4>1, <5>1, MarkChanged
      <4>4. CASE i \notin call[t].accepted /\ i \notin call[t].errors
        <5>1. MarksOf(t)[i] = outbox[t][i]
          BY <3>1, <4>4
        <5> QED
          BY <4>1, <5>1, SameRowItself
      <4> QED
        BY <4>2, <4>3, <4>4
    <3> QED
      BY <3>2, <3>3
  <2> QED
    BY <2>1, <2>2
<1> QED
  BY <1>1, <1>2, <1>3, RemarkedKeeps

LEMMA InterruptKeeps ==
    ASSUME IInv, NEW t \in Terminals, Interrupt(t)
    PROVE  IInv'
<1>1. /\ outbox' = [outbox EXCEPT ![t] = Marked(t, call[t].batch, "pending")] /\ HangUp(t)
      /\ clock' = clock /\ bills' = bills /\ orders' = orders /\ db' = db
      /\ faults < MaxFaults /\ faults' = faults + 1
  BY DEF Interrupt
<1>2. faults' \in 0..MaxFaults
  BY <1>1, BoundsAssumption DEF IInv, TypeOK
<1>3. PICK rows :
         /\ rows = Marked(t, call[t].batch, "pending")
         /\ rows = [i \in DOMAIN outbox[t] |-> rows[i]]
         /\ \A i \in DOMAIN outbox[t] :
               /\ rows[i] \in Row /\ SameRow(rows[i], outbox[t][i])
               /\ rows[i].mark = "synced" =>
                     i \in call[t].accepted \/ outbox[t][i].mark = "synced"
  BY MarkedKeeps
<1>4. outbox' = [outbox EXCEPT ![t] = rows]
  BY <1>1, <1>3
<1>5. clock' = clock /\ bills' = bills /\ orders' = orders /\ db' = db /\ HangUp(t)
  BY <1>1
<1> QED
  BY <1>2, <1>3, <1>4, <1>5, RemarkedKeeps

-----------------------------------------------------------------------------
(* The theorems *)

LEMMA InitIInv ==
    ASSUME Init
    PROVE  IInv
<1>1. /\ MaxClock \in Nat \ {0} /\ MaxFaults \in Nat
      /\ 0 \in 0..MaxClock /\ 1 \in 0..MaxClock /\ 0 \in 0..MaxFaults
  BY BoundsAssumption
<1>2. NoNumber \in Number /\ NoNumber.series = "none"
  BY <1>1 DEF NoNumber, Number
<1>3. /\ NoBill \in Bill /\ NoBill.status = "absent" /\ NoBill.by = NoOne
      /\ NoBill.number = NoNumber /\ NoBill.at = 0
  BY <1>1, <1>2 DEF NoBill, Bill
<1>4. /\ clock = 1 /\ bills = [s \in SaleIds |-> NoBill] /\ orders = {} /\ faults = 0
      /\ outbox = [t \in Terminals |-> <<>>]
      /\ call = [t \in Terminals |->
                   [batch |-> {}, accepted |-> {}, conflicts |-> {}, errors |-> {}]]
      /\ db.bills = [s \in SaleIds |-> NoBill]
  BY DEF Init
<1>5. db \in [products : [Products -> 0..MaxClock], bills : [SaleIds -> Bill],
              lines : SUBSET SaleIds, orders : SUBSET OrderIds,
              supplierAt : [Suppliers -> 0..MaxClock]]
  BY <1>1, <1>3 DEF Init
<1>6. <<>> \in Seq(Row) /\ DOMAIN <<>> = {}
  OBVIOUS
<1>7. \A t \in Terminals : DOMAIN outbox[t] = {}
  BY <1>4, <1>6
<1>8. TypeOK
  BY <1>1, <1>3, <1>4, <1>5, <1>6 DEF TypeOK
<1>9. \A s \in SaleIds : bills[s] = NoBill /\ db.bills[s] = NoBill
  BY <1>4
<1>10. BillsDated
  BY <1>3, <1>4, <1>9 DEF BillsDated
<1>11. ServerFaithful
  BY <1>3, <1>9 DEF ServerFaithful
<1>12. BillRows
  BY <1>2, <1>3, <1>9 DEF BillRows
<1>13. B1Numbers = {}
  BY <1>2, <1>3, <1>9 DEF B1Numbers
<1>14. Gapless
  BY <1>13 DEF Gapless
<1>15. RowsInv
  BY <1>7 DEF RowsInv, RowsSound, AcceptedTook, NumbersThere, Predecessors
<1>16. CallsInOrder
  BY <1>4 DEF CallsInOrder, Answered
<1> QED
  BY <1>8, <1>10, <1>11, <1>12, <1>14, <1>15, <1>16 DEF IInv

LEMMA StepKeepsIInv ==
    ASSUME IInv, [Next]_vars
    PROVE  IInv'
<1>1. CASE Next
  <2>1. PICK t \in Terminals :
           \/ \E s \in SaleIds : CompleteSale(t, s) \/ CreateSale(t, s) \/ CancelSale(t, s)
           \/ \E o \in OrderIds, p \in Products, x \in Suppliers : StockIn(t, o, p, x)
           \/ StartSync(t) \/ ApplyNext(t) \/ Settle(t) \/ Interrupt(t)
    BY <1>1 DEF Next
  <2>2. ASSUME NEW s \in SaleIds, CompleteSale(t, s) PROVE IInv'
    BY <2>2, CompleteSaleKeeps
  <2>3. ASSUME NEW s \in SaleIds, CreateSale(t, s) PROVE IInv'
    BY <2>3, CreateSaleKeeps
  <2>4. ASSUME NEW s \in SaleIds, CancelSale(t, s) PROVE IInv'
    BY <2>4, CancelSaleKeeps
  <2>5. ASSUME NEW o \in OrderIds, NEW p \in Products, NEW x \in Suppliers, StockIn(t, o, p, x)
        PROVE  IInv'
    BY <2>5, StockInKeeps
  <2>6. CASE StartSync(t)
    BY <2>6, StartSyncKeeps
  <2>7. CASE ApplyNext(t)
    BY <2>7, ApplyNextKeeps
  <2>8. CASE Settle(t)
    BY <2>8, SettleKeeps
  <2>9. CASE Interrupt(t)
    BY <2>9, InterruptKeeps
  <2> QED
    BY <2>1, <2>2, <2>3, <2>4, <2>5, <2>6, <2>7, <2>8, <2>9
<1>2. CASE UNCHANGED vars
  <2>1. /\ clock' = clock /\ bills' = bills /\ orders' = orders /\ outbox' = outbox
        /\ call' = call /\ db' = db /\ faults' = faults
    BY <1>2 DEF vars
  <2>2. TypeOK'
    BY <2>1 DEF IInv, TypeOK
  <2>4. BillsDated' /\ ServerFaithful' /\ BillRows' /\ Gapless'
    BY <2>1 DEF IInv, BillsDated, ServerFaithful, BillRows, Gapless, B1Numbers, Full
  <2>3. RowsInv' /\ CallsInOrder'
    <3>1. RowsSound'
      BY <2>1 DEF IInv, RowsInv, RowsSound, Sound, Full
    <3>2. AcceptedTook'
      BY <2>1 DEF IInv, RowsInv, AcceptedTook, Took
    <3>3. NumbersThere'
      <4>1. B1Numbers' = B1Numbers /\ \A t \in Terminals : Answered(t)' = Answered(t)
        BY <2>1 DEF B1Numbers, Answered
      <4> QED
        BY <2>1, <4>1 DEF IInv, RowsInv, NumbersThere
    <3>4. Predecessors'
      BY <2>1 DEF IInv, RowsInv, Predecessors, Full
    <3>5. CallsInOrder'
      BY <2>1 DEF IInv, CallsInOrder, Answered
    <3> QED
      BY <3>1, <3>2, <3>3, <3>4, <3>5 DEF RowsInv
  <2> QED
    BY <2>2, <2>3, <2>4 DEF IInv
<1> QED
  BY <1>1, <1>2

\* IInv holds in every state of every behaviour.
LEMMA Invariance == Spec => []IInv
<1>1. Init => IInv
  BY InitIInv
<1>2. IInv /\ [Next]_vars => IInv'
  BY StepKeepsIInv
<1> QED
  BY <1>1, <1>2, PTL DEF Spec

\* Every terminal's bills and outbox, its call and the server's tables keep
\* their shape, however many terminals, ids and operations there are.
THEOREM TypeCorrect == Spec => []TypeOK
<1>1. IInv => TypeOK
  BY DEF IInv
<1> QED
  BY <1>1, Invariance, PTL

\* A row marked synced has taken effect on the server, whatever was lost,
\* refused or answered with a conflict in between: MarksOf marks none but
\* accepted rows, and the server forgets nothing it has taken.
THEOREM SyncedAlwaysStored == Spec => []SyncedMeansStored
<1>1. IInv => SyncedMeansStored
  <2> SUFFICES ASSUME IInv, NEW t \in Terminals, NEW i \in DOMAIN outbox[t],
                      NEW row, row = outbox[t][i], row.mark = "synced"
               PROVE  /\ row.table = "sales" =>
                            /\ db.bills[row.rec].number = bills[row.rec].number
                            /\ db.bills[row.rec].at >= row.at
                      /\ row.table = "sale_items" => row.rec \in db.lines
                      /\ row.table = "purchase_orders" => row.rec \in db.orders
                      /\ row.table = "suppliers" => db.supplierAt[row.rec] >= row.at
    BY DEF SyncedMeansStored, Synced
  <2>1. Took(row) /\ Sound(row)
    BY RowFacts
  <2>2. ASSUME row.table = "sales"
        PROVE  db.bills[row.rec].number = bills[row.rec].number
    BY <2>1, <2>2 DEF Took, Sound, IInv, ServerFaithful
  <2> QED
    BY <2>1, <2>2 DEF Took
<1> QED
  BY <1>1, Invariance, PTL

\* At no moment has the audit tool a gap to report: the numbers of the
\* server's bills are those of an initial segment, for every number of
\* terminals that hand out the same branch's numbers, every batch size and
\* every loss.
THEOREM AuditAlwaysPasses == Spec => []AuditPasses
<1>1. IInv => AuditPasses
  <2> SUFFICES ASSUME IInv PROVE AuditPasses
    OBVIOUS
  <2> DEFINE S == B1Numbers
  <2>1. S \in SUBSET (1..MaxClock) /\ MaxClock \in Nat
    BY BoundsAssumption DEF IInv, Gapless
  <2>2. \A n \in S : n > 1 => n - 1 \in S
    BY DEF IInv, Gapless
  <2> HIDE DEF S
  <2>3. BrokenSequences(S) = 0 /\ (S # {} => 1 \in S)
    BY <2>1, <2>2, GaplessPasses
  <2> QED
    BY <2>3 DEF AuditPasses, S
<1> QED
  BY <1>1, Invariance, PTL
=============================================================================
