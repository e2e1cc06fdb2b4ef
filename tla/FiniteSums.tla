----------------------------- MODULE FiniteSums -----------------------------
(***************************************************************************)
(* What SumFunctionOnSet computes over a finite set: the lemmas the proofs *)
(* about stock and balances need.  The sum is a recursive function on the  *)
(* subsets of the index set.  Instead of an induction principle, which     *)
(* would take a predicate as its parameter, every proof takes a minimal    *)
(* counterexample, which theorem WFMin provides as a set-theoretic fact.   *)
(***************************************************************************)
EXTENDS Integers, FiniteSets, Functions, FiniteSetTheorems, TLAPS

Pick(T) == CHOOSE x \in T : TRUE

\* g is the recursive function behind the sum of f over the subsets of S.
SumsUp(g, f, S) ==
    g = [T \in SUBSET S |-> IF T = {} THEN 0 ELSE f[Pick(T)] + g[T \ {Pick(T)}]]

\* A non-empty set of finite sets has a member none of whose proper subsets
\* is in it.
LEMMA MinimalSet ==
    ASSUME NEW S, IsFiniteSet(S), NEW B \in SUBSET (SUBSET S), B # {}
    PROVE  \E T \in B : \A U \in B : ~(U \subseteq T /\ U # T)
<1>1. IsWellFoundedOn(StrictSubsetOrdering(S), SUBSET S)
  BY FS_StrictSubsetOrderingWellFounded, FS_FiniteSubsetsOfFinite
<1>2. PICK T \in B : \A U \in B : ~(<<U, T>> \in StrictSubsetOrdering(S))
  BY <1>1, WFMin
<1> QED
  BY <1>2 DEF StrictSubsetOrdering

\* A non-empty set of natural numbers up to m has a least member.
LEMMA LeastNumber ==
    ASSUME NEW m \in Nat, NEW K \in SUBSET (1..m), K # {}
    PROVE  \E k \in K : \A l \in K : k <= l
<1> DEFINE S == 1..m
           B == {1..k : k \in K}
<1>1. IsFiniteSet(S)
  BY FS_Interval
<1>2. B \in SUBSET (SUBSET S) /\ B # {}
  <2>1. ASSUME NEW k \in K PROVE 1..k \in SUBSET (1..m)
    OBVIOUS
  <2> QED
    BY <2>1
<1>3. PICK T \in B : \A U \in B : ~(U \subseteq T /\ U # T)
  <2> HIDE DEF B, S
  <2> QED
    BY <1>1, <1>2, MinimalSet
<1>4. PICK k \in K : T = 1..k
  BY <1>3
<1>5. ASSUME NEW l \in K, l < k PROVE FALSE
  <2>1. 1..l \in B /\ 1..l \subseteq T
    BY <1>4, <1>5
  <2>2. k \in T /\ k \notin 1..l
    BY <1>4, <1>5
  <2> QED
    BY <1>3, <2>1, <2>2
<1> QED
  BY <1>5

LEMMA PickIn ==
    ASSUME NEW T, T # {}
    PROVE  Pick(T) \in T
  BY DEF Pick

\* Two such functions agree wherever both are defined.
LEMMA SumsAgree ==
    ASSUME NEW f, NEW S, NEW U, IsFiniteSet(S), NEW g, NEW h,
           SumsUp(g, f, S), SumsUp(h, f, U)
    PROVE  \A T \in SUBSET S : T \subseteq U => g[T] = h[T]
<1> DEFINE B == {T \in SUBSET S : T \subseteq U /\ g[T] # h[T]}
<1> SUFFICES ASSUME B # {} PROVE FALSE
  OBVIOUS
<1>0. B \in SUBSET (SUBSET S)
  OBVIOUS
<1>1. PICK T \in B : \A V \in B : ~(V \subseteq T /\ V # T)
  <2> HIDE DEF B
  <2> QED
    BY <1>0, MinimalSet
<1>2. CASE T = {}
  BY <1>1, <1>2 DEF SumsUp
<1>3. CASE T # {}
  <2>1. Pick(T) \in T
    BY <1>3, PickIn
  <2>2. T \ {Pick(T)} \notin B
    BY <1>1, <2>1
  <2>3. g[T \ {Pick(T)}] = h[T \ {Pick(T)}]
    BY <1>1, <2>2
  <2>4. /\ g[T] = f[Pick(T)] + g[T \ {Pick(T)}]
        /\ h[T] = f[Pick(T)] + h[T \ {Pick(T)}]
    BY <1>1, <1>3 DEF SumsUp
  <2> QED
    BY <1>1, <2>3, <2>4
<1> QED
  BY <1>2, <1>3

\* The recursive function exists.
LEMMA SumExists ==
    ASSUME NEW f, NEW S, IsFiniteSet(S)
    PROVE  \E g : SumsUp(g, f, S)
<1> DEFINE B == {T \in SUBSET S : ~ \E g : SumsUp(g, f, T)}
<1> SUFFICES ASSUME B # {} PROVE FALSE
  OBVIOUS
<1>0. B \in SUBSET (SUBSET S)
  OBVIOUS
<1>1. PICK T \in B : \A V \in B : ~(V \subseteq T /\ V # T)
  <2> HIDE DEF B
  <2> QED
    BY <1>0, MinimalSet
<1> DEFINE G(W) == CHOOSE g : SumsUp(g, f, W)
           h == [V \in SUBSET T |->
                   IF V = {} THEN 0 ELSE f[Pick(V)] + G(V \ {Pick(V)})[V \ {Pick(V)}]]
<1>2. ASSUME NEW W, W \subseteq T, W # T PROVE SumsUp(G(W), f, W)
  <2>1. \E g : SumsUp(g, f, W)
    BY <1>1, <1>2
  <2> QED
    BY <2>1
<1>3. ASSUME NEW W \in SUBSET T, W # T PROVE h[W] = G(W)[W]
  <2>1. SumsUp(G(W), f, W)
    BY <1>2, <1>3
  <2>2. CASE W = {}
    <3>1. h[W] = 0
      BY <2>2
    <3> HIDE DEF G, h
    <3> QED
      BY <2>1, <2>2, <3>1 DEF SumsUp
  <2>3. CASE W # {}
    <3> DEFINE R == W \ {Pick(W)}
    <3>1. Pick(W) \in W
      BY <2>3, PickIn
    <3>2. SumsUp(G(R), f, R)
      BY <1>2, <1>3, <3>1
    <3>3. h[W] = f[Pick(W)] + G(R)[R]
      BY <2>3
    <3>4. IsFiniteSet(R)
      BY FS_Subset
    <3> HIDE DEF G, h
    <3>5. G(R)[R] = G(W)[R]
      <4>1. R \in SUBSET R /\ R \subseteq W
        OBVIOUS
      <4> HIDE DEF R
      <4> QED
        BY <2>1, <3>2, <3>4, <4>1, SumsAgree
    <3>6. G(W)[W] = f[Pick(W)] + G(W)[R]
      BY <2>1, <2>3 DEF SumsUp
    <3> QED
      BY <3>3, <3>5, <3>6
  <2> QED
    BY <2>2, <2>3
<1>4. SumsUp(h, f, T)
  <2>1. \A V \in SUBSET T : V # {} => G(V \ {Pick(V)})[V \ {Pick(V)}] = h[V \ {Pick(V)}]
    <3> SUFFICES ASSUME NEW V \in SUBSET T, V # {}
                 PROVE  G(V \ {Pick(V)})[V \ {Pick(V)}] = h[V \ {Pick(V)}]
      OBVIOUS
    <3>1. Pick(V) \in V
      BY PickIn
    <3>2. (V \ {Pick(V)}) \in SUBSET T /\ (V \ {Pick(V)}) # T
      BY <3>1
    <3> HIDE DEF G, h
    <3> QED
      BY <1>3, <3>2
  <2>2. h = [V \in SUBSET T |-> IF V = {} THEN 0 ELSE f[Pick(V)] + h[V \ {Pick(V)}]]
    <3> DEFINE hh == [V \in SUBSET T |-> IF V = {} THEN 0 ELSE f[Pick(V)] + h[V \ {Pick(V)}]]
    <3>1. ASSUME NEW V \in SUBSET T PROVE h[V] = hh[V]
      <4>1. CASE V = {}
        BY <4>1
      <4>2. CASE V # {}
        <5>1. h[V] = f[Pick(V)] + G(V \ {Pick(V)})[V \ {Pick(V)}]
          BY <4>2
        <5>2. hh[V] = f[Pick(V)] + h[V \ {Pick(V)}]
          BY <4>2
        <5> HIDE DEF G, h, hh
        <5> QED
          BY <2>1, <4>2, <5>1, <5>2
      <4> QED
        BY <4>1, <4>2
    <3> QED
      BY <3>1
  <2> HIDE DEF h
  <2> QED
    BY <2>2 DEF SumsUp
<1> QED
  BY <1>1, <1>4

\* The sum over S is the value at S of that function.
LEMMA SumIs ==
    ASSUME NEW f, NEW S, IsFiniteSet(S), NEW g, SumsUp(g, f, S)
    PROVE  SumFunctionOnSet(f, S) = g[S]
<1> DEFINE h == CHOOSE h : h = [T \in SUBSET S |-> IF T = {} THEN 0 ELSE f[Pick(T)] + h[T \ {Pick(T)}]]
<1>1. SumFunctionOnSet(f, S) = h[S]
  BY DEF SumFunctionOnSet, FoldFunctionOnSet, MapThenFoldSet, Pick
<1>2. SumsUp(h, f, S)
  BY DEF SumsUp
<1> HIDE DEF h
<1> QED
  BY <1>1, <1>2, SumsAgree

\* The empty sum is zero; another is one element and the sum of the rest.
LEMMA SumEmpty ==
    ASSUME NEW f
    PROVE  SumFunctionOnSet(f, {}) = 0
<1>1. IsFiniteSet({})
  BY FS_EmptySet
<1>2. PICK g : SumsUp(g, f, {})
  BY <1>1, SumExists
<1>3. g[{}] = 0
  BY <1>2 DEF SumsUp
<1> QED
  BY <1>1, <1>2, <1>3, SumIs

LEMMA SumUnfold ==
    ASSUME NEW f, NEW S, IsFiniteSet(S), S # {}
    PROVE  SumFunctionOnSet(f, S) = f[Pick(S)] + SumFunctionOnSet(f, S \ {Pick(S)})
<1> DEFINE R == S \ {Pick(S)}
<1>1. IsFiniteSet(R)
  BY FS_Subset
<1>2. PICK g : SumsUp(g, f, S)
  BY SumExists
<1>3. PICK h : SumsUp(h, f, R)
  BY <1>1, SumExists
<1>4. g[S] = f[Pick(S)] + g[R]
  BY <1>2 DEF SumsUp
<1>5. R \in SUBSET R /\ R \subseteq S
  OBVIOUS
<1> HIDE DEF R
<1>6. h[R] = g[R]
  BY <1>1, <1>2, <1>3, <1>5, SumsAgree
<1>7. SumFunctionOnSet(f, S) = g[S] /\ SumFunctionOnSet(f, R) = h[R]
  BY <1>1, <1>2, <1>3, SumIs
<1> QED
  BY <1>4, <1>6, <1>7 DEF R

\* A sum of integers is an integer.
LEMMA SumTyped ==
    ASSUME NEW f, NEW S, IsFiniteSet(S), \A x \in S : f[x] \in Int
    PROVE  SumFunctionOnSet(f, S) \in Int
<1> DEFINE B == {T \in SUBSET S : SumFunctionOnSet(f, T) \notin Int}
<1> SUFFICES ASSUME B # {} PROVE FALSE
  OBVIOUS
<1>0. B \in SUBSET (SUBSET S)
  OBVIOUS
<1>1. PICK T \in B : \A V \in B : ~(V \subseteq T /\ V # T)
  <2> HIDE DEF B
  <2> QED
    BY <1>0, MinimalSet
<1>2. CASE T = {}
  <2>1. SumFunctionOnSet(f, {}) = 0
    BY SumEmpty
  <2>2. SumFunctionOnSet(f, T) \in Int
    BY <1>2, <2>1
  <2> QED
    BY <1>1, <2>2
<1>3. CASE T # {}
  <2>1. Pick(T) \in T
    BY <1>3, PickIn
  <2>2. SumFunctionOnSet(f, T \ {Pick(T)}) \in Int
    BY <1>1, <2>1
  <2>3. SumFunctionOnSet(f, T) = f[Pick(T)] + SumFunctionOnSet(f, T \ {Pick(T)})
    BY <1>3, SumUnfold, FS_Subset
  <2> QED
    BY <1>1, <2>1, <2>2, <2>3
<1> QED
  BY <1>2, <1>3

\* Any element may be split off.
LEMMA SumRemove ==
    ASSUME NEW f, NEW S, IsFiniteSet(S), \A x \in S : f[x] \in Int, NEW x \in S
    PROVE  SumFunctionOnSet(f, S) = f[x] + SumFunctionOnSet(f, S \ {x})
<1> DEFINE B == {T \in SUBSET S :
                   \E y \in T : SumFunctionOnSet(f, T) # f[y] + SumFunctionOnSet(f, T \ {y})}
<1> SUFFICES ASSUME B # {} PROVE FALSE
  OBVIOUS
<1>0. B \in SUBSET (SUBSET S)
  OBVIOUS
<1>1. PICK T \in B : \A V \in B : ~(V \subseteq T /\ V # T)
  <2> HIDE DEF B
  <2> QED
    BY <1>0, MinimalSet
<1>2. PICK y \in T : SumFunctionOnSet(f, T) # f[y] + SumFunctionOnSet(f, T \ {y})
  BY <1>1
<1> DEFINE p == Pick(T)
<1>3. p \in T
  BY <1>2, PickIn
<1>4. \A V \in SUBSET T : V # T =>
         \A z \in V : SumFunctionOnSet(f, V) = f[z] + SumFunctionOnSet(f, V \ {z})
  BY <1>1
<1>5. SumFunctionOnSet(f, T) = f[p] + SumFunctionOnSet(f, T \ {p})
  BY <1>2, SumUnfold, FS_Subset
<1>6. p # y
  BY <1>2, <1>5
<1> HIDE DEF p, B
<1>7. SumFunctionOnSet(f, T \ {p}) = f[y] + SumFunctionOnSet(f, (T \ {p}) \ {y})
  <2>1. (T \ {p}) \in SUBSET T /\ (T \ {p}) # T /\ y \in T \ {p}
    BY <1>2, <1>3, <1>6
  <2> QED
    BY <1>4, <2>1
<1>8. SumFunctionOnSet(f, T \ {y}) = f[p] + SumFunctionOnSet(f, (T \ {p}) \ {y})
  <2>1. (T \ {y}) \in SUBSET T /\ (T \ {y}) # T /\ p \in T \ {y}
    BY <1>2, <1>3, <1>6
  <2>2. (T \ {y}) \ {p} = (T \ {p}) \ {y}
    OBVIOUS
  <2> QED
    BY <1>4, <2>1, <2>2
<1>9. f[p] \in Int /\ f[y] \in Int /\ SumFunctionOnSet(f, (T \ {p}) \ {y}) \in Int
  <2>1. T \subseteq S
    BY <1>0
  <2>2. IsFiniteSet((T \ {p}) \ {y})
    BY <2>1, FS_Subset
  <2> QED
    BY <1>2, <1>3, <2>1, <2>2, SumTyped
<1> QED
  BY <1>2, <1>5, <1>7, <1>8, <1>9

\* Functions that agree on S have one sum.
LEMMA SumAgrees ==
    ASSUME NEW f, NEW h, NEW S, IsFiniteSet(S), \A x \in S : f[x] = h[x]
    PROVE  SumFunctionOnSet(f, S) = SumFunctionOnSet(h, S)
<1> DEFINE B == {T \in SUBSET S : SumFunctionOnSet(f, T) # SumFunctionOnSet(h, T)}
<1> SUFFICES ASSUME B # {} PROVE FALSE
  OBVIOUS
<1>0. B \in SUBSET (SUBSET S)
  OBVIOUS
<1>1. PICK T \in B : \A V \in B : ~(V \subseteq T /\ V # T)
  <2> HIDE DEF B
  <2> QED
    BY <1>0, MinimalSet
<1>2. T # {}
  BY <1>1, SumEmpty
<1>3. Pick(T) \in T
  BY <1>2, PickIn
<1>4. SumFunctionOnSet(f, T \ {Pick(T)}) = SumFunctionOnSet(h, T \ {Pick(T)})
  BY <1>1, <1>3
<1>5. IsFiniteSet(T)
  BY <1>0, FS_Subset
<1>6. /\ SumFunctionOnSet(f, T) = f[Pick(T)] + SumFunctionOnSet(f, T \ {Pick(T)})
      /\ SumFunctionOnSet(h, T) = h[Pick(T)] + SumFunctionOnSet(h, T \ {Pick(T)})
  BY <1>2, <1>5, SumUnfold
<1> QED
  BY <1>1, <1>3, <1>4, <1>6

\* Changing the value at one element changes the sum by the difference.
LEMMA SumExcept ==
    ASSUME NEW f, NEW h, NEW S, IsFiniteSet(S), NEW x \in S,
           \A y \in S : f[y] \in Int, h[x] \in Int,
           \A y \in S \ {x} : h[y] = f[y]
    PROVE  SumFunctionOnSet(h, S) = SumFunctionOnSet(f, S) - f[x] + h[x]
<1>1. IsFiniteSet(S \ {x})
  BY FS_Subset
<1>2. SumFunctionOnSet(h, S \ {x}) = SumFunctionOnSet(f, S \ {x})
  BY <1>1, SumAgrees
<1>3. SumFunctionOnSet(f, S) = f[x] + SumFunctionOnSet(f, S \ {x})
  BY SumRemove
<1>4. \A y \in S : h[y] \in Int
  OBVIOUS
<1>5. SumFunctionOnSet(h, S) = h[x] + SumFunctionOnSet(h, S \ {x})
  BY <1>4, SumRemove
<1>6. SumFunctionOnSet(f, S \ {x}) \in Int
  BY <1>1, SumTyped
<1> QED
  BY <1>2, <1>3, <1>5, <1>6

\* One more element adds its value, when the others keep theirs.
LEMMA SumInsert ==
    ASSUME NEW f, NEW h, NEW S, IsFiniteSet(S), NEW x, x \notin S,
           \A y \in S : f[y] \in Int, h[x] \in Int,
           \A y \in S : h[y] = f[y]
    PROVE  SumFunctionOnSet(h, S \cup {x}) = SumFunctionOnSet(f, S) + h[x]
<1>1. IsFiniteSet(S \cup {x})
  BY FS_AddElement
<1>2. (S \cup {x}) \ {x} = S
  OBVIOUS
<1>3. SumFunctionOnSet(h, S \cup {x}) = h[x] + SumFunctionOnSet(h, S)
  <2>1. \A y \in S \cup {x} : h[y] \in Int
    OBVIOUS
  <2>2. SumFunctionOnSet(h, S \cup {x}) = h[x] + SumFunctionOnSet(h, (S \cup {x}) \ {x})
    BY <1>1, <2>1, SumRemove
  <2> QED
    BY <1>2, <2>2
<1>4. SumFunctionOnSet(h, S) = SumFunctionOnSet(f, S)
  BY SumAgrees
<1>5. SumFunctionOnSet(f, S) \in Int
  BY SumTyped
<1> QED
  BY <1>3, <1>4, <1>5

LEMMA SumOfZeros ==
    ASSUME NEW f, NEW S, IsFiniteSet(S), \A x \in S : f[x] = 0
    PROVE  SumFunctionOnSet(f, S) = 0
<1> DEFINE B == {T \in SUBSET S : SumFunctionOnSet(f, T) # 0}
<1> SUFFICES ASSUME B # {} PROVE FALSE
  OBVIOUS
<1>0. B \in SUBSET (SUBSET S)
  OBVIOUS
<1>1. PICK T \in B : \A V \in B : ~(V \subseteq T /\ V # T)
  <2> HIDE DEF B
  <2> QED
    BY <1>0, MinimalSet
<1>2. T # {}
  BY <1>1, SumEmpty
<1>3. Pick(T) \in T
  BY <1>2, PickIn
<1>4. SumFunctionOnSet(f, T \ {Pick(T)}) = 0
  BY <1>1, <1>3
<1>5. SumFunctionOnSet(f, T) = f[Pick(T)] + SumFunctionOnSet(f, T \ {Pick(T)})
  BY <1>2, SumUnfold, FS_Subset
<1> QED
  BY <1>1, <1>3, <1>4, <1>5

\* A sum of natural numbers is one.
LEMMA SumNatural ==
    ASSUME NEW f, NEW S, IsFiniteSet(S), \A x \in S : f[x] \in Nat
    PROVE  SumFunctionOnSet(f, S) \in Nat
<1> DEFINE B == {T \in SUBSET S : SumFunctionOnSet(f, T) \notin Nat}
<1> SUFFICES ASSUME B # {} PROVE FALSE
  OBVIOUS
<1>0. B \in SUBSET (SUBSET S)
  OBVIOUS
<1>1. PICK T \in B : \A V \in B : ~(V \subseteq T /\ V # T)
  <2> HIDE DEF B
  <2> QED
    BY <1>0, MinimalSet
<1>2. T # {}
  <2>1. SumFunctionOnSet(f, {}) \in Nat
    BY SumEmpty
  <2> QED
    BY <1>1, <2>1
<1>3. Pick(T) \in T
  BY <1>2, PickIn
<1>4. SumFunctionOnSet(f, T \ {Pick(T)}) \in Nat
  BY <1>1, <1>3
<1>5. SumFunctionOnSet(f, T) = f[Pick(T)] + SumFunctionOnSet(f, T \ {Pick(T)})
  BY <1>2, SumUnfold, FS_Subset
<1>6. f[Pick(T)] \in Nat
  BY <1>1, <1>3
<1> QED
  BY <1>1, <1>4, <1>5, <1>6

\* A sum of ones counts.
LEMMA SumOfOnes ==
    ASSUME NEW f, NEW S, IsFiniteSet(S), \A x \in S : f[x] = 1
    PROVE  SumFunctionOnSet(f, S) = Cardinality(S)
<1> DEFINE B == {T \in SUBSET S : SumFunctionOnSet(f, T) # Cardinality(T)}
<1> SUFFICES ASSUME B # {} PROVE FALSE
  OBVIOUS
<1>0. B \in SUBSET (SUBSET S)
  OBVIOUS
<1>1. PICK T \in B : \A V \in B : ~(V \subseteq T /\ V # T)
  <2> HIDE DEF B
  <2> QED
    BY <1>0, MinimalSet
<1>2. T # {}
  BY <1>1, SumEmpty, FS_EmptySet
<1>3. Pick(T) \in T /\ IsFiniteSet(T)
  BY <1>1, <1>2, PickIn, FS_Subset
<1>4. SumFunctionOnSet(f, T \ {Pick(T)}) = Cardinality(T \ {Pick(T)})
  BY <1>1, <1>3
<1>5. SumFunctionOnSet(f, T) = f[Pick(T)] + SumFunctionOnSet(f, T \ {Pick(T)})
  BY <1>2, <1>3, SumUnfold
<1>6. Cardinality(T \ {Pick(T)}) = Cardinality(T) - 1 /\ Cardinality(T) \in Nat
  BY <1>3, FS_RemoveElement, FS_CardinalityType
<1>7. f[Pick(T)] = 1
  BY <1>1, <1>3
<1> QED
  BY <1>1, <1>4, <1>5, <1>6, <1>7

\* Summing over indices moved up by one.
LEMMA SumShift ==
    ASSUME NEW f, NEW h, NEW S, IsFiniteSet(S), \A k \in S : k \in Int,
           IsFiniteSet({k + 1 : k \in S}),
           \A k \in S : f[k + 1] \in Int /\ h[k] = f[k + 1]
    PROVE  SumFunctionOnSet(h, S) = SumFunctionOnSet(f, {k + 1 : k \in S})
<1> DEFINE Up(T) == {k + 1 : k \in T}
           B == {T \in SUBSET S : SumFunctionOnSet(h, T) # SumFunctionOnSet(f, Up(T))}
<1> SUFFICES ASSUME B # {} PROVE FALSE
  OBVIOUS
<1>0. B \in SUBSET (SUBSET S)
  OBVIOUS
<1>1. PICK T \in B : \A V \in B : ~(V \subseteq T /\ V # T)
  <2> HIDE DEF B, Up
  <2> QED
    BY <1>0, MinimalSet
<1>2. T # {}
  <2>1. Up({}) = {}
    OBVIOUS
  <2>2. SumFunctionOnSet(h, {}) = SumFunctionOnSet(f, Up({}))
    BY <2>1, SumEmpty
  <2> QED
    BY <1>1, <2>2
<1> DEFINE x == Pick(T)
<1>3. x \in T /\ x \in Int /\ IsFiniteSet(T) /\ \A k \in T : k \in Int
  BY <1>1, <1>2, PickIn, FS_Subset
<1> HIDE DEF x
<1>4. SumFunctionOnSet(h, T \ {x}) = SumFunctionOnSet(f, Up(T \ {x}))
  BY <1>1, <1>3
<1>5. /\ \A k \in T : f[k + 1] \in Int /\ h[k] = f[k + 1]
      /\ \A k \in T : h[k] \in Int
  BY <1>1
<1>6. SumFunctionOnSet(h, T) = h[x] + SumFunctionOnSet(h, T \ {x})
  <2>1. x \in T /\ IsFiniteSet(T) /\ \A k \in T : h[k] \in Int
    BY <1>3, <1>5
  <2> QED
    BY <2>1, SumRemove
<1>7. IsFiniteSet(Up(T))
  <2>1. Up(T) \in SUBSET Up(S)
    BY <1>1
  <2>2. IsFiniteSet(Up(S))
    OBVIOUS
  <2> HIDE DEF Up
  <2> QED
    BY <2>1, <2>2, FS_Subset
<1>8. \A y \in Up(T) : f[y] \in Int
  BY <1>5
<1>9. x + 1 \in Up(T)
  BY <1>3
<1>10. SumFunctionOnSet(f, Up(T)) = f[x + 1] + SumFunctionOnSet(f, Up(T) \ {x + 1})
  <2> HIDE DEF Up
  <2> QED
    BY <1>7, <1>8, <1>9, SumRemove
<1>11. Up(T) \ {x + 1} = Up(T \ {x})
  BY <1>3
<1> QED
  BY <1>1, <1>3, <1>4, <1>5, <1>6, <1>10, <1>11
=============================================================================
