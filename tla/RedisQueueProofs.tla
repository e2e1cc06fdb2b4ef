-------------------------- MODULE RedisQueueProofs --------------------------
(***************************************************************************)
(* Theorems about RedisQueue, for any items, payloads, quantities and      *)
(* retry limit, and any number of faults.                                  *)
(***************************************************************************)
EXTENDS RedisQueue, FiniteSums, SequenceTheorems

-----------------------------------------------------------------------------
(* What the entries of an item in a list weigh, and what a push and a pop do  *)
(* to it.  With ones for weights this counts them.                            *)

Positions(i, list) == {k \in DOMAIN list : list[k].item = i}

Weights(w, list) == [k \in DOMAIN list |-> w[list[k]]]

Weight(w, i, list) == SumFunctionOnSet(Weights(w, list), Positions(i, list))

Ones == [e \in Entry |-> 1]

LEMMA PositionsTyped ==
    ASSUME NEW i, NEW list \in Seq(Entry)
    PROVE  /\ IsFiniteSet(Positions(i, list))
           /\ \A k \in Positions(i, list) : k \in DOMAIN list /\ list[k] \in Entry
           /\ \A k \in Positions(i, list) : k \in Int
<1>1. DOMAIN list = 1..Len(list) /\ Len(list) \in Nat
  BY LenProperties
<1>2. IsFiniteSet(DOMAIN list)
  BY <1>1, FS_Interval
<1>3. Positions(i, list) \in SUBSET DOMAIN list
  BY DEF Positions
<1>4. IsFiniteSet(Positions(i, list))
  BY <1>2, <1>3, FS_Subset
<1> QED
  BY <1>1, <1>3, <1>4, ElementOfSeq

LEMMA WeightTyped ==
    ASSUME NEW w \in [Entry -> Nat], NEW i, NEW list \in Seq(Entry)
    PROVE  Weight(w, i, list) \in Nat
<1>1. /\ IsFiniteSet(Positions(i, list))
      /\ \A k \in Positions(i, list) : k \in DOMAIN list /\ list[k] \in Entry
  BY PositionsTyped
<1>2. \A k \in Positions(i, list) : Weights(w, list)[k] \in Nat
  BY <1>1 DEF Weights
<1> QED
  BY <1>1, <1>2, SumNatural DEF Weight

LEMMA OccurrencesWeigh ==
    ASSUME NEW i, NEW list \in Seq(Entry)
    PROVE  Occurrences(i, list) = Weight(Ones, i, list)
<1>1. /\ IsFiniteSet(Positions(i, list))
      /\ \A k \in Positions(i, list) : k \in DOMAIN list /\ list[k] \in Entry
  BY PositionsTyped
<1>2. \A k \in Positions(i, list) : Weights(Ones, list)[k] = 1
  BY <1>1 DEF Weights, Ones
<1>3. Weight(Ones, i, list) = Cardinality(Positions(i, list))
  BY <1>1, <1>2, SumOfOnes DEF Weight
<1> QED
  BY <1>3 DEF Occurrences, Positions

LEMMA WeightAppend ==
    ASSUME NEW w \in [Entry -> Nat], NEW i, NEW list \in Seq(Entry), NEW e \in Entry,
           NEW longer \in Seq(Entry), Len(longer) = Len(list) + 1,
           longer[Len(list) + 1] = e, \A k \in 1..Len(list) : longer[k] = list[k]
    PROVE  Weight(w, i, longer) = Weight(w, i, list) + (IF e.item = i THEN w[e] ELSE 0)
<1> DEFINE n == Len(list) + 1
           P == Positions(i, list)
           f == Weights(w, list)
           h == Weights(w, longer)
<1>1. /\ Len(list) \in Nat /\ DOMAIN list = 1..Len(list) /\ DOMAIN longer = 1..n
  BY LenProperties
<1>2. IsFiniteSet(P) /\ \A k \in P : k \in DOMAIN list /\ list[k] \in Entry
  BY PositionsTyped
<1>3. n \notin P /\ n \in DOMAIN longer
  BY <1>1, <1>2
<1>4. \A k \in P : f[k] \in Int /\ h[k] = f[k]
  BY <1>1, <1>2 DEF Weights
<1>5. h[n] = w[e] /\ h[n] \in Int
  BY <1>3 DEF Weights
<1>6. CASE e.item = i
  <2>1. Positions(i, longer) = P \cup {n}
    BY <1>1, <1>6 DEF Positions
  <2>2. SumFunctionOnSet(h, P \cup {n}) = SumFunctionOnSet(f, P) + h[n]
    <3> HIDE DEF n, P, f, h
    <3> QED
      BY <1>2, <1>3, <1>4, <1>5, SumInsert, SMTT(30)
  <2> QED
    BY <1>5, <1>6, <2>1, <2>2 DEF Weight
<1>7. CASE e.item # i
  <2>1. Positions(i, longer) = P
    BY <1>1, <1>7 DEF Positions
  <2>2. SumFunctionOnSet(f, P) = SumFunctionOnSet(h, P)
    <3> HIDE DEF n, P, f, h
    <3> QED
      BY <1>2, <1>4, SumAgrees
  <2>3. Weight(w, i, list) \in Nat
    BY WeightTyped
  <2> QED
    BY <1>7, <2>1, <2>2, <2>3 DEF Weight
<1> QED
  BY <1>6, <1>7

LEMMA WeightTail ==
    ASSUME NEW w \in [Entry -> Nat], NEW i, NEW list \in Seq(Entry), list # <<>>
    PROVE  /\ Head(list) \in Entry /\ Tail(list) \in Seq(Entry)
           /\ Weight(w, i, list) =
                 Weight(w, i, Tail(list)) + (IF Head(list).item = i THEN w[Head(list)] ELSE 0)
<1> DEFINE t == Tail(list)
           T == Positions(i, t)
           U == {k + 1 : k \in T}
           f == Weights(w, list)
           h == Weights(w, t)
<1>1. /\ Head(list) \in Entry /\ t \in Seq(Entry) /\ Head(list) = list[1]
      /\ Len(t) = Len(list) - 1 /\ \A k \in 1..Len(t) : t[k] = list[k + 1]
  BY HeadTailProperties
<1>2. /\ Len(list) \in Nat \ {0} /\ DOMAIN list = 1..Len(list)
      /\ DOMAIN t = 1..Len(t)
  BY <1>1, LenProperties, EmptySeq
<1>3. /\ IsFiniteSet(T) /\ (\A k \in T : k \in Int)
      /\ \A k \in T : k \in DOMAIN t /\ t[k] \in Entry
  BY <1>1, PositionsTyped
<1>4. \A k \in T : f[k + 1] \in Int /\ h[k] = f[k + 1]
  BY <1>1, <1>2, <1>3 DEF Weights
<1>5. U = Positions(i, list) \ {1}
  <2>1. ASSUME NEW k \in T PROVE k + 1 \in Positions(i, list) \ {1}
    BY <1>1, <1>2, <2>1 DEF Positions
  <2>2. ASSUME NEW m \in Positions(i, list) \ {1} PROVE m \in U
    <3>1. m - 1 \in T /\ m = (m - 1) + 1
      BY <1>1, <1>2 DEF Positions
    <3> QED
      BY <3>1
  <2> QED
    BY <2>1, <2>2
<1>6. IsFiniteSet(Positions(i, list)) /\ IsFiniteSet(U)
  <2>1. IsFiniteSet(Positions(i, list))
    BY PositionsTyped
  <2>2. IsFiniteSet(Positions(i, list) \ {1})
    BY <2>1, FS_RemoveElement
  <2> QED
    BY <1>5, <2>1, <2>2
<1>7. SumFunctionOnSet(h, T) = SumFunctionOnSet(f, U)
  <2> HIDE DEF t, T, f, h
  <2> QED
    BY <1>3, <1>4, <1>6, SumShift
<1>a. /\ Weight(w, i, list) = SumFunctionOnSet(f, Positions(i, list))
      /\ Weight(w, i, t) = SumFunctionOnSet(h, T)
  BY DEF Weight
<1>8. CASE Head(list).item = i
  <2>1. 1 \in Positions(i, list) /\ f[1] = w[Head(list)]
    BY <1>1, <1>2, <1>8 DEF Positions, Weights
  <2>2. \A k \in Positions(i, list) : f[k] \in Int
    BY PositionsTyped DEF Weights
  <2>3. SumFunctionOnSet(f, Positions(i, list)) =
           f[1] + SumFunctionOnSet(f, Positions(i, list) \ {1})
    <3> HIDE DEF f
    <3> QED
      BY <1>6, <2>1, <2>2, SumRemove
  <2>4. Weight(w, i, t) \in Nat /\ w[Head(list)] \in Nat
    BY <1>1, WeightTyped
  <2> HIDE DEF f, h, t, T, U
  <2> QED
    BY <1>1, <1>5, <1>7, <1>8, <1>a, <2>1, <2>3, <2>4 DEF t
<1>9. CASE Head(list).item # i
  <2>1. Positions(i, list) \ {1} = Positions(i, list)
    BY <1>1, <1>9 DEF Positions
  <2>2. Weight(w, i, t) \in Nat
    BY <1>1, WeightTyped
  <2>3. Weight(w, i, list) = Weight(w, i, t)
    <3> HIDE DEF f, h, t, T, U
    <3> QED
      BY <1>5, <1>7, <1>a, <2>1
  <2>4. Weight(w, i, t) = Weight(w, i, t) + 0
    BY <2>2
  <2> QED
    BY <1>1, <1>9, <2>3, <2>4
<1> QED
  BY <1>8, <1>9

LEMMA PushCopies ==
    ASSUME NEW list \in Seq(Entry), NEW e \in Entry, NEW n \in 0..2
    PROVE  LET longer == list \o [k \in 1..n |-> e] IN
           /\ longer \in Seq(Entry) /\ Len(longer) = Len(list) + n
           /\ \A k \in 1..Len(list) : longer[k] = list[k]
           /\ \A k \in 1..n : longer[Len(list) + k] = e
           /\ n = 0 => longer = list
<1> DEFINE copies == [k \in 1..n |-> e]
           longer == list \o copies
<1>1. n \in Nat /\ copies \in [1..n -> Entry]
  OBVIOUS
<1>2. copies \in Seq(Entry)
  BY <1>1, SeqDef
<1>3. Len(copies) = n
  BY <1>1, <1>2, LenProperties
<1>4. Len(list) \in Nat
  BY LenProperties
<1>5. \A k \in 1..n : copies[k] = e
  OBVIOUS
<1> HIDE DEF copies
<1>6. /\ longer \in Seq(Entry) /\ Len(longer) = Len(list) + Len(copies)
      /\ \A k \in 1..Len(list) + Len(copies) :
            longer[k] = IF k <= Len(list) THEN list[k] ELSE copies[k - Len(list)]
  BY <1>2, ConcatProperties
<1>7. n = 0 => longer = list
  <2>1. ASSUME n = 0 PROVE \A k \in 1..Len(list) : longer[k] = list[k]
    BY <1>3, <1>4, <1>6, <2>1
  <2>2. ASSUME n = 0 PROVE longer = list
    BY <1>3, <1>4, <1>6, <2>1, <2>2, SeqEqual
  <2> QED
    BY <2>2
<1>8. ASSUME NEW k \in 1..n PROVE longer[Len(list) + k] = e
  <2>1. /\ Len(list) + k \in 1..Len(list) + Len(copies) /\ ~(Len(list) + k <= Len(list))
        /\ (Len(list) + k) - Len(list) = k
    BY <1>1, <1>3, <1>4
  <2> QED
    BY <1>5, <1>6, <2>1
<1>9. \A k \in 1..Len(list) : longer[k] = list[k]
  BY <1>1, <1>3, <1>4, <1>6
<1> QED
  BY <1>3, <1>6, <1>7, <1>8, <1>9 DEF copies

LEMMA WeightPush ==
    ASSUME NEW w \in [Entry -> Nat], NEW i, NEW list \in Seq(Entry), NEW e \in Entry,
           NEW n \in 0..2
    PROVE  Weight(w, i, list \o [k \in 1..n |-> e]) =
              Weight(w, i, list) + (IF e.item = i THEN n * w[e] ELSE 0)
<1> DEFINE More(m) == list \o [k \in 1..m |-> e]
<1>1. Weight(w, i, list) \in Nat /\ w[e] \in Nat /\ Len(list) \in Nat
  BY WeightTyped, LenProperties
<1>2. /\ More(1) \in Seq(Entry) /\ Len(More(1)) = Len(list) + 1
      /\ \A k \in 1..Len(list) : More(1)[k] = list[k]
      /\ More(1)[Len(list) + 1] = e
  <2>1. /\ More(1) \in Seq(Entry) /\ Len(More(1)) = Len(list) + 1
        /\ \A k \in 1..Len(list) : More(1)[k] = list[k]
        /\ \A k \in 1..1 : More(1)[Len(list) + k] = e
    BY PushCopies
  <2> QED
    BY <2>1
<1>3. /\ More(2) \in Seq(Entry) /\ Len(More(2)) = Len(list) + 2
      /\ \A k \in 1..Len(list) : More(2)[k] = list[k]
      /\ More(2)[Len(list) + 1] = e /\ More(2)[Len(list) + 2] = e
  <2>1. /\ More(2) \in Seq(Entry) /\ Len(More(2)) = Len(list) + 2
        /\ \A k \in 1..Len(list) : More(2)[k] = list[k]
        /\ \A k \in 1..2 : More(2)[Len(list) + k] = e
    BY PushCopies
  <2> QED
    BY <2>1
<1>4. More(0) = list
  BY PushCopies
<1> HIDE DEF More
<1>5. Weight(w, i, More(1)) = Weight(w, i, list) + (IF e.item = i THEN w[e] ELSE 0)
  BY <1>2, WeightAppend
<1>6. Weight(w, i, More(2)) = Weight(w, i, More(1)) + (IF e.item = i THEN w[e] ELSE 0)
  <2>1. /\ Len(More(2)) = Len(More(1)) + 1 /\ More(2)[Len(More(1)) + 1] = e
        /\ \A k \in 1..Len(More(1)) : More(2)[k] = More(1)[k]
    <3>1. /\ Len(More(1)) = Len(list) + 1 /\ Len(More(2)) = Len(list) + 2
          /\ Len(list) \in Nat
      BY <1>1, <1>2, <1>3
    <3>2. ASSUME NEW k \in 1..Len(More(1)) PROVE More(2)[k] = More(1)[k]
      <4>1. CASE k \in 1..Len(list)
        BY <1>2, <1>3, <4>1
      <4>2. CASE k = Len(list) + 1
        BY <1>2, <1>3, <4>2
      <4> QED
        BY <3>1, <3>2, <4>1, <4>2
    <3>3. Len(More(1)) + 1 = Len(list) + 2
      BY <3>1
    <3>4. More(2)[Len(More(1)) + 1] = e
      BY <1>3, <3>3
    <3> QED
      BY <3>1, <3>2, <3>3, <3>4
  <2>2. More(1) \in Seq(Entry) /\ More(2) \in Seq(Entry)
    BY <1>2, <1>3
  <2>3. ASSUME NEW s \in Seq(Entry), NEW l \in Seq(Entry),
               Len(l) = Len(s) + 1, l[Len(s) + 1] = e, \A k \in 1..Len(s) : l[k] = s[k]
        PROVE  Weight(w, i, l) = Weight(w, i, s) + (IF e.item = i THEN w[e] ELSE 0)
    <3>1. Len(l) = Len(s) + 1 /\ l[Len(s) + 1] = e /\ \A k \in 1..Len(s) : l[k] = s[k]
      BY <2>3
    <3> QED
      BY ONLY <3>1, WeightAppend, s \in Seq(Entry), l \in Seq(Entry), e \in Entry,
              w \in [Entry -> Nat], SMTT(30)
  <2> QED
    BY <2>1, <2>2, <2>3
<1>7. Weight(w, i, More(n)) = Weight(w, i, list) + (IF e.item = i THEN n * w[e] ELSE 0)
  <2>1. CASE n = 0
    BY <1>1, <1>4, <2>1
  <2>2. CASE n = 1
    BY <1>1, <1>5, <2>2
  <2>3. CASE n = 2
    BY <1>1, <1>5, <1>6, <2>3
  <2> QED
    BY <2>1, <2>2, <2>3
<1> QED
  BY <1>7 DEF More

-----------------------------------------------------------------------------
(* What the commands do to the lists.                                         *)

Keys == {"queue", "dlq"}

\* The faults a step may count.
Faulted(kind) ==
    faults' = [faults EXCEPT ![kind] = @ + 1]

LEMMA PushEffect ==
    ASSUME TypeOK, NEW key \in Keys, NEW e \in Entry, Push(key, e)
    PROVE  \E n \in 0..2 :
              /\ lists' \in Lists
              /\ \A w \in [Entry -> Nat], i \in Items :
                    Weight(w, i, lists'[key]) =
                       Weight(w, i, lists[key]) + (IF e.item = i THEN n * w[e] ELSE 0)
              /\ \A other \in Keys \ {key} : lists'[other] = lists[other]
              /\ Range(lists'[key]) \subseteq Range(lists[key]) \cup {e}
              /\ n = 0 => lists' = lists
              /\ n = 1 => faults' = faults
              /\ n # 1 => TotalFaults < MaxFaults /\ Faulted("calls")
<1>1. PICK n \in 0..2 : /\ lists' = [lists EXCEPT ![key] = @ \o [k \in 1..n |-> e]]
                        /\ IF n = 1 THEN UNCHANGED faults ELSE Fault("calls")
  BY DEF Push
<1> DEFINE longer == lists[key] \o [k \in 1..n |-> e]
<1>2. lists \in Lists /\ lists[key] \in Seq(Entry)
  BY DEF TypeOK, Lists, Keys
<1>3. /\ longer \in Seq(Entry) /\ Len(longer) = Len(lists[key]) + n
      /\ \A k \in 1..Len(lists[key]) : longer[k] = lists[key][k]
      /\ \A k \in 1..n : longer[Len(lists[key]) + k] = e
      /\ n = 0 => longer = lists[key]
  BY <1>2, PushCopies, SMTT(30)
<1>4. \A w \in [Entry -> Nat], i \in Items :
         Weight(w, i, longer) = Weight(w, i, lists[key]) + (IF e.item = i THEN n * w[e] ELSE 0)
  BY <1>2, WeightPush, ZenonT(30)
<1>5. lists' = [lists EXCEPT ![key] = longer]
  BY <1>1
<1> HIDE DEF longer
<1>6. Range(longer) \subseteq Range(lists[key]) \cup {e}
  <2>1. /\ DOMAIN longer = 1..Len(longer) /\ DOMAIN lists[key] = 1..Len(lists[key])
        /\ Len(lists[key]) \in Nat
    BY <1>2, <1>3, LenProperties
  <2>2. ASSUME NEW m \in DOMAIN longer PROVE longer[m] \in Range(lists[key]) \cup {e}
    <3>1. CASE m \in 1..Len(lists[key])
      BY <1>3, <2>1, <3>1 DEF Range
    <3>2. CASE m \notin 1..Len(lists[key])
      <4>1. m - Len(lists[key]) \in 1..n /\ Len(lists[key]) + (m - Len(lists[key])) = m
        BY <1>3, <2>1, <2>2, <3>2
      <4>2. longer[Len(lists[key]) + (m - Len(lists[key]))] = e
        BY <1>3, <4>1
      <4> QED
        BY <4>1, <4>2
    <3> QED
      BY <3>1, <3>2
  <2> QED
    BY <2>2 DEF Range
<1>7. /\ lists' \in Lists /\ lists'[key] = longer
      /\ \A other \in Keys \ {key} : lists'[other] = lists[other]
      /\ n = 0 => lists' = lists
  BY <1>2, <1>3, <1>5 DEF Lists, Keys
<1> QED
  BY <1>1, <1>4, <1>6, <1>7 DEF Fault, Faulted

\* The same without the weights.
LEMMA PushTyped ==
    ASSUME TypeOK, NEW key \in Keys, NEW e \in Entry, Push(key, e)
    PROVE  /\ lists' \in Lists
           /\ \A other \in Keys \ {key} : lists'[other] = lists[other]
           /\ Range(lists'[key]) \subseteq Range(lists[key]) \cup {e}
           /\ faults' = faults \/ (TotalFaults < MaxFaults /\ Faulted("calls"))
<1>1. PICK n \in 0..2 :
         /\ lists' \in Lists
         /\ \A w \in [Entry -> Nat], i \in Items :
               Weight(w, i, lists'[key]) =
                  Weight(w, i, lists[key]) + (IF e.item = i THEN n * w[e] ELSE 0)
         /\ \A other \in Keys \ {key} : lists'[other] = lists[other]
         /\ Range(lists'[key]) \subseteq Range(lists[key]) \cup {e}
         /\ n = 0 => lists' = lists
         /\ n = 1 => faults' = faults
         /\ n # 1 => TotalFaults < MaxFaults /\ Faulted("calls")
  BY PushEffect
<1>2. faults' = faults \/ (TotalFaults < MaxFaults /\ Faulted("calls"))
  <2>1. CASE n = 1
    BY <1>1, <2>1
  <2>2. CASE n # 1
    BY <1>1, <2>2
  <2> QED
    BY <2>1, <2>2
<1> QED
  BY <1>1, <1>2

LEMMA PopEffect ==
    ASSUME TypeOK, Pop
    PROVE  /\ lists.queue \in Seq(Entry) /\ lists.queue # <<>>
           /\ lists' \in Lists /\ lists'.queue = Tail(lists.queue) /\ lists'.dlq = lists.dlq
           /\ Head(lists.queue) \in Entry /\ Head(lists.queue) \in Range(lists.queue)
           /\ Range(lists'.queue) \subseteq Range(lists.queue)
<1>1. lists.queue \in Seq(Entry) /\ lists.queue # <<>> /\ lists \in Lists
  BY DEF Pop, TypeOK, Lists
<1>2. /\ Head(lists.queue) \in Entry /\ Head(lists.queue) = lists.queue[1]
      /\ Tail(lists.queue) \in Seq(Entry)
      /\ Len(Tail(lists.queue)) = Len(lists.queue) - 1
      /\ \A k \in 1..Len(Tail(lists.queue)) : Tail(lists.queue)[k] = lists.queue[k + 1]
  BY <1>1, HeadTailProperties
<1>3. /\ Len(lists.queue) \in Nat \ {0} /\ DOMAIN lists.queue = 1..Len(lists.queue)
      /\ DOMAIN Tail(lists.queue) = 1..Len(Tail(lists.queue))
  BY <1>1, <1>2, LenProperties, EmptySeq
<1>4. lists.queue[1] \in Range(lists.queue)
  BY <1>3 DEF Range
<1>5. Range(Tail(lists.queue)) \subseteq Range(lists.queue)
  <2>1. ASSUME NEW k \in 1..Len(Tail(lists.queue))
        PROVE  Tail(lists.queue)[k] \in Range(lists.queue)
    <3>1. k + 1 \in DOMAIN lists.queue
      BY <1>2, <1>3
    <3> QED
      BY <1>2, <3>1 DEF Range
  <2> QED
    BY <1>3, <2>1 DEF Range
<1>6. /\ lists' \in Lists /\ lists'.queue = Tail(lists.queue) /\ lists'.dlq = lists.dlq
  BY <1>1, <1>2 DEF Pop, Lists
<1> QED
  BY <1>1, <1>2, <1>4, <1>5, <1>6

-----------------------------------------------------------------------------
(* Types and attempts.  The type of an entry's count rests on what the count  *)
(* means, in the lists, on disk and in the consumer's hands.                  *)

\* An entry that may be tried, and one that may not.
Fits(e) == e.retries < MaxRetries /\ e.retries <= tally[e.item].failed
Dead(e) == e.retries = MaxRetries /\ tally[e.item].failed >= MaxRetries

AttemptsCounted ==
    /\ \A e \in Range(lists.queue) : Fits(e)
    /\ \A e \in Range(disk.queue) : Fits(e)
    /\ \A e \in Range(lists.dlq) : Dead(e)
    /\ \A e \in Range(disk.dlq) : Dead(e)
    /\ consumer.pc \in {"apply", "backoff"} => Fits(consumer.entry)
    /\ consumer.pc = "bury" => Dead(consumer.entry)

LEMMA ConsumerTyped ==
    ASSUME TypeOK
    PROVE  \/ consumer = Waiting /\ consumer.pc = "pop"
           \/ /\ consumer # Waiting
              /\ consumer.pc \in {"apply", "backoff", "bury"} /\ consumer.entry \in Entry
              /\ consumer.entry.item \in Items /\ consumer.entry.retries \in 0..MaxRetries
  BY DEF TypeOK, ConsumerState, Waiting, Entry

LEMMA FaultTyped ==
    ASSUME TypeOK, TotalFaults < MaxFaults, NEW kind \in {"calls", "data", "db"}, Faulted(kind)
    PROVE  /\ faults' \in [calls : 0..MaxFaults, data : 0..MaxFaults, db : 0..MaxFaults]
           /\ faults'.calls = IF kind = "calls" THEN faults.calls + 1 ELSE faults.calls
           /\ faults'.data = IF kind = "data" THEN faults.data + 1 ELSE faults.data
           /\ faults'.db = IF kind = "db" THEN faults.db + 1 ELSE faults.db
<1>1. /\ faults.calls \in Nat /\ faults.data \in Nat /\ faults.db \in Nat
      /\ faults.calls + 1 \in 0..MaxFaults /\ faults.data + 1 \in 0..MaxFaults
      /\ faults.db + 1 \in 0..MaxFaults
  BY BoundsAssumption DEF TypeOK, TotalFaults
<1> QED
  BY <1>1 DEF TypeOK, Faulted

LEMMA RangeTyped ==
    ASSUME NEW list \in Seq(Entry), NEW e \in Range(list)
    PROVE  e \in Entry
  BY LenProperties DEF Range

\* The cap on the count of failures lies above the retry limit.
LEMMA CapAbove == MaxRetries \in Nat \ {0} /\ MaxRetries <= MaxRetries * (1 + MaxFaults)
<1>1. ASSUME NEW a \in Nat, NEW b \in Nat PROVE a <= a * (1 + b)
  <2>1. a * (1 + b) = a + a * b
    OBVIOUS
  <2>2. a * b \in Nat
    OBVIOUS
  <2> QED
    BY <2>1, <2>2
<1> QED
  BY <1>1, BoundsAssumption

LEMMA FailedCounted ==
    ASSUME NEW n \in Nat
    PROVE  /\ FailedOnceMore(n) \in Nat /\ n <= FailedOnceMore(n) /\ FailedOnceMore(n) <= n + 1
           /\ \A r \in Nat : r <= n /\ r < MaxRetries => r + 1 <= FailedOnceMore(n)
<1> DEFINE cap == MaxRetries * (1 + MaxFaults)
<1>1. MaxRetries \in Nat /\ MaxRetries <= cap /\ cap \in Int
  BY CapAbove, BoundsAssumption
<1>2. FailedOnceMore(n) = IF n > cap THEN n ELSE n + 1
  BY DEF FailedOnceMore
<1> HIDE DEF cap
<1> QED
  BY <1>1, <1>2

\* An attempt counted: the entry the consumer goes on with.
LEMMA FailedTyped ==
    ASSUME NEW e \in Entry, e.retries < MaxRetries
    PROVE  /\ Failed(e).entry \in Entry /\ Failed(e).entry.item = e.item
           /\ Failed(e).entry.retries = e.retries + 1
           /\ Failed(e).pc = IF e.retries + 1 >= MaxRetries THEN "bury" ELSE "backoff"
           /\ Failed(e) \in ConsumerState /\ Failed(e) # Waiting
<1> DEFINE again == [e EXCEPT !.retries = @ + 1]
<1>1. MaxRetries \in Nat /\ e.retries \in 0..MaxRetries /\ e.item \in Items
  BY BoundsAssumption DEF Entry
<1>2. again \in Entry /\ again.item = e.item /\ again.retries = e.retries + 1
  BY <1>1 DEF Entry
<1>3. Failed(e) = [pc |-> IF again.retries >= MaxRetries THEN "bury" ELSE "backoff",
                   entry |-> again]
  BY DEF Failed
<1> HIDE DEF again
<1> QED
  BY <1>2, <1>3 DEF ConsumerState, Waiting

LEMMA TypeInit == Init => TypeOK /\ AttemptsCounted
<1> SUFFICES ASSUME Init PROVE TypeOK /\ AttemptsCounted
  OBVIOUS
<1>1. <<>> \in Seq(Entry) /\ Range(<<>>) = {}
  BY DEF Range
<1>2. lists \in Lists /\ disk \in Lists /\ lists.queue = <<>> /\ lists.dlq = <<>>
      /\ disk.queue = <<>> /\ disk.dlq = <<>>
  BY <1>1 DEF Init, Lists
<1>3. TypeOK
  BY <1>2, ItemsAssumption, BoundsAssumption DEF Init, TypeOK, ConsumerState
<1>4. AttemptsCounted
  BY <1>1, <1>2 DEF Init, AttemptsCounted, Waiting
<1> QED
  BY <1>3, <1>4

\* What stays in the lists, what joins them and what the consumer holds.
LEMMA AttemptsKept ==
    ASSUME TypeOK, TypeOK', AttemptsCounted,
           \A i \in Items : tally[i].failed <= tally'[i].failed,
           \A e \in Range(lists'.queue) :
              e \in Range(lists.queue) \/ e \in Range(disk.queue) \/ Fits(e),
           \A e \in Range(lists'.dlq) :
              e \in Range(lists.dlq) \/ e \in Range(disk.dlq) \/ Dead(e),
           disk' = disk \/ disk' = lists,
           consumer'.pc \in {"apply", "backoff"} => Fits(consumer.entry)',
           consumer'.pc = "bury" => Dead(consumer.entry)'
    PROVE  AttemptsCounted'
<1>1. /\ lists'.queue \in Seq(Entry) /\ lists'.dlq \in Seq(Entry)
      /\ disk'.queue \in Seq(Entry) /\ disk'.dlq \in Seq(Entry)
  BY DEF TypeOK, Lists
<1>2. ASSUME NEW e \in Entry, Fits(e) PROVE Fits(e)'
  <2>1. e.item \in Items /\ e.retries \in Nat
    BY DEF Entry
  <2>2. tally[e.item].failed \in Nat /\ tally'[e.item].failed \in Nat
    BY <2>1 DEF TypeOK
  <2> QED
    BY <1>2, <2>1, <2>2 DEF Fits
<1>3. ASSUME NEW e \in Entry, Dead(e) PROVE Dead(e)'
  <2>1. e.item \in Items /\ MaxRetries \in Nat
    BY BoundsAssumption DEF Entry
  <2>2. tally[e.item].failed \in Nat /\ tally'[e.item].failed \in Nat
    BY <2>1 DEF TypeOK
  <2> QED
    BY <1>3, <2>1, <2>2 DEF Dead
<1>4. ASSUME NEW e \in Range(lists'.queue) PROVE Fits(e)'
  BY <1>1, <1>2, RangeTyped DEF AttemptsCounted
<1>5. ASSUME NEW e \in Range(lists'.dlq) PROVE Dead(e)'
  BY <1>1, <1>3, RangeTyped DEF AttemptsCounted
<1>6. ASSUME NEW e \in Range(disk'.queue) PROVE Fits(e)'
  BY <1>1, <1>2, RangeTyped DEF AttemptsCounted
<1>7. ASSUME NEW e \in Range(disk'.dlq) PROVE Dead(e)'
  BY <1>1, <1>3, RangeTyped DEF AttemptsCounted
<1> QED
  BY <1>4, <1>5, <1>6, <1>7 DEF AttemptsCounted

LEMMA TypeNext ==
    TypeOK /\ AttemptsCounted /\ [Next]_vars => TypeOK' /\ AttemptsCounted'
<1> SUFFICES ASSUME TypeOK, AttemptsCounted, [Next]_vars PROVE TypeOK' /\ AttemptsCounted'
  OBVIOUS
<1>a. \A i \in Items : tally[i].failed \in Nat
  BY DEF TypeOK
<1>b. lists \in Lists /\ disk \in Lists
  BY DEF TypeOK
<1>c. Waiting \in ConsumerState /\ Waiting.pc = "pop"
  BY DEF ConsumerState, Waiting
<1>1. CASE Fsync
  <2>1. TypeOK'
    BY <1>1, <1>b DEF Fsync, StockVars, TypeOK
  <2> QED
    BY <1>1, <1>a, <2>1, AttemptsKept DEF Fsync, StockVars, AttemptsCounted, Fits, Dead
<1>2. CASE RedisCrash
  <2>1. TypeOK'
    BY <1>2, <1>b, FaultTyped DEF RedisCrash, Fault, Faulted, StockVars, TypeOK
  <2> QED
    BY <1>2, <1>a, <2>1, AttemptsKept DEF RedisCrash, StockVars, AttemptsCounted, Fits, Dead
<1>3. ASSUME NEW key \in DOMAIN lists, Evict(key) PROVE TypeOK' /\ AttemptsCounted'
  <2>1. key \in Keys
    BY <1>b DEF Lists, Keys
  <2>2. <<>> \in Seq(Entry) /\ Range(<<>>) = {}
    BY DEF Range
  <2>3. /\ lists' \in Lists /\ lists'[key] = <<>>
        /\ \A other \in Keys \ {key} : lists'[other] = lists[other]
    BY <1>3, <1>b, <2>1, <2>2 DEF Evict, Lists, Keys
  <2>4. TypeOK'
    BY <1>3, <2>3, FaultTyped DEF Evict, Fault, Faulted, StockVars, TypeOK
  <2>5. /\ Range(lists'.queue) \subseteq Range(lists.queue)
        /\ Range(lists'.dlq) \subseteq Range(lists.dlq)
    BY <2>1, <2>2, <2>3 DEF Keys
  <2> QED
    BY <1>3, <1>a, <2>4, <2>5, AttemptsKept DEF Evict, StockVars, AttemptsCounted, Fits, Dead
<1>4. ASSUME NEW i \in Items, Enqueue(i) PROVE TypeOK' /\ AttemptsCounted'
  <2> DEFINE e == [item |-> i, retries |-> 0]
  <2>1. e \in Entry /\ e.item = i /\ e.retries = 0
    BY BoundsAssumption DEF Entry
  <2>2. "queue" \in Keys /\ Push("queue", e)
    BY <1>4 DEF Enqueue, Keys
  <2> HIDE DEF e
  <2>3. /\ lists' \in Lists /\ Range(lists'.queue) \subseteq Range(lists.queue) \cup {e}
        /\ lists'.dlq = lists.dlq
        /\ faults' = faults \/ (TotalFaults < MaxFaults /\ Faulted("calls"))
    <3>1. /\ lists' \in Lists
          /\ \A other \in Keys \ {"queue"} : lists'[other] = lists[other]
          /\ Range(lists'["queue"]) \subseteq Range(lists["queue"]) \cup {e}
          /\ faults' = faults \/ (TotalFaults < MaxFaults /\ Faulted("calls"))
      BY <2>1, <2>2, PushTyped
    <3> QED
      BY <3>1 DEF Keys
  <2>4. TypeOK'
    BY <1>4, <2>3, FaultTyped DEF Enqueue, StockVars, TypeOK
  <2>5. Fits(e)
    BY <2>1, <1>a, BoundsAssumption DEF Fits
  <2> QED
    BY <1>4, <1>a, <2>3, <2>4, <2>5, AttemptsKept
    DEF Enqueue, StockVars, AttemptsCounted, Fits, Dead
<1>5. CASE Pop
  <2>1. /\ lists' \in Lists /\ lists'.dlq = lists.dlq
        /\ Head(lists.queue) \in Entry /\ Head(lists.queue) \in Range(lists.queue)
        /\ Range(lists'.queue) \subseteq Range(lists.queue)
    BY <1>5, PopEffect
  <2>2. \/ /\ consumer' = [pc |-> "apply", entry |-> Head(lists.queue)]
           /\ UNCHANGED faults
        \/ consumer' = Waiting /\ TotalFaults < MaxFaults /\ Faulted("calls")
    BY <1>5 DEF Pop, Fault, Faulted
  <2>3. consumer' \in ConsumerState
    BY <1>c, <2>1, <2>2 DEF ConsumerState
  <2>4. TypeOK'
    BY <1>5, <2>1, <2>2, <2>3, FaultTyped DEF Pop, StockVars, TypeOK
  <2>5. /\ consumer'.pc \in {"apply", "backoff"} => consumer'.entry = Head(lists.queue)
        /\ consumer'.pc # "bury"
    BY <1>c, <2>2
  <2>6. tally' = tally /\ disk' = disk
    BY <1>5 DEF Pop, StockVars
  <2>7. consumer'.pc \in {"apply", "backoff"} => Fits(consumer.entry)'
    BY <2>1, <2>5, <2>6 DEF AttemptsCounted, Fits
  <2> QED
    BY <1>a, <2>1, <2>4, <2>5, <2>6, <2>7, AttemptsKept
<1>6. ASSUME NEW key \in Keys, Push(key, consumer.entry), consumer' = Waiting,
             key = "queue" => consumer.pc = "backoff", key = "dlq" => consumer.pc = "bury",
             UNCHANGED <<disk, enqueued>>, UNCHANGED StockVars
      PROVE  TypeOK' /\ AttemptsCounted'
  <2>1. consumer.entry \in Entry
    BY <1>6, ConsumerTyped DEF Keys
  <2>2. /\ lists' \in Lists
        /\ Range(lists'[key]) \subseteq Range(lists[key]) \cup {consumer.entry}
        /\ \A other \in Keys \ {key} : lists'[other] = lists[other]
        /\ faults' = faults \/ (TotalFaults < MaxFaults /\ Faulted("calls"))
    BY <1>6, <2>1, PushTyped
  <2>3. TypeOK'
    BY <1>6, <1>c, <2>2, FaultTyped DEF StockVars, TypeOK
  <2>4. /\ \A e \in Range(lists'.queue) : e \in Range(lists.queue) \/ Fits(e)
        /\ \A e \in Range(lists'.dlq) : e \in Range(lists.dlq) \/ Dead(e)
    BY <1>6, <2>2 DEF Keys, AttemptsCounted
  <2>5. tally' = tally /\ disk' = disk /\ consumer'.pc = "pop"
    BY <1>6, <1>c DEF StockVars
  <2> QED
    BY <1>a, <2>3, <2>4, <2>5, AttemptsKept
<1>7. CASE Requeue \/ Bury
  BY <1>6, <1>7 DEF Requeue, Bury, Keys
<1>8. ASSUME NEW i \in Items, ApplyItem(i) PROVE TypeOK' /\ AttemptsCounted'
  <2>1. stock' \in 0..Opening
    <3>1. Qty[i] \in Nat /\ Opening \in Nat /\ stock \in 0..Opening
      BY ItemsAssumption DEF TypeOK
    <3> QED
      BY <1>8, <3>1 DEF ApplyItem, Succeed, Deducts
  <2>2. tally' \in [Items -> [done : Nat, failed : Nat, deducted : Nat]]
        /\ \A j \in Items : tally'[j].failed = tally[j].failed
    <3>a. tally[i] \in [done : Nat, failed : Nat, deducted : Nat]
      BY DEF TypeOK
    <3>1. PICK d \in Nat : d = IF Deducts(i) THEN tally[i].deducted + 1 ELSE tally[i].deducted
      BY <3>a
    <3>b. PICK m \in Nat : m = tally[i].done + 1
      BY <3>a
    <3> DEFINE k == [tally[i] EXCEPT !.done = m, !.deducted = d]
    <3>2. k \in [done : Nat, failed : Nat, deducted : Nat] /\ k.failed = tally[i].failed
      BY <3>a
    <3>3. tally' = [tally EXCEPT ![i] = k]
      BY <1>8, <3>1, <3>b DEF ApplyItem, Succeed
    <3> HIDE DEF k
    <3> QED
      BY <3>2, <3>3 DEF TypeOK
  <2>3. consumer' = Waiting /\ UNCHANGED <<lists, disk, enqueued, faults>>
    BY <1>8 DEF ApplyItem, Succeed, ListVars
  <2>4. TypeOK'
    BY <1>c, <2>1, <2>2, <2>3 DEF TypeOK
  <2> QED
    BY <1>a, <1>c, <2>2, <2>3, <2>4, AttemptsKept
<1>9. ASSUME NEW i \in Items, ApplyFails(i) PROVE TypeOK' /\ AttemptsCounted'
  <2> DEFINE e == consumer.entry
  <2>1. /\ consumer.pc = "apply" /\ e \in Entry /\ e.item = i /\ Fits(e)
        /\ consumer' = Failed(e)
    BY <1>9, ConsumerTyped DEF ApplyFails, Processes, Holds, AttemptsCounted
  <2> HIDE DEF e
  <2>2. e.retries \in Nat /\ e.retries < MaxRetries /\ e.retries <= tally[i].failed
    BY <2>1 DEF Fits, Entry
  <2>3. stock' \in 0..Opening
    <3>1. Qty[i] \in Nat /\ Opening \in Nat /\ stock \in 0..Opening
      BY ItemsAssumption DEF TypeOK
    <3> QED
      BY <1>9, <3>1 DEF ApplyFails, Deducts
  <2>4. /\ tally' \in [Items -> [done : Nat, failed : Nat, deducted : Nat]]
        /\ \A j \in Items \ {i} : tally'[j] = tally[j]
        /\ tally'[i].failed = FailedOnceMore(tally[i].failed)
    <3> DEFINE k == [tally[i] EXCEPT !.failed = FailedOnceMore(@),
                                     !.deducted = IF stock' # stock THEN @ + 1 ELSE @]
    <3>1. tally' = [tally EXCEPT ![i] = k]
      BY <1>9 DEF ApplyFails
    <3>2. FailedOnceMore(tally[i].failed) \in Nat
      BY <1>a, FailedCounted
    <3>a. (IF stock' # stock THEN tally[i].deducted + 1 ELSE tally[i].deducted) \in Nat
      BY DEF TypeOK
    <3>3. /\ k \in [done : Nat, failed : Nat, deducted : Nat]
          /\ k.failed = FailedOnceMore(tally[i].failed)
      BY <3>2, <3>a DEF TypeOK
    <3> HIDE DEF k
    <3> QED
      BY <3>1, <3>3 DEF TypeOK
  <2>5. /\ tally[i].failed <= tally'[i].failed
        /\ e.retries + 1 <= tally'[i].failed
    BY <1>a, <2>2, <2>4, FailedCounted
  <2>6. faults' = faults \/ (TotalFaults < MaxFaults /\ Faulted("db"))
    <3>1. UNCHANGED faults \/ Fault("db")
      BY <1>9 DEF ApplyFails
    <3>2. CASE UNCHANGED faults
      BY <3>2
    <3>3. CASE Fault("db")
      BY <3>3 DEF Fault, Faulted
    <3> QED
      BY <3>1, <3>2, <3>3
  <2>7. /\ consumer' \in ConsumerState /\ consumer'.entry.item = i
        /\ consumer'.entry.retries = e.retries + 1
        /\ consumer'.pc = IF e.retries + 1 >= MaxRetries THEN "bury" ELSE "backoff"
    BY <2>1, <2>2, FailedTyped
  <2>8. TypeOK'
    BY <1>9, <2>3, <2>4, <2>6, <2>7, FaultTyped DEF ApplyFails, ListVars, TypeOK
  <2>9. consumer'.pc \in {"apply", "backoff"} => Fits(consumer.entry)'
    BY <2>2, <2>5, <2>7, BoundsAssumption DEF Fits
  <2>10. consumer'.pc = "bury" => Dead(consumer.entry)'
    BY <2>2, <2>5, <2>7, BoundsAssumption DEF Dead
  <2>11. \A j \in Items : tally[j].failed <= tally'[j].failed
    BY <1>a, <2>4, <2>5
  <2> QED
    BY <1>9, <2>8, <2>9, <2>10, <2>11, AttemptsKept DEF ApplyFails, ListVars
<1>10. CASE Restart
  <2>1. /\ consumer' = Waiting /\ UNCHANGED <<lists, disk, enqueued, stock, tally>>
        /\ TotalFaults < MaxFaults /\ Faulted("calls")
    BY <1>10 DEF Restart, Fault, Faulted, ListVars, StockVars
  <2>2. TypeOK'
    BY <1>c, <2>1, FaultTyped DEF TypeOK
  <2> QED
    BY <1>a, <1>c, <2>1, <2>2, AttemptsKept
<1>11. CASE UNCHANGED vars
  BY <1>11 DEF vars, TypeOK, AttemptsCounted, Fits, Dead
<1> QED
  BY <1>1, <1>2, <1>3, <1>4, <1>5, <1>7, <1>8, <1>9, <1>10, <1>11 DEF Next, Consume

\* Type correctness, for every instance: no retry count passes the limit, and
\* the stock never goes below zero.
THEOREM TypeCorrect == Spec => []TypeOK
  BY TypeInit, TypeNext, PTL DEF Spec

-----------------------------------------------------------------------------
(* What the items still weigh: the copies waiting and the one the consumer    *)
(* will go on trying.  Weighed with ones these are the copies that may still  *)
(* be deducted, weighed with Attempts they are the failures still to come.    *)

Attempts == [e \in Entry |-> MaxRetries - e.retries]

Held(w, i) == IF Holds(i) /\ consumer.pc # "bury" THEN w[consumer.entry] ELSE 0

Load(w, i) == Weight(w, i, lists.queue) + Held(w, i)

Once(i) == IF i \in enqueued THEN 1 ELSE 0

\* How many of an item may have been brought about.
Brought(i) == Once(i) + faults.calls

LEMMA LoadTyped ==
    ASSUME TypeOK, NEW w \in [Entry -> Nat], NEW i
    PROVE  /\ Weight(w, i, lists.queue) \in Nat /\ Held(w, i) \in Nat /\ Load(w, i) \in Nat
           /\ Load(w, i) = Weight(w, i, lists.queue) + Held(w, i)
           /\ Once(i) \in 0..1 /\ faults.calls \in Nat /\ Brought(i) \in Nat
           /\ Brought(i) = Once(i) + faults.calls
<1>1. lists.queue \in Seq(Entry) /\ faults.calls \in Nat
  BY BoundsAssumption DEF TypeOK, Lists
<1>2. Weight(w, i, lists.queue) \in Nat
  BY <1>1, WeightTyped
<1>3. Held(w, i) \in Nat
  BY ConsumerTyped DEF Held, Holds
<1> QED
  BY <1>1, <1>2, <1>3 DEF Load, Once, Brought

LEMMA LoadNext ==
    ASSUME NEW w, NEW i
    PROVE  /\ Load(w, i)' = Weight(w, i, lists'.queue) + Held(w, i)'
           /\ lists' = lists => Weight(w, i, lists'.queue) = Weight(w, i, lists.queue)
           /\ consumer' = Waiting => Held(w, i)' = 0
           /\ consumer' = consumer => Held(w, i)' = Held(w, i)
           /\ Brought(i)' = Once(i)' + faults'.calls
           /\ enqueued' = enqueued => Once(i)' = Once(i)
  BY DEF Load, Held, Holds, Brought, Once, Weight, Weights, Positions

\* A step that is neither an attempt nor a loss of Redis data adds no more
\* than it accounts for.
LEMMA LoadQuiet ==
    ASSUME TypeOK, NEW w \in [Entry -> Nat], NEW M \in Nat, \A e \in Entry : w[e] <= M,
           NEW i \in Items,
           \/ Pop \/ Requeue \/ Bury \/ Restart \/ Fsync \/ UNCHANGED vars
           \/ \E j \in Items : Enqueue(j)
    PROVE  \E d \in 0..2 : /\ Brought(i)' = Brought(i) + d /\ Load(w, i)' \in Nat
                           /\ Load(w, i)' <= Load(w, i) + d * M
<1> DEFINE Q  == Weight(w, i, lists.queue)
           Q1 == Weight(w, i, lists'.queue)
           H  == Held(w, i)
           H1 == Held(w, i)'
           c  == faults.calls
           c1 == faults'.calls
           Goal == \E d \in 0..2 : /\ Brought(i)' = Brought(i) + d /\ Load(w, i)' \in Nat
                                   /\ Load(w, i)' <= Load(w, i) + d * M
<1> SUFFICES Goal
  OBVIOUS
<1> HIDE DEF Goal
<1>1. /\ Q \in Nat /\ H \in Nat /\ Load(w, i) = Q + H
      /\ Once(i) \in 0..1 /\ c \in Nat /\ Brought(i) = Once(i) + c
  BY LoadTyped
<1>2. /\ Load(w, i)' = Q1 + H1
      /\ lists' = lists => Q1 = Q
      /\ consumer' = Waiting => H1 = 0
      /\ consumer' = consumer => H1 = H
      /\ Brought(i)' = Once(i)' + c1
      /\ enqueued' = enqueued => Once(i)' = Once(i)
  BY LoadNext
<1>3. ASSUME enqueued' = enqueued, Q1 \in Nat, H1 \in Nat,
             \/ c1 = c /\ Q1 + H1 <= Q + H
             \/ c1 = c + 1 /\ Q1 + H1 <= Q + H + M
      PROVE  Goal
  <2> HIDE DEF Q, Q1, H, H1, c, c1
  <2>1. CASE c1 = c /\ Q1 + H1 <= Q + H
    <3>1. Brought(i)' = Brought(i) + 0 /\ Load(w, i)' \in Nat /\ Load(w, i)' <= Load(w, i) + 0 * M
      BY <1>1, <1>2, <1>3, <2>1
    <3> QED
      BY <3>1 DEF Goal
  <2>2. CASE c1 = c + 1 /\ Q1 + H1 <= Q + H + M
    <3>1. Brought(i)' = Brought(i) + 1 /\ Load(w, i)' \in Nat /\ Load(w, i)' <= Load(w, i) + 1 * M
      BY <1>1, <1>2, <1>3, <2>2
    <3> QED
      BY <3>1 DEF Goal
  <2> QED
    BY <1>3, <2>1, <2>2
<1>4. 0 * M = 0 /\ 1 * M = M /\ 2 * M = M + M
  OBVIOUS
<1>5. Faulted("calls") => c1 = c + 1
  BY DEF TypeOK, Faulted
<1>6. CASE Pop
  <2> DEFINE e == Head(lists.queue)
  <2>1. /\ lists.queue \in Seq(Entry) /\ lists.queue # <<>>
        /\ lists'.queue = Tail(lists.queue) /\ e \in Entry
    BY <1>6, PopEffect
  <2>2. Q = Weight(w, i, Tail(lists.queue)) + (IF e.item = i THEN w[e] ELSE 0)
    BY <2>1, WeightTail
  <2>3. Weight(w, i, Tail(lists.queue)) \in Nat
    BY <2>1, WeightTail, WeightTyped
  <2>4. Q1 = Weight(w, i, Tail(lists.queue))
    BY <2>1
  <2>5. enqueued' = enqueued /\ consumer = Waiting
    BY <1>6 DEF Pop
  <2>6. H = 0
    BY <2>5 DEF Held, Holds
  <2>7. w[e] \in Nat
    BY <2>1
  <2> HIDE DEF e
  <2>8. CASE consumer' = [pc |-> "apply", entry |-> e] /\ UNCHANGED faults
    <3>1. H1 = IF e.item = i THEN w[e] ELSE 0
      BY <2>8 DEF Held, Holds, Waiting
    <3>2. c1 = c
      BY <1>1, <2>8
    <3> HIDE DEF Q, Q1, H, H1, c, c1
    <3> QED
      BY <1>3, <2>2, <2>3, <2>4, <2>5, <2>6, <2>7, <3>1, <3>2
  <2>9. CASE consumer' = consumer /\ Faulted("calls")
    <3>1. H1 = 0 /\ c1 = c + 1
      BY <1>2, <1>5, <2>5, <2>9
    <3> HIDE DEF Q, Q1, H, H1, c, c1
    <3> QED
      BY <1>3, <2>2, <2>3, <2>4, <2>5, <2>6, <2>7, <3>1
  <2> QED
    BY <1>6, <2>8, <2>9 DEF Pop, Fault, Faulted, e
<1>7. CASE Requeue
  <2> DEFINE e == consumer.entry
  <2>1. consumer.pc = "backoff" /\ Push("queue", e) /\ consumer' = Waiting /\ enqueued' = enqueued
    BY <1>7 DEF Requeue
  <2>2. e \in Entry /\ w[e] \in Nat /\ w[e] <= M /\ H = IF e.item = i THEN w[e] ELSE 0
    BY <2>1, ConsumerTyped DEF Held, Holds
  <2> HIDE DEF e
  <2>3. PICK n \in 0..2 : /\ Q1 = Q + (IF e.item = i THEN n * w[e] ELSE 0)
                          /\ n = 1 => faults' = faults
                          /\ n # 1 => Faulted("calls")
    <3>1. "queue" \in Keys
      BY DEF Keys
    <3> QED
      BY <2>1, <2>2, <3>1, PushEffect
  <2>4. H1 = 0
    BY <1>2, <2>1
  <2>5. CASE n = 0
    <3>1. c1 = c + 1
      BY <1>5, <2>3, <2>5
    <3> HIDE DEF Q, Q1, H, H1, c, c1
    <3>2. Q1 = Q
      BY <1>1, <2>2, <2>3, <2>5
    <3> QED
      BY <1>1, <1>3, <2>1, <2>2, <2>4, <3>1, <3>2
  <2>6. CASE n = 1
    <3>1. c1 = c
      BY <1>1, <2>3, <2>6
    <3> HIDE DEF Q, Q1, H, H1, c, c1
    <3>2. Q1 = Q + (IF e.item = i THEN w[e] ELSE 0)
      BY <1>1, <2>2, <2>3, <2>6
    <3> QED
      BY <1>1, <1>3, <2>1, <2>2, <2>4, <3>1, <3>2
  <2>7. CASE n = 2
    <3>1. c1 = c + 1
      BY <1>5, <2>3, <2>7
    <3> HIDE DEF Q, Q1, H, H1, c, c1
    <3>2. Q1 = Q + (IF e.item = i THEN w[e] + w[e] ELSE 0)
      BY <1>1, <2>2, <2>3, <2>7
    <3> QED
      BY <1>1, <1>3, <2>1, <2>2, <2>4, <3>1, <3>2
  <2> QED
    BY <2>5, <2>6, <2>7
<1>8. CASE Bury
  <2> DEFINE e == consumer.entry
  <2>1. consumer.pc = "bury" /\ Push("dlq", e) /\ consumer' = Waiting /\ enqueued' = enqueued
    BY <1>8 DEF Bury
  <2>2. e \in Entry /\ H = 0
    BY <2>1, ConsumerTyped DEF Held
  <2> HIDE DEF e
  <2>3. /\ \A other \in Keys \ {"dlq"} : lists'[other] = lists[other]
        /\ faults' = faults \/ (TotalFaults < MaxFaults /\ Faulted("calls"))
    <3>1. "dlq" \in Keys
      BY DEF Keys
    <3> QED
      BY <2>1, <2>2, <3>1, PushTyped
  <2>4. Q1 = Q /\ H1 = 0
    BY <1>2, <2>1, <2>3 DEF Keys
  <2>5. CASE faults' = faults
    <3>1. c1 = c
      BY <1>1, <2>5
    <3> HIDE DEF Q, Q1, H, H1, c, c1
    <3> QED
      BY <1>1, <1>3, <2>1, <2>2, <2>4, <3>1
  <2>6. CASE Faulted("calls")
    <3>1. c1 = c + 1
      BY <1>5, <2>6
    <3> HIDE DEF Q, Q1, H, H1, c, c1
    <3> QED
      BY <1>1, <1>3, <2>1, <2>2, <2>4, <3>1
  <2> QED
    BY <2>3, <2>5, <2>6
<1>9. CASE Restart
  <2>1. Q1 = Q /\ H1 = 0 /\ enqueued' = enqueued /\ c1 = c + 1
    BY <1>2, <1>5, <1>9 DEF Restart, Fault, Faulted, ListVars
  <2> HIDE DEF Q, Q1, H, H1, c, c1
  <2> QED
    BY <1>1, <1>3, <2>1
<1>10. CASE Fsync \/ UNCHANGED vars
  <2>1. Q1 = Q /\ H1 = H /\ enqueued' = enqueued /\ c1 = c
    BY <1>1, <1>2, <1>10 DEF Fsync, vars
  <2> HIDE DEF Q, Q1, H, H1, c, c1
  <2> QED
    BY <1>1, <1>3, <2>1
<1>11. ASSUME NEW j \in Items, Enqueue(j) PROVE Goal
  <2> DEFINE e == [item |-> j, retries |-> 0]
  <2>1. e \in Entry /\ e.item = j
    BY BoundsAssumption DEF Entry
  <2>2. /\ j \notin enqueued /\ Push("queue", e) /\ lists' # lists
        /\ enqueued' = enqueued \cup {j} /\ consumer' = consumer
    BY <1>11 DEF Enqueue
  <2> HIDE DEF e
  <2>3. w[e] \in Nat /\ w[e] <= M
    BY <2>1
  <2>4. PICK n \in 0..2 : /\ Q1 = Q + (IF e.item = i THEN n * w[e] ELSE 0)
                          /\ n = 0 => lists' = lists
                          /\ n = 1 => faults' = faults
                          /\ n # 1 => Faulted("calls")
    <3>1. "queue" \in Keys
      BY DEF Keys
    <3> QED
      BY <2>1, <2>2, <3>1, PushEffect
  <2>5. H1 = H
    BY <1>2, <2>2
  <2>6. Once(i)' = Once(i) + (IF i = j THEN 1 ELSE 0)
    BY <2>2 DEF Once
  <2>7. CASE n = 1
    <3>1. c1 = c
      BY <2>4, <2>7
    <3> HIDE DEF Q, Q1, H, H1, c, c1
    <3>2. Q1 = Q + (IF i = j THEN w[e] ELSE 0)
      BY <1>1, <2>1, <2>3, <2>4, <2>7
    <3>3. CASE i = j
      <4>1. Brought(i)' = Brought(i) + 1 /\ Load(w, i)' \in Nat /\ Load(w, i)' <= Load(w, i) + 1 * M
        BY <1>1, <1>2, <1>4, <2>3, <2>5, <2>6, <3>1, <3>2, <3>3
      <4> QED
        BY <4>1 DEF Goal
    <3>4. CASE i # j
      <4>1. Brought(i)' = Brought(i) + 0 /\ Load(w, i)' \in Nat /\ Load(w, i)' <= Load(w, i) + 0 * M
        BY <1>1, <1>2, <1>4, <2>5, <2>6, <3>1, <3>2, <3>4
      <4> QED
        BY <4>1 DEF Goal
    <3> QED
      BY <3>3, <3>4
  <2>8. CASE n = 2
    <3>1. c1 = c + 1
      BY <1>5, <2>4, <2>8
    <3> HIDE DEF Q, Q1, H, H1, c, c1
    <3>2. Q1 = Q + (IF i = j THEN w[e] + w[e] ELSE 0)
      BY <1>1, <2>1, <2>3, <2>4, <2>8
    <3>3. CASE i = j
      <4>1. Brought(i)' = Brought(i) + 2 /\ Load(w, i)' \in Nat /\ Load(w, i)' <= Load(w, i) + 2 * M
        BY <1>1, <1>2, <1>4, <2>3, <2>5, <2>6, <3>1, <3>2, <3>3
      <4> QED
        BY <4>1 DEF Goal
    <3>4. CASE i # j
      <4>1. Brought(i)' = Brought(i) + 1 /\ Load(w, i)' \in Nat /\ Load(w, i)' <= Load(w, i) + 1 * M
        BY <1>1, <1>2, <1>4, <2>5, <2>6, <3>1, <3>2, <3>4
      <4> QED
        BY <4>1 DEF Goal
    <3> QED
      BY <3>3, <3>4
  <2> QED
    BY <2>2, <2>4, <2>7, <2>8
<1> QED
  BY <1>6, <1>7, <1>8, <1>9, <1>10, <1>11

-----------------------------------------------------------------------------
(* Attempts: what they count, and what they leave to be done.                 *)

LEMMA TallyTyped ==
    ASSUME TypeOK, NEW i \in Items
    PROVE  tally[i].done \in Nat /\ tally[i].failed \in Nat /\ tally[i].deducted \in Nat
  BY DEF TypeOK

LEMMA SucceedEffect ==
    ASSUME TypeOK, AttemptsCounted, NEW i \in Items, ApplyItem(i)
    PROVE  /\ consumer.pc = "apply" /\ consumer.entry \in Entry /\ consumer.entry.item = i
           /\ consumer' = Waiting
           /\ lists' = lists /\ enqueued' = enqueued /\ faults' = faults
           /\ \A j \in Items \ {i} : tally'[j] = tally[j]
           /\ tally'[i].done = tally[i].done + 1
           /\ tally'[i].failed = tally[i].failed
           /\ tally'[i].deducted <= tally[i].deducted + 1
<1>1. /\ consumer.pc = "apply" /\ consumer.entry \in Entry /\ consumer.entry.item = i
      /\ consumer' = Waiting /\ lists' = lists /\ enqueued' = enqueued /\ faults' = faults
  BY ConsumerTyped DEF ApplyItem, Processes, Holds, Succeed, ListVars
<1>2. tally[i] \in [done : Nat, failed : Nat, deducted : Nat]
  BY DEF TypeOK
<1>3. PICK d \in Nat : /\ d = IF Deducts(i) THEN tally[i].deducted + 1 ELSE tally[i].deducted
                       /\ d <= tally[i].deducted + 1
  BY <1>2
<1>4. PICK m \in Nat : m = tally[i].done + 1
  BY <1>2
<1> DEFINE k == [tally[i] EXCEPT !.done = m, !.deducted = d]
<1>5. k.done = m /\ k.failed = tally[i].failed /\ k.deducted = d
  BY <1>2
<1>6. tally' = [tally EXCEPT ![i] = k]
  BY <1>1, <1>3, <1>4 DEF ApplyItem, Succeed
<1> HIDE DEF k
<1>7. tally'[i] = k /\ \A j \in Items \ {i} : tally'[j] = tally[j]
  BY <1>6 DEF TypeOK
<1> QED
  BY <1>1, <1>3, <1>4, <1>5, <1>7

LEMMA FailEffect ==
    ASSUME TypeOK, AttemptsCounted, NEW i \in Items, ApplyFails(i)
    PROVE  /\ consumer.pc = "apply" /\ consumer.entry \in Entry /\ consumer.entry.item = i
           /\ consumer.entry.retries < MaxRetries
           /\ consumer' = Failed(consumer.entry)
           /\ lists' = lists /\ enqueued' = enqueued
           /\ faults'.calls = faults.calls /\ faults'.data = faults.data
           /\ \A j \in Items \ {i} : tally'[j] = tally[j]
           /\ tally'[i].done = tally[i].done
           /\ tally'[i].failed <= tally[i].failed + 1
           /\ tally'[i].deducted + faults.db <= tally[i].deducted + faults'.db
           /\ faults.db <= faults'.db
<1>1. /\ consumer.pc = "apply" /\ consumer.entry \in Entry /\ consumer.entry.item = i
      /\ consumer' = Failed(consumer.entry) /\ lists' = lists /\ enqueued' = enqueued
  BY ConsumerTyped DEF ApplyFails, Processes, Holds, ListVars
<1>2. consumer.entry.retries < MaxRetries
  BY <1>1 DEF AttemptsCounted, Fits
<1>3. tally[i] \in [done : Nat, failed : Nat, deducted : Nat]
  BY DEF TypeOK
<1>4. faults.db \in Nat
  BY BoundsAssumption DEF TypeOK
<1>5. PICK d \in Nat : /\ d = IF stock' # stock THEN tally[i].deducted + 1
                              ELSE tally[i].deducted
  BY <1>3
<1>6. PICK m \in Nat : m = FailedOnceMore(tally[i].failed) /\ m <= tally[i].failed + 1
  BY <1>3, FailedCounted
<1> DEFINE k == [tally[i] EXCEPT !.failed = m, !.deducted = d]
<1>7. k.done = tally[i].done /\ k.failed = m /\ k.deducted = d
  BY <1>3
<1>8. tally' = [tally EXCEPT ![i] = k]
  BY <1>5, <1>6 DEF ApplyFails
<1> HIDE DEF k
<1>9. tally'[i] = k /\ \A j \in Items \ {i} : tally'[j] = tally[j]
  BY <1>8 DEF TypeOK
<1>10. /\ faults'.calls = faults.calls /\ faults'.data = faults.data
       /\ \/ faults'.db = faults.db /\ stock' = stock
          \/ faults'.db = faults.db + 1
  <2>1. CASE UNCHANGED <<faults, stock>>
    BY <2>1
  <2>2. CASE Fault("db")
    BY <2>2 DEF Fault, TypeOK
  <2> QED
    BY <2>1, <2>2 DEF ApplyFails
<1>11. d + faults.db <= tally[i].deducted + faults'.db /\ faults.db <= faults'.db
  BY <1>3, <1>4, <1>5, <1>10
<1> QED
  BY <1>1, <1>2, <1>6, <1>7, <1>9, <1>10, <1>11

\* An attempt takes the entry off the load; a failure that is not the last
\* puts it back one attempt older.
LEMMA LoadTried ==
    ASSUME TypeOK, NEW w \in [Entry -> Nat], NEW i \in Items, NEW j \in Items,
           consumer.pc = "apply", consumer.entry \in Entry, consumer.entry.item = i,
           lists' = lists
    PROVE  /\ j # i => Held(w, j) = 0
           /\ j = i => Held(w, j) = w[consumer.entry]
           /\ Load(w, j)' = Weight(w, j, lists.queue) + Held(w, j)'
           /\ consumer' = Waiting => Held(w, j)' = 0
           /\ consumer' = Failed(consumer.entry) /\ consumer.entry.retries < MaxRetries =>
                 /\ j # i => Held(w, j)' = 0
                 /\ j = i /\ Failed(consumer.entry).pc = "bury" => Held(w, j)' = 0
                 /\ j = i /\ Failed(consumer.entry).pc = "backoff" =>
                       Held(w, j)' = w[Failed(consumer.entry).entry]
<1>1. Load(w, j)' = Weight(w, j, lists.queue) + Held(w, j)' /\ (consumer' = Waiting => Held(w, j)' = 0)
  BY LoadNext
<1>2. /\ j # i => Held(w, j) = 0
      /\ j = i => Held(w, j) = w[consumer.entry]
  BY DEF Held, Holds, Waiting
<1>3. ASSUME consumer' = Failed(consumer.entry), consumer.entry.retries < MaxRetries
      PROVE  /\ j # i => Held(w, j)' = 0
             /\ j = i /\ Failed(consumer.entry).pc = "bury" => Held(w, j)' = 0
             /\ j = i /\ Failed(consumer.entry).pc = "backoff" =>
                   Held(w, j)' = w[Failed(consumer.entry).entry]
  <2>1. Failed(consumer.entry) # Waiting /\ Failed(consumer.entry).entry.item = i
    BY <1>3, FailedTyped
  <2>2. consumer' # Waiting /\ consumer'.entry.item = i
    BY <1>3, <2>1
  <2>3. Held(w, j)' = IF i = j /\ consumer'.pc # "bury" THEN w[consumer'.entry] ELSE 0
    BY <2>2 DEF Held, Holds
  <2> QED
    BY <1>3, <2>3
<1> QED
  BY <1>1, <1>2, <1>3

FailuresBounded ==
    \A i \in Items : tally[i].failed + Load(Attempts, i) <= MaxRetries * Brought(i)

DeductionsBounded ==
    \A i \in Items : tally[i].deducted + Load(Ones, i) <= Brought(i) + faults.db

Bounded == faults.data = 0 => FailuresBounded /\ DeductionsBounded

Quiet ==
    \/ Pop \/ Requeue \/ Bury \/ Restart \/ Fsync \/ UNCHANGED vars
    \/ \E j \in Items : Enqueue(j)

LEMMA QuietFaults ==
    ASSUME TypeOK, Quiet
    PROVE  tally' = tally /\ faults'.data = faults.data /\ faults'.db = faults.db
<1>1. tally' = tally
  BY DEF Quiet, Pop, Requeue, Bury, Restart, Fsync, Enqueue, StockVars, vars
<1>2. UNCHANGED faults \/ Fault("calls")
  BY DEF Quiet, Pop, Requeue, Bury, Restart, Fsync, Enqueue, Push, vars
<1> QED
  BY <1>1, <1>2 DEF Fault, TypeOK

LEMMA Product ==
    ASSUME NEW a \in Nat, NEW b \in Nat, NEW d \in Nat
    PROVE  a * (b + d) = a * b + d * a /\ a * b \in Nat
  OBVIOUS

LEMMA WeightsTyped ==
    /\ Attempts \in [Entry -> Nat] /\ (\A e \in Entry : Attempts[e] <= MaxRetries)
    /\ \A e \in Entry : Attempts[e] = MaxRetries - e.retries
    /\ Ones \in [Entry -> Nat] /\ (\A e \in Entry : Ones[e] = 1)
  BY BoundsAssumption DEF Attempts, Ones, Entry

LEMMA BoundedInit == Init => Bounded
<1> SUFFICES ASSUME Init, NEW i \in Items
    PROVE  /\ tally[i].failed + Load(Attempts, i) <= MaxRetries * Brought(i)
           /\ tally[i].deducted + Load(Ones, i) <= Brought(i) + faults.db
  BY DEF Bounded, FailuresBounded, DeductionsBounded
<1>1. /\ lists.queue = <<>> /\ consumer = Waiting /\ enqueued = {} /\ faults.calls = 0
      /\ faults.db = 0 /\ tally[i].failed = 0 /\ tally[i].deducted = 0
  BY DEF Init
<1>2. ASSUME NEW w PROVE Load(w, i) = 0
  <2>1. Positions(i, <<>>) = {}
    BY DEF Positions
  <2>2. Weight(w, i, <<>>) = 0
    BY <2>1, SumEmpty DEF Weight
  <2> QED
    BY <1>1, <2>2 DEF Load, Held, Holds
<1>3. Brought(i) = 0 /\ MaxRetries * 0 = 0
  BY <1>1, BoundsAssumption DEF Brought, Once
<1>4. Load(Attempts, i) = 0 /\ Load(Ones, i) = 0
  BY <1>2
<1> QED
  BY <1>1, <1>3, <1>4

LEMMA BoundedQuiet ==
    ASSUME TypeOK, Bounded, Quiet
    PROVE  Bounded'
<1>1. tally' = tally /\ faults'.data = faults.data /\ faults'.db = faults.db
  BY QuietFaults
<1> SUFFICES ASSUME faults.data = 0, NEW i \in Items
    PROVE  /\ tally[i].failed + Load(Attempts, i)' <= MaxRetries * Brought(i)'
           /\ tally[i].deducted + Load(Ones, i)' <= Brought(i)' + faults.db
  BY <1>1 DEF Bounded, FailuresBounded, DeductionsBounded
<1>2. /\ tally[i].failed + Load(Attempts, i) <= MaxRetries * Brought(i)
      /\ tally[i].deducted + Load(Ones, i) <= Brought(i) + faults.db
  BY DEF Bounded, FailuresBounded, DeductionsBounded
<1>3. tally[i].failed \in Nat /\ tally[i].deducted \in Nat
  BY TallyTyped
<1>4. /\ \/ Pop \/ Requeue \/ Bury \/ Restart \/ Fsync \/ UNCHANGED vars
         \/ \E j \in Items : Enqueue(j)
      /\ MaxRetries \in Nat /\ 1 \in Nat /\ \A e \in Entry : Ones[e] <= 1
  BY WeightsTyped, BoundsAssumption DEF Quiet
<1>a. faults.db \in Nat
  BY BoundsAssumption DEF TypeOK
<1>5. tally[i].failed + Load(Attempts, i)' <= MaxRetries * Brought(i)'
  <2>1. PICK d \in 0..2 : /\ Brought(i)' = Brought(i) + d /\ Load(Attempts, i)' \in Nat
                          /\ Load(Attempts, i)' <= Load(Attempts, i) + d * MaxRetries
    BY <1>4, WeightsTyped, LoadQuiet
  <2>2. Load(Attempts, i) \in Nat /\ Brought(i) \in Nat
    BY WeightsTyped, LoadTyped
  <2>3. MaxRetries * (Brought(i) + d) = MaxRetries * Brought(i) + d * MaxRetries
        /\ MaxRetries * Brought(i) \in Nat /\ d * MaxRetries \in Nat
    BY <1>4, <2>2, Product
  <2> QED
    BY <1>2, <1>3, <2>1, <2>2, <2>3
<1>6. tally[i].deducted + Load(Ones, i)' <= Brought(i)' + faults.db
  <2>1. PICK d \in 0..2 : /\ Brought(i)' = Brought(i) + d /\ Load(Ones, i)' \in Nat
                          /\ Load(Ones, i)' <= Load(Ones, i) + d * 1
    BY <1>4, WeightsTyped, LoadQuiet
  <2>2. Load(Ones, i) \in Nat /\ Brought(i) \in Nat
    BY WeightsTyped, LoadTyped
  <2> QED
    BY <1>2, <1>3, <1>a, <2>1, <2>2
<1> QED
  BY <1>5, <1>6

LEMMA BoundedTried ==
    ASSUME TypeOK, AttemptsCounted, Bounded, NEW i \in Items, ApplyItem(i) \/ ApplyFails(i)
    PROVE  Bounded'
<1> DEFINE e == consumer.entry
<1>1. /\ consumer.pc = "apply" /\ e \in Entry /\ e.item = i
      /\ lists' = lists /\ enqueued' = enqueued
      /\ faults'.calls = faults.calls /\ faults'.data = faults.data
      /\ \A j \in Items \ {i} : tally'[j] = tally[j]
  BY SucceedEffect, FailEffect
<1>2. \/ /\ consumer' = Waiting /\ faults'.db = faults.db
         /\ tally'[i].failed = tally[i].failed
         /\ tally'[i].deducted <= tally[i].deducted + 1
      \/ /\ consumer' = Failed(e) /\ e.retries < MaxRetries
         /\ tally'[i].failed <= tally[i].failed + 1
         /\ tally'[i].deducted + faults.db <= tally[i].deducted + faults'.db
  BY SucceedEffect, FailEffect
<1>3. TypeOK'
  BY TypeNext DEF Next, Consume
<1> SUFFICES ASSUME faults.data = 0, NEW j \in Items
    PROVE  /\ tally'[j].failed + Load(Attempts, j)' <= MaxRetries * Brought(j)'
           /\ tally'[j].deducted + Load(Ones, j)' <= Brought(j)' + faults'.db
  BY <1>1 DEF Bounded, FailuresBounded, DeductionsBounded
<1>4. /\ tally[j].failed + Load(Attempts, j) <= MaxRetries * Brought(j)
      /\ tally[j].deducted + Load(Ones, j) <= Brought(j) + faults.db
  BY DEF Bounded, FailuresBounded, DeductionsBounded
<1>5. Brought(j)' = Brought(j)
  BY <1>1 DEF Brought, Once
<1>6. /\ tally[j].failed \in Nat /\ tally[j].deducted \in Nat
      /\ tally'[j].failed \in Nat /\ tally'[j].deducted \in Nat
      /\ faults.db \in Nat /\ faults'.db \in Nat /\ faults.db <= faults'.db
  <2>1. tally[j].failed \in Nat /\ tally[j].deducted \in Nat
    BY TallyTyped
  <2>2. tally'[j].failed \in Nat /\ tally'[j].deducted \in Nat
    BY <1>3 DEF TypeOK
  <2>3. faults.db \in Nat /\ faults'.db \in Nat
    BY <1>3, BoundsAssumption DEF TypeOK
  <2>4. faults.db <= faults'.db
    BY <2>3, SucceedEffect, FailEffect
  <2> QED
    BY <2>1, <2>2, <2>3, <2>4
<1>7. ASSUME NEW w \in [Entry -> Nat]
      PROVE  /\ Load(w, j) = Weight(w, j, lists.queue) + Held(w, j)
             /\ Weight(w, j, lists.queue) \in Nat /\ Brought(j) \in Nat
             /\ j # i => Held(w, j) = 0
             /\ j = i => Held(w, j) = w[e]
             /\ Load(w, j)' = Weight(w, j, lists.queue) + Held(w, j)'
             /\ consumer' = Waiting => Held(w, j)' = 0
             /\ consumer' = Failed(e) /\ e.retries < MaxRetries =>
                   /\ j # i => Held(w, j)' = 0
                   /\ j = i /\ Failed(e).pc = "bury" => Held(w, j)' = 0
                   /\ j = i /\ Failed(e).pc = "backoff" => Held(w, j)' = w[Failed(e).entry]
  <2>1. /\ Load(w, j) = Weight(w, j, lists.queue) + Held(w, j)
        /\ Weight(w, j, lists.queue) \in Nat /\ Brought(j) \in Nat
    BY LoadTyped
  <2>2. /\ j # i => Held(w, j) = 0
        /\ j = i => Held(w, j) = w[e]
        /\ Load(w, j)' = Weight(w, j, lists.queue) + Held(w, j)'
        /\ consumer' = Waiting => Held(w, j)' = 0
        /\ consumer' = Failed(e) /\ e.retries < MaxRetries =>
              /\ j # i => Held(w, j)' = 0
              /\ j = i /\ Failed(e).pc = "bury" => Held(w, j)' = 0
              /\ j = i /\ Failed(e).pc = "backoff" => Held(w, j)' = w[Failed(e).entry]
    BY <1>1, LoadTried
  <2> QED
    BY <2>1, <2>2
<1>8. /\ e.retries \in Nat /\ MaxRetries \in Nat
      /\ Attempts[e] = MaxRetries - e.retries /\ Ones[e] = 1
      /\ Attempts[e] \in Nat
      /\ e.retries < MaxRetries =>
            /\ Failed(e).entry \in Entry /\ Failed(e).pc \in {"bury", "backoff"}
            /\ Attempts[Failed(e).entry] = MaxRetries - (e.retries + 1)
            /\ Ones[Failed(e).entry] = 1
  <2>1. e.retries \in Nat /\ MaxRetries \in Nat
    BY <1>1, BoundsAssumption DEF Entry
  <2>2. e.retries < MaxRetries => /\ Failed(e).entry \in Entry /\ Failed(e).pc \in {"bury", "backoff"}
                                  /\ Failed(e).entry.retries = e.retries + 1
    BY <1>1, FailedTyped
  <2>3. /\ Attempts \in [Entry -> Nat]
        /\ \A a \in Entry : Attempts[a] = MaxRetries - a.retries /\ Ones[a] = 1
    BY WeightsTyped
  <2> HIDE DEF e
  <2> QED
    BY <1>1, <2>1, <2>2, <2>3
<1> HIDE DEF e
<1>9. Attempts \in [Entry -> Nat] /\ Ones \in [Entry -> Nat]
  BY WeightsTyped
<1>10. CASE j # i
  <2>1. tally'[j] = tally[j]
    BY <1>1, <1>10
  <2>2. /\ Load(Attempts, j)' = Load(Attempts, j) /\ Load(Attempts, j) \in Nat
        /\ Load(Ones, j)' = Load(Ones, j) /\ Load(Ones, j) \in Nat
    BY <1>2, <1>7, <1>9, <1>10
  <2> QED
    BY <1>4, <1>5, <1>6, <1>7, <1>9, <2>1, <2>2
<1>11. CASE j = i
  <2>1. CASE /\ consumer' = Waiting /\ faults'.db = faults.db
             /\ tally'[i].failed = tally[i].failed
             /\ tally'[i].deducted <= tally[i].deducted + 1
    <3>1. /\ Load(Attempts, j)' = Weight(Attempts, j, lists.queue)
          /\ Load(Attempts, j) = Weight(Attempts, j, lists.queue) + (MaxRetries - e.retries)
          /\ Weight(Attempts, j, lists.queue) \in Nat
      BY <1>7, <1>8, <1>9, <1>11, <2>1
    <3>2. /\ Load(Ones, j)' = Weight(Ones, j, lists.queue)
          /\ Load(Ones, j) = Weight(Ones, j, lists.queue) + 1
          /\ Weight(Ones, j, lists.queue) \in Nat
      BY <1>7, <1>8, <1>9, <1>11, <2>1
    <3>3. Load(Attempts, j)' <= Load(Attempts, j)
      BY <1>8, <3>1
    <3>4. MaxRetries * Brought(j) \in Nat /\ Brought(j) \in Nat
      BY <1>7, <1>8, <1>9
    <3> QED
      BY <1>4, <1>5, <1>6, <1>8, <1>11, <2>1, <3>1, <3>2, <3>3, <3>4
  <2>2. CASE /\ consumer' = Failed(e) /\ e.retries < MaxRetries
             /\ tally'[i].failed <= tally[i].failed + 1
             /\ tally'[i].deducted + faults.db <= tally[i].deducted + faults'.db
    <3>1. Attempts[Failed(e).entry] \in Nat /\ Ones[Failed(e).entry] \in Nat
      BY <1>8, <1>9, <2>2
    <3>2. Held(Attempts, j)' <= MaxRetries - (e.retries + 1) /\ Held(Attempts, j)' \in Nat
      BY <1>7, <1>8, <1>9, <1>11, <2>2, <3>1
    <3>3. Held(Ones, j)' <= 1 /\ Held(Ones, j)' \in Nat
      BY <1>7, <1>8, <1>9, <1>11, <2>2, <3>1
    <3>4. /\ Load(Attempts, j)' = Weight(Attempts, j, lists.queue) + Held(Attempts, j)'
          /\ Load(Attempts, j) = Weight(Attempts, j, lists.queue) + (MaxRetries - e.retries)
          /\ Weight(Attempts, j, lists.queue) \in Nat
      BY <1>7, <1>8, <1>9, <1>11
    <3>5. /\ Load(Ones, j)' = Weight(Ones, j, lists.queue) + Held(Ones, j)'
          /\ Load(Ones, j) = Weight(Ones, j, lists.queue) + 1
          /\ Weight(Ones, j, lists.queue) \in Nat
      BY <1>7, <1>8, <1>9, <1>11
    <3>6. /\ Load(Attempts, j)' + 1 <= Load(Attempts, j) /\ Load(Attempts, j)' \in Int
          /\ Load(Attempts, j) \in Int
      BY <1>8, <3>2, <3>4
    <3>7. /\ Load(Ones, j)' <= Load(Ones, j) /\ Load(Ones, j)' \in Int /\ Load(Ones, j) \in Int
      BY <3>3, <3>5
    <3>8. MaxRetries * Brought(j) \in Nat /\ Brought(j) \in Nat
      BY <1>7, <1>8, <1>9
    <3>9. tally'[j].failed + Load(Attempts, j)' <= MaxRetries * Brought(j)
      BY <1>4, <1>6, <1>11, <2>2, <3>6, <3>8
    <3>10. tally'[j].deducted + Load(Ones, j)' <= Brought(j) + faults'.db
      BY <1>4, <1>6, <1>11, <2>2, <3>7, <3>8
    <3> QED
      BY <1>5, <3>9, <3>10
  <2> QED
    BY <1>2, <2>1, <2>2
<1> QED
  BY <1>10, <1>11

LEMMA BoundedNext ==
    TypeOK /\ AttemptsCounted /\ Bounded /\ [Next]_vars => Bounded'
<1> SUFFICES ASSUME TypeOK, AttemptsCounted, Bounded, [Next]_vars PROVE Bounded'
  OBVIOUS
<1>1. CASE Quiet
  BY <1>1, BoundedQuiet
<1>2. ASSUME NEW i \in Items, ApplyItem(i) \/ ApplyFails(i) PROVE Bounded'
  BY <1>2, BoundedTried
<1>3. ASSUME Fault("data") PROVE Bounded'
  <2>1. faults.data \in Nat /\ faults'.data = faults.data + 1
    BY <1>3, BoundsAssumption DEF Fault, TypeOK
  <2>2. faults'.data # 0
    BY <2>1
  <2> QED
    BY <2>2 DEF Bounded
<1>4. RedisCrash \/ (\E key \in DOMAIN lists : Evict(key)) => Fault("data")
  BY DEF RedisCrash, Evict
<1>5. \/ Quiet
      \/ \E i \in Items : ApplyItem(i) \/ ApplyFails(i)
      \/ RedisCrash \/ \E key \in DOMAIN lists : Evict(key)
  BY DEF Next, Consume, Quiet
<1> QED
  BY <1>1, <1>2, <1>3, <1>4, <1>5

\* The retry count of an entry never exceeds its item's failures, and with no
\* lost Redis data no item fails more often than its copies account for,
\* however often it is retried, buried, repeated or lost (processItem).
THEOREM RetriesAlwaysCounted == Spec => []RetriesCounted
<1>1. TypeOK /\ AttemptsCounted /\ Bounded => RetriesCounted
  <2> SUFFICES ASSUME TypeOK, AttemptsCounted, Bounded PROVE RetriesCounted
    OBVIOUS
  <2>1. ASSUME faults.data = 0, NEW i \in Items
        PROVE  tally[i].failed <= MaxRetries * (1 + faults.calls)
    <3>1. tally[i].failed + Load(Attempts, i) <= MaxRetries * Brought(i)
      BY <2>1 DEF Bounded, FailuresBounded
    <3>2. /\ Load(Attempts, i) \in Nat /\ Once(i) \in 0..1 /\ faults.calls \in Nat
          /\ Brought(i) = Once(i) + faults.calls /\ tally[i].failed \in Nat
      BY WeightsTyped, LoadTyped, TallyTyped
    <3>3. MaxRetries \in Nat
      BY BoundsAssumption
    <3>4. /\ MaxRetries * (faults.calls + 1) = MaxRetries * faults.calls + 1 * MaxRetries
          /\ MaxRetries * (faults.calls + 0) = MaxRetries * faults.calls + 0 * MaxRetries
          /\ MaxRetries * faults.calls \in Nat
      BY <3>2, <3>3, Product
    <3>5. 1 * MaxRetries = MaxRetries /\ 0 * MaxRetries = 0
      BY <3>3
    <3>6. 1 + faults.calls = faults.calls + 1 /\ 0 + faults.calls = faults.calls + 0
      BY <3>2
    <3>7. CASE Once(i) = 1
      BY <3>1, <3>2, <3>3, <3>4, <3>5, <3>6, <3>7
    <3>8. CASE Once(i) = 0
      BY <3>1, <3>2, <3>3, <3>4, <3>5, <3>6, <3>8
    <3> QED
      BY <3>2, <3>7, <3>8
  <2> QED
    BY <2>1 DEF RetriesCounted, AttemptsCounted, Fits, Dead
<1> QED
  BY <1>1, TypeInit, TypeNext, BoundedInit, BoundedNext, PTL DEF Spec

\* No line comes off the stock a second time unless the database failed, a
\* push was repeated or Redis lost data (applyToAnalytics).
THEOREM NeverDeductedTwice == Spec => []DeductedOnce
<1>1. TypeOK /\ Bounded => DeductedOnce
  <2> SUFFICES ASSUME TypeOK, Bounded, faults.data = 0, NEW i \in Items
      PROVE  tally[i].deducted <= 1 + faults.calls + faults.db
    BY DEF DeductedOnce
  <2>1. tally[i].deducted + Load(Ones, i) <= Brought(i) + faults.db
    BY DEF Bounded, DeductionsBounded
  <2>2. /\ Load(Ones, i) \in Nat /\ Once(i) \in 0..1 /\ faults.calls \in Nat
        /\ Brought(i) = Once(i) + faults.calls /\ tally[i].deducted \in Nat
    BY WeightsTyped, LoadTyped, TallyTyped
  <2>3. faults.db \in Nat
    BY BoundsAssumption DEF TypeOK
  <2> QED
    BY <2>1, <2>2, <2>3
<1> QED
  BY <1>1, TypeInit, TypeNext, BoundedInit, BoundedNext, PTL DEF Spec

-----------------------------------------------------------------------------
(* Copies.  A step moves the copies of one item at most, and off by no more   *)
(* than the calls it loses.                                                   *)

Gap(i) == Distance(Copies(i), IF i \in enqueued THEN 1 ELSE 0)

Taken(i) == IF Holds(i) THEN 1 ELSE 0

LEMMA CopiesAdd ==
    ASSUME TypeOK, NEW i \in Items
    PROVE  /\ Copies(i) = Weight(Ones, i, lists.queue) + Weight(Ones, i, lists.dlq)
                             + tally[i].done + Taken(i)
           /\ Weight(Ones, i, lists.queue) \in Nat /\ Weight(Ones, i, lists.dlq) \in Nat
           /\ tally[i].done \in Nat /\ Taken(i) \in 0..1 /\ faults.calls \in Nat
           /\ Gap(i) = Distance(Copies(i), Once(i)) /\ Once(i) \in 0..1
<1>1. lists.queue \in Seq(Entry) /\ lists.dlq \in Seq(Entry) /\ faults.calls \in Nat
  BY BoundsAssumption DEF TypeOK, Lists
<1>2. /\ Occurrences(i, lists.queue) = Weight(Ones, i, lists.queue)
      /\ Occurrences(i, lists.dlq) = Weight(Ones, i, lists.dlq)
  BY <1>1, OccurrencesWeigh
<1>3. Weight(Ones, i, lists.queue) \in Nat /\ Weight(Ones, i, lists.dlq) \in Nat
  BY <1>1, WeightsTyped, WeightTyped
<1> QED
  BY <1>1, <1>2, <1>3, TallyTyped DEF Copies, Taken, Gap, Once

LEMMA CopiesAddNext ==
    ASSUME TypeOK', NEW i \in Items
    PROVE  /\ Copies(i)' = Weight(Ones, i, lists'.queue) + Weight(Ones, i, lists'.dlq)
                              + tally'[i].done + Taken(i)'
           /\ Weight(Ones, i, lists'.queue) \in Nat /\ Weight(Ones, i, lists'.dlq) \in Nat
           /\ tally'[i].done \in Nat /\ Taken(i)' \in 0..1 /\ faults'.calls \in Nat
           /\ Gap(i)' = Distance(Copies(i)', Once(i)') /\ Once(i)' \in 0..1
<1>1. lists'.queue \in Seq(Entry) /\ lists'.dlq \in Seq(Entry) /\ faults'.calls \in Nat
  BY BoundsAssumption DEF TypeOK, Lists
<1>2. /\ Occurrences(i, lists'.queue) = Weight(Ones, i, lists'.queue)
      /\ Occurrences(i, lists'.dlq) = Weight(Ones, i, lists'.dlq)
  BY <1>1, OccurrencesWeigh
<1>3. Weight(Ones, i, lists'.queue) \in Nat /\ Weight(Ones, i, lists'.dlq) \in Nat
  BY <1>1, WeightsTyped, WeightTyped
<1>4. Copies(i)' = Occurrences(i, lists'.queue) + Occurrences(i, lists'.dlq) + tally'[i].done
                      + Taken(i)'
  BY DEF Copies, Taken, Holds, Occurrences
<1>5. tally'[i].done \in Nat /\ Taken(i)' \in 0..1 /\ Once(i)' \in 0..1
  BY DEF TypeOK, Taken, Once
<1>6. Gap(i)' = Distance(Copies(i)', Once(i)')
  BY DEF Gap, Once, Distance
<1> QED
  BY <1>1, <1>2, <1>3, <1>4, <1>5, <1>6

LEMMA DistanceSteps ==
    ASSUME NEW m \in Nat, NEW n \in Nat, NEW m1 \in Nat, NEW n1 \in Nat
    PROVE  /\ Distance(m, n) \in Nat /\ Distance(m1, n1) \in Nat
           /\ m1 - n1 = m - n => Distance(m1, n1) = Distance(m, n)
           /\ m1 - n1 <= m - n + 1 /\ m - n <= m1 - n1 + 1 =>
                 Distance(m1, n1) <= Distance(m, n) + 1
  BY DEF Distance

\* How the copies of an item may move in a step.
Still(i) == Gap(i)' = Gap(i)
Off(i) == Gap(i)' <= Gap(i) + 1

LEMMA GapFrom ==
    ASSUME TypeOK, TypeOK', NEW i \in Items, NEW d \in {-1, 0, 1},
           Copies(i)' - Once(i)' = Copies(i) - Once(i) + d
    PROVE  /\ Gap(i) \in Nat /\ Gap(i)' \in Nat
           /\ d = 0 => Still(i)
           /\ Off(i)
<1>1. PICK m \in Nat, n \in Nat :
         m = Copies(i) /\ n = Once(i) /\ Gap(i) = Distance(m, n)
  BY CopiesAdd
<1>2. PICK m1 \in Nat, n1 \in Nat :
         m1 = Copies(i)' /\ n1 = Once(i)' /\ Gap(i)' = Distance(m1, n1)
  BY CopiesAddNext
<1>3. m1 - n1 = m - n + d
  BY <1>1, <1>2
<1>4. /\ Distance(m, n) \in Nat /\ Distance(m1, n1) \in Nat
      /\ m1 - n1 = m - n => Distance(m1, n1) = Distance(m, n)
      /\ m1 - n1 <= m - n + 1 /\ m - n <= m1 - n1 + 1 =>
            Distance(m1, n1) <= Distance(m, n) + 1
  BY DistanceSteps
<1>5. Distance(m1, n1) <= Distance(m, n) + 1 /\ (d = 0 => Distance(m1, n1) = Distance(m, n))
  BY <1>3, <1>4
<1> QED
  BY <1>1, <1>2, <1>4, <1>5 DEF Still, Off

\* What a step may do to the gaps: nothing, or move one of them by one at the
\* price of a lost call.
Paid ==
    /\ \A i \in Items : Gap(i) \in Nat /\ Gap(i)' \in Nat
    /\ \/ (\A i \in Items : Still(i)) /\ faults.calls <= faults'.calls
       \/ /\ faults'.calls = faults.calls + 1
          /\ \E x \in Items : Off(x) /\ \A i \in Items \ {x} : Still(i)

LEMMA PaidNothing ==
    ASSUME TypeOK, TypeOK', faults.calls <= faults'.calls,
           \A i \in Items : Copies(i)' - Once(i)' = Copies(i) - Once(i)
    PROVE  Paid
<1>1. ASSUME NEW i \in Items PROVE Gap(i) \in Nat /\ Gap(i)' \in Nat /\ Still(i)
  <2>1. Copies(i) \in Nat /\ Once(i) \in 0..1
    BY CopiesAdd
  <2>2. Copies(i)' - Once(i)' = Copies(i) - Once(i) + 0
    BY <2>1
  <2> QED
    BY <2>2, GapFrom
<1> QED
  BY <1>1 DEF Paid

LEMMA PaidOne ==
    ASSUME TypeOK, TypeOK', faults'.calls = faults.calls + 1,
           NEW x \in Items, NEW d \in {-1, 0, 1},
           Copies(x)' - Once(x)' = Copies(x) - Once(x) + d,
           \A i \in Items \ {x} : Copies(i)' - Once(i)' = Copies(i) - Once(i)
    PROVE  Paid
<1>1. Gap(x) \in Nat /\ Gap(x)' \in Nat /\ Off(x)
  BY GapFrom
<1>2. ASSUME NEW i \in Items \ {x} PROVE Gap(i) \in Nat /\ Gap(i)' \in Nat /\ Still(i)
  <2>1. Copies(i) \in Nat /\ Once(i) \in 0..1
    BY CopiesAdd
  <2>2. Copies(i)' - Once(i)' = Copies(i) - Once(i) + 0
    BY <2>1
  <2> QED
    BY <2>2, GapFrom
<1> QED
  BY <1>1, <1>2 DEF Paid

\* A push of n copies of e to a list.
LEMMA PushedCopies ==
    ASSUME TypeOK, TypeOK', NEW key \in Keys, NEW e \in Entry, Push(key, e), tally' = tally,
           \A i \in Items \ {e.item} : Taken(i)' = Taken(i) /\ Once(i)' = Once(i)
    PROVE  \E n \in 0..2 :
              /\ Copies(e.item)' - Taken(e.item)' = Copies(e.item) - Taken(e.item) + n
              /\ \A i \in Items \ {e.item} : Copies(i)' - Once(i)' = Copies(i) - Once(i)
              /\ n = 0 => lists' = lists
              /\ n = 1 => faults' = faults
              /\ n # 1 => faults'.calls = faults.calls + 1
<1>1. PICK n \in 0..2 :
         /\ \A w \in [Entry -> Nat], i \in Items :
               Weight(w, i, lists'[key]) =
                  Weight(w, i, lists[key]) + (IF e.item = i THEN n * w[e] ELSE 0)
         /\ \A other \in Keys \ {key} : lists'[other] = lists[other]
         /\ n = 0 => lists' = lists
         /\ n = 1 => faults' = faults
         /\ n # 1 => Faulted("calls")
  BY PushEffect
<1>2. n # 1 => faults'.calls = faults.calls + 1
  BY <1>1 DEF Faulted, TypeOK
<1>3. \A i \in Items : Weight(Ones, i, lists'[key]) =
                          Weight(Ones, i, lists[key]) + (IF e.item = i THEN n * Ones[e] ELSE 0)
  BY <1>1, WeightsTyped
<1>4. n * Ones[e] = n
  BY WeightsTyped
<1>5. ASSUME NEW i \in Items
      PROVE  Weight(Ones, i, lists'.queue) + Weight(Ones, i, lists'.dlq) =
                Weight(Ones, i, lists.queue) + Weight(Ones, i, lists.dlq)
                   + (IF e.item = i THEN n ELSE 0)
  <2>1. /\ Weight(Ones, i, lists.queue) \in Nat /\ Weight(Ones, i, lists.dlq) \in Nat
    BY CopiesAdd
  <2>2. CASE key = "queue"
    <3>1. lists'.dlq = lists.dlq
      BY <1>1, <2>2 DEF Keys
    <3> QED
      BY <1>3, <1>4, <2>1, <2>2, <3>1
  <2>3. CASE key = "dlq"
    <3>1. lists'.queue = lists.queue
      BY <1>1, <2>3 DEF Keys
    <3> QED
      BY <1>3, <1>4, <2>1, <2>3, <3>1
  <2> QED
    BY <2>2, <2>3 DEF Keys
<1>6. ASSUME NEW i \in Items
      PROVE  Copies(i)' - Taken(i)' = Copies(i) - Taken(i) + (IF e.item = i THEN n ELSE 0)
  BY <1>5, CopiesAdd, CopiesAddNext
<1>7. e.item \in Items
  BY DEF Entry
<1>8. ASSUME NEW i \in Items \ {e.item} PROVE Copies(i)' - Once(i)' = Copies(i) - Once(i)
  <2>1. /\ Copies(i) \in Nat /\ Copies(i)' \in Nat /\ Taken(i) \in 0..1 /\ Once(i) \in 0..1
    BY CopiesAdd, CopiesAddNext
  <2> QED
    BY <1>6, <2>1
<1> QED
  BY <1>1, <1>2, <1>6, <1>7, <1>8

LEMMA PaidNext ==
    ASSUME TypeOK, TypeOK', AttemptsCounted, [Next]_vars, faults'.data = 0
    PROVE  Paid /\ faults.data = 0
<1> DEFINE Same(i) == Copies(i)' - Once(i)' = Copies(i) - Once(i)
<1>a. \A i \in Items : /\ Copies(i) \in Nat /\ Copies(i)' \in Nat
                       /\ Taken(i) \in 0..1 /\ Once(i) \in 0..1
                       /\ Taken(i)' \in 0..1 /\ Once(i)' \in 0..1
  BY CopiesAdd, CopiesAddNext
<1>b. /\ faults.calls \in Nat /\ faults.data \in Nat
      /\ Faulted("calls") => faults'.calls = faults.calls + 1
  BY BoundsAssumption DEF TypeOK, Faulted
<1>c. consumer' = Waiting => \A i \in Items : Taken(i)' = 0
  BY DEF Taken, Holds
<1>d. \A i \in Items : /\ enqueued' = enqueued => Once(i)' = Once(i)
                       /\ consumer' = consumer => Taken(i)' = Taken(i)
  BY DEF Taken, Holds, Once
<1>e. consumer # Waiting =>
         /\ consumer.entry.item \in Items /\ consumer.entry \in Entry
         /\ Taken(consumer.entry.item) = 1
         /\ \A i \in Items \ {consumer.entry.item} : Taken(i) = 0
  BY ConsumerTyped DEF Taken, Holds
\* The lists stay: only the consumer and the tally can move copies.
<1>f. ASSUME NEW i \in Items, lists' = lists
      PROVE  Copies(i)' - tally'[i].done - Taken(i)' = Copies(i) - tally[i].done - Taken(i)
  <2>1. /\ Copies(i) = Weight(Ones, i, lists.queue) + Weight(Ones, i, lists.dlq)
                          + tally[i].done + Taken(i)
        /\ Weight(Ones, i, lists.queue) \in Nat /\ Weight(Ones, i, lists.dlq) \in Nat
        /\ tally[i].done \in Nat /\ Taken(i) \in 0..1
    BY CopiesAdd
  <2>2. /\ Copies(i)' = Weight(Ones, i, lists.queue) + Weight(Ones, i, lists.dlq)
                           + tally'[i].done + Taken(i)'
        /\ tally'[i].done \in Nat /\ Taken(i)' \in 0..1
    BY <1>f, CopiesAddNext
  <2> QED
    BY <2>1, <2>2
<1>1. CASE Fsync \/ UNCHANGED vars
  <2>1. /\ lists' = lists /\ tally' = tally /\ consumer' = consumer
        /\ enqueued' = enqueued /\ faults' = faults
    BY <1>1 DEF Fsync, StockVars, vars
  <2>2. ASSUME NEW i \in Items PROVE Same(i)
    BY <1>a, <1>d, <1>f, <2>1, TallyTyped
  <2> QED
    BY <1>b, <2>1, <2>2, PaidNothing
<1>2. CASE Restart
  <2>1. /\ lists' = lists /\ tally' = tally /\ consumer' = Waiting /\ consumer # Waiting
        /\ enqueued' = enqueued /\ Faulted("calls")
    BY <1>2 DEF Restart, Fault, Faulted, ListVars, StockVars
  <2>0. PICK x \in Items : /\ x = consumer.entry.item /\ Taken(x) = 1
                            /\ \A i \in Items \ {x} : Taken(i) = 0
    BY <1>e, <2>1
  <2>2. Copies(x)' - Once(x)' = Copies(x) - Once(x) + (-1)
    BY <1>a, <1>c, <1>d, <1>f, <2>0, <2>1, TallyTyped
  <2>3. ASSUME NEW i \in Items \ {x} PROVE Same(i)
    BY <1>a, <1>c, <1>d, <1>f, <2>0, <2>1, TallyTyped
  <2>4. faults'.data = faults.data
    BY <2>1 DEF Faulted, TypeOK
  <2>5. faults'.calls = faults.calls + 1
    BY <1>b, <2>1
  <2>6. Paid
    <3>1. -1 \in {-1, 0, 1}
      OBVIOUS
    <3> QED
      BY <2>2, <2>3, <2>5, <3>1, PaidOne
  <2> QED
    BY <2>4, <2>6
<1>3. ASSUME NEW x \in Items, ApplyItem(x) \/ ApplyFails(x) PROVE Paid /\ faults.data = 0
  <2>1. /\ consumer.pc = "apply" /\ consumer.entry.item = x
        /\ lists' = lists /\ enqueued' = enqueued
        /\ faults'.calls = faults.calls /\ faults'.data = faults.data
        /\ \A j \in Items \ {x} : tally'[j] = tally[j]
        /\ \/ consumer' = Waiting /\ tally'[x].done = tally[x].done + 1
           \/ /\ consumer' # Waiting /\ consumer'.entry.item = x
              /\ tally'[x].done = tally[x].done
    BY <1>3, SucceedEffect, FailEffect, FailedTyped
  <2>2. consumer # Waiting
    BY <2>1 DEF Waiting
  <2>3. ASSUME NEW i \in Items PROVE Same(i)
    <3>1. Taken(i) = IF i = x THEN 1 ELSE 0
      BY <2>1, <2>2 DEF Taken, Holds
    <3>2. Taken(i)' = IF i = x /\ consumer' # Waiting THEN 1 ELSE 0
      BY <2>1 DEF Taken, Holds
    <3>3. tally[i].done \in Nat /\ Once(i)' = Once(i) /\ Once(i) \in 0..1
      BY <1>a, <1>d, <2>1, TallyTyped
    <3>4. tally'[i].done = tally[i].done + (IF i = x /\ consumer' = Waiting THEN 1 ELSE 0)
      BY <2>1, <3>3
    <3>5. Copies(i)' - tally'[i].done - Taken(i)' = Copies(i) - tally[i].done - Taken(i)
      BY <1>f, <2>1
    <3>6. Copies(i) \in Nat /\ Copies(i)' \in Nat
      BY <1>a
    <3> QED
      BY <3>1, <3>2, <3>3, <3>4, <3>5, <3>6
  <2> QED
    BY <1>b, <2>1, <2>3, PaidNothing
<1>4. ASSUME NEW key \in Keys, consumer.pc \in {"backoff", "bury"}, Push(key, consumer.entry),
             consumer' = Waiting, enqueued' = enqueued, tally' = tally
      PROVE  Paid
  <2>a. consumer # Waiting
    BY <1>4 DEF Waiting
  <2>1. PICK e \in Entry, x \in Items : e = consumer.entry /\ x = e.item
    BY <1>e, <2>a
  <2>2. Taken(x) = 1 /\ Taken(x)' = 0 /\ \A i \in Items \ {x} : Taken(i)' = Taken(i)
    BY <1>4, <1>c, <1>e, <2>a, <2>1
  <2>3. \A i \in Items : Once(i)' = Once(i)
    BY <1>4, <1>d
  <2>4. PICK n \in 0..2 :
           /\ Copies(e.item)' - Taken(e.item)' = Copies(e.item) - Taken(e.item) + n
           /\ \A i \in Items \ {e.item} : Copies(i)' - Once(i)' = Copies(i) - Once(i)
           /\ n = 1 => faults' = faults
           /\ n # 1 => faults'.calls = faults.calls + 1
    <3>1. Push(key, e)
      BY <1>4, <2>1
    <3> QED
      BY <1>4, <2>1, <2>2, <2>3, <3>1, PushedCopies
  <2>5. Copies(x)' - Once(x)' = Copies(x) - Once(x) + (n - 1)
    BY <1>a, <2>1, <2>2, <2>3, <2>4
  <2>6. CASE n = 1
    <3>1. ASSUME NEW i \in Items PROVE Same(i)
      BY <1>a, <2>1, <2>4, <2>5, <2>6
    <3>2. faults.calls <= faults'.calls
      BY <1>b, <2>4, <2>6
    <3> QED
      BY <3>1, <3>2, PaidNothing
  <2>7. CASE n # 1
    <3>1. n - 1 \in {-1, 0, 1} /\ faults'.calls = faults.calls + 1
      BY <2>4, <2>7
    <3>2. \A i \in Items \ {x} : Copies(i)' - Once(i)' = Copies(i) - Once(i)
      BY <2>1, <2>4
    <3> QED
      BY <2>1, <2>5, <3>1, <3>2, PaidOne
  <2> QED
    BY <2>6, <2>7
<1>5. CASE Requeue \/ Bury
  <2>1. Paid
    BY <1>4, <1>5 DEF Requeue, Bury, Keys, StockVars
  <2>2. UNCHANGED faults \/ Fault("calls")
    BY <1>5 DEF Requeue, Bury, Push
  <2> QED
    BY <2>1, <2>2 DEF Fault, TypeOK
<1>6. ASSUME NEW x \in Items, Enqueue(x) PROVE Paid /\ faults.data = 0
  <2> DEFINE e == [item |-> x, retries |-> 0]
  <2>1. e \in Entry /\ e.item = x
    BY BoundsAssumption DEF Entry
  <2>2. /\ x \notin enqueued /\ Push("queue", e) /\ lists' # lists
        /\ enqueued' = enqueued \cup {x} /\ consumer' = consumer /\ tally' = tally
    BY <1>6 DEF Enqueue, StockVars
  <2> HIDE DEF e
  <2>3. \A i \in Items \ {x} : Once(i)' = Once(i)
    BY <2>2 DEF Once
  <2>4. Once(x) = 0 /\ Once(x)' = 1 /\ \A i \in Items : Taken(i)' = Taken(i)
    BY <1>d, <2>2 DEF Once
  <2>5. PICK n \in 0..2 :
           /\ Copies(e.item)' - Taken(e.item)' = Copies(e.item) - Taken(e.item) + n
           /\ \A i \in Items \ {e.item} : Copies(i)' - Once(i)' = Copies(i) - Once(i)
           /\ n = 0 => lists' = lists
           /\ n = 1 => faults' = faults
           /\ n # 1 => faults'.calls = faults.calls + 1
    <3>1. "queue" \in Keys
      BY DEF Keys
    <3> QED
      BY <2>1, <2>2, <2>3, <2>4, <3>1, PushedCopies
  <2>6. Copies(x)' - Once(x)' = Copies(x) - Once(x) + (n - 1)
    BY <1>a, <2>1, <2>4, <2>5
  <2>7. CASE n = 1
    <3>1. ASSUME NEW i \in Items PROVE Same(i)
      BY <1>a, <2>1, <2>5, <2>6, <2>7
    <3>2. faults.calls <= faults'.calls
      BY <1>b, <2>5, <2>7
    <3>3. Paid
      BY <3>1, <3>2, PaidNothing
    <3> QED
      BY <2>5, <2>7, <3>3
  <2>8. CASE n # 1
    <3>1. n - 1 \in {-1, 0, 1} /\ faults'.calls = faults.calls + 1
      BY <2>5, <2>8
    <3>2. \A i \in Items \ {x} : Copies(i)' - Once(i)' = Copies(i) - Once(i)
      BY <2>1, <2>5
    <3>3. Paid
      BY <2>6, <3>1, <3>2, PaidOne
    <3>4. UNCHANGED faults \/ Fault("calls")
      BY <1>6 DEF Enqueue, Push
    <3> QED
      BY <3>3, <3>4 DEF Fault, TypeOK
  <2> QED
    BY <2>7, <2>8
<1>7. CASE Pop
  <2>a. /\ lists.queue \in Seq(Entry) /\ lists.queue # <<>> /\ Head(lists.queue) \in Entry
        /\ lists'.queue = Tail(lists.queue) /\ lists'.dlq = lists.dlq
    BY <1>7, PopEffect
  <2>1. PICK e \in Entry, x \in Items : e = Head(lists.queue) /\ x = e.item
    BY <2>a DEF Entry
  <2>2. consumer = Waiting /\ enqueued' = enqueued /\ tally' = tally
    BY <1>7 DEF Pop, StockVars
  <2>4. ASSUME NEW i \in Items
        PROVE  Copies(i)' - Taken(i)' = Copies(i) - (IF i = x THEN 1 ELSE 0)
    <3>1. Weight(Ones, i, lists.queue) =
             Weight(Ones, i, lists'.queue) + (IF e.item = i THEN Ones[e] ELSE 0)
      BY <2>a, <2>1, WeightsTyped, WeightTail
    <3>2. Ones[e] = 1 /\ Taken(i) = 0
      BY <2>1, <2>2, WeightsTyped DEF Taken, Holds
    <3>3. /\ Copies(i) = Weight(Ones, i, lists.queue) + Weight(Ones, i, lists.dlq)
                            + tally[i].done + Taken(i)
          /\ Weight(Ones, i, lists.dlq) \in Nat /\ tally[i].done \in Nat
      BY CopiesAdd
    <3>4. /\ Copies(i)' = Weight(Ones, i, lists'.queue) + Weight(Ones, i, lists.dlq)
                             + tally[i].done + Taken(i)'
          /\ Weight(Ones, i, lists'.queue) \in Nat /\ Taken(i)' \in 0..1
      BY <2>a, <2>2, CopiesAddNext
    <3> QED
      BY <2>1, <3>1, <3>2, <3>3, <3>4
  <2>5. Once(x)' = Once(x) /\ \A i \in Items : Once(i)' = Once(i)
    BY <1>d, <2>2
  <2>6. CASE consumer' = [pc |-> "apply", entry |-> e] /\ UNCHANGED faults
    <3>1. ASSUME NEW i \in Items PROVE Same(i)
      <4>1. Taken(i)' = IF i = x THEN 1 ELSE 0
        BY <2>1, <2>6 DEF Taken, Holds, Waiting
      <4>2. Copies(i)' - Taken(i)' = Copies(i) - (IF i = x THEN 1 ELSE 0)
        BY <2>4
      <4> QED
        BY <1>a, <2>5, <4>1, <4>2
    <3>2. faults.calls <= faults'.calls
      BY <1>b, <2>6
    <3>3. Paid
      BY <3>1, <3>2, PaidNothing
    <3> QED
      BY <2>6, <3>3
  <2>7. CASE consumer' = consumer /\ Fault("calls")
    <3>1. \A i \in Items : Taken(i)' = 0
      BY <1>c, <2>2, <2>7
    <3>2. faults'.calls = faults.calls + 1 /\ faults'.data = faults.data
      BY <2>7 DEF Fault, TypeOK
    <3>3. Copies(x)' - Once(x)' = Copies(x) - Once(x) + (-1)
      BY <1>a, <2>4, <2>5, <3>1
    <3>4. ASSUME NEW i \in Items \ {x} PROVE Same(i)
      BY <1>a, <2>4, <2>5, <3>1
    <3>5. Paid
      <4>1. -1 \in {-1, 0, 1}
        OBVIOUS
      <4> QED
        BY <3>2, <3>3, <3>4, <4>1, PaidOne
    <3> QED
      BY <3>2, <3>5
  <2> QED
    BY <1>7, <2>1, <2>6, <2>7 DEF Pop
<1>8. ~ (RedisCrash \/ \E key \in DOMAIN lists : Evict(key))
  <2>1. ASSUME Fault("data") PROVE FALSE
    <3>1. faults'.data = faults.data + 1
      BY <2>1 DEF Fault, TypeOK
    <3> QED
      BY <1>b, <3>1
  <2> QED
    BY <2>1 DEF RedisCrash, Evict
<1> QED
  BY <1>1, <1>2, <1>3, <1>5, <1>6, <1>7, <1>8 DEF Next, Consume

LEMMA ConservedInit == Init => CopiesConserved
<1> SUFFICES ASSUME Init PROVE CopiesConserved
  OBVIOUS
<1> DEFINE f == [i \in Items |-> Distance(Copies(i), IF i \in enqueued THEN 1 ELSE 0)]
<1>1. TypeOK
  BY TypeInit
<1>2. ASSUME NEW i \in Items PROVE f[i] = 0
  <2>1. Positions(i, <<>>) = {}
    BY DEF Positions
  <2>2. Weight(Ones, i, <<>>) = 0
    BY <2>1, SumEmpty DEF Weight
  <2>3. /\ lists.queue = <<>> /\ lists.dlq = <<>> /\ tally[i].done = 0 /\ Taken(i) = 0
        /\ i \notin enqueued
    BY DEF Init, Taken, Holds
  <2>4. Copies(i) = Weight(Ones, i, lists.queue) + Weight(Ones, i, lists.dlq)
                       + tally[i].done + Taken(i)
    BY <1>1, CopiesAdd
  <2> QED
    BY <2>2, <2>3, <2>4 DEF Distance
<1>3. SumFunctionOnSet(f, Items) = 0
  <2> HIDE DEF f
  <2> QED
    BY <1>2, ItemsAssumption, SumOfZeros
<1> QED
  BY <1>3 DEF CopiesConserved, Init

LEMMA ConservedNext ==
    TypeOK /\ TypeOK' /\ AttemptsCounted /\ CopiesConserved /\ [Next]_vars => CopiesConserved'
<1> SUFFICES ASSUME TypeOK, TypeOK', AttemptsCounted, CopiesConserved, [Next]_vars,
                    faults'.data = 0
    PROVE  SumFunctionOnSet([i \in Items |-> Gap(i)'], Items) <= faults'.calls
  BY DEF CopiesConserved, Gap
<1> DEFINE f == [i \in Items |-> Gap(i)]
           h == [i \in Items |-> Gap(i)']
<1>1. Paid /\ faults.data = 0
  BY PaidNext
<1>2. SumFunctionOnSet(f, Items) <= faults.calls
  BY <1>1 DEF CopiesConserved, Gap
<1>3. \A i \in Items : f[i] \in Nat /\ h[i] \in Nat
  BY <1>1 DEF Paid
<1>4. SumFunctionOnSet(f, Items) \in Nat
  <2> HIDE DEF f, h
  <2> QED
    BY <1>3, ItemsAssumption, SumNatural
<1>5. faults.calls \in Nat /\ faults'.calls \in Nat
  BY BoundsAssumption DEF TypeOK
<1>6. CASE (\A i \in Items : Still(i)) /\ faults.calls <= faults'.calls
  <2>1. \A i \in Items : f[i] = h[i]
    BY <1>6 DEF Still
  <2>2. SumFunctionOnSet(f, Items) = SumFunctionOnSet(h, Items)
    <3> HIDE DEF f, h
    <3> QED
      BY <2>1, ItemsAssumption, SumAgrees
  <2> HIDE DEF f, h
  <2>3. SumFunctionOnSet(h, Items) <= faults'.calls
    BY <1>2, <1>4, <1>5, <1>6, <2>2
  <2> QED
    BY <2>3 DEF h
<1>7. CASE /\ faults'.calls = faults.calls + 1
           /\ \E x \in Items : Off(x) /\ \A i \in Items \ {x} : Still(i)
  <2>1. PICK x \in Items : Off(x) /\ \A i \in Items \ {x} : Still(i)
    BY <1>7
  <2>2. h[x] <= f[x] + 1 /\ \A i \in Items \ {x} : h[i] = f[i]
    BY <2>1 DEF Still, Off
  <2>3. SumFunctionOnSet(h, Items) = SumFunctionOnSet(f, Items) - f[x] + h[x]
    <3> HIDE DEF f, h
    <3>1. (\A i \in Items : f[i] \in Int) /\ h[x] \in Int
      BY <1>3
    <3> QED
      BY <2>2, <3>1, ItemsAssumption, SumExcept
  <2>4. SumFunctionOnSet(h, Items) <= faults'.calls
    <3> HIDE DEF f, h
    <3> QED
      BY <1>2, <1>3, <1>4, <1>5, <1>7, <2>2, <2>3
  <2> QED
    BY <2>4
<1> QED
  BY <1>1, <1>6, <1>7 DEF Paid

\* While Redis keeps its data, the items are where they should be, once each,
\* but for as many copies lost or doubled as calls were: over all items
\* together, however many there are (Enqueue, StartConsumer, processItem,
\* sendToDLQ).
THEOREM CopiesAlwaysConserved == Spec => []CopiesConserved
  BY TypeInit, TypeNext, ConservedInit, ConservedNext, PTL DEF Spec
=============================================================================
