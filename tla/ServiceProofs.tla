--------------------------- MODULE ServiceProofs ---------------------------
(***************************************************************************)
(* Proofs about the threads and coroutines of the services: how a consumer *)
(* handles a batch (Dispatch), how much it may handle (FreqMan), and how a *)
(* producer sends one (BatchHelper).                                       *)
(***************************************************************************)
EXTENDS Dispatch, BatchHelper, FreqMan, Induction, SequenceTheorems

-----------------------------------------------------------------------------
\* What a bucket is filled with: the items of a set, each once, in their order.
LEMMA InOrderIsSeq ==
  ASSUME NEW N \in Nat, NEW S \in SUBSET (1..N)
  PROVE  /\ InOrder(S) \in Seq(S) /\ Rises(InOrder(S))
         /\ \A x : x \in S <=> \E i \in DOMAIN InOrder(S) : InOrder(S)[i] = x
  <1>1. /\ Cardinality(S) \in Nat
        /\ InOrder(S) \in [1..Cardinality(S) -> S] /\ Rises(InOrder(S))
        /\ \A x \in S : \E i \in 1..Cardinality(S) : InOrder(S)[i] = x
    BY InOrderIsOrder
  <1> DEFINE s == InOrder(S)
             c == Cardinality(S)
  <1> HIDE DEF s, c
  <1>2. c \in Nat /\ s \in [1..c -> S]
    BY <1>1 DEF s, c
  <1>3. s \in Seq(S) /\ DOMAIN s = 1..c
    BY <1>2, SeqDef
  <1>4. \A x : x \in S <=> \E i \in DOMAIN s : s[i] = x
    <2>1. \A x \in S : \E i \in DOMAIN s : s[i] = x
      BY <1>1, <1>3 DEF s, c
    <2> QED
      BY <2>1, <1>2
  <1> QED
    BY <1>1, <1>3, <1>4 DEF s

\* The first of the items before i with its uin.
LEMMA MinFollows ==
  ASSUME NEW b, NEW i \in Nat, Follows(b, i) # {}
  PROVE  /\ Min(Follows(b, i)) \in Follows(b, i)
         /\ \A j \in Follows(b, i) : Min(Follows(b, i)) <= j
  <1> DEFINE F == Follows(b, i)
  <1>1. F \in SUBSET Nat /\ F # {}
    BY DEF Follows
  <1> HIDE DEF F
  <1>2. \E m \in F : \A n \in F : m <= n
    BY <1>1, LeastNat
  <1>3. Min(F) \in F /\ \A n \in F : Min(F) <= n
    BY <1>2 DEF Min
  <1> QED
    BY <1>3 DEF F

\* Items of the same uin fall into the same bucket.
LEMMA SameUinSameBucket ==
  ASSUME ~RandomUin, NEW n \in Nat, NEW b, DOMAIN b = 1..n, NEW f \in Buckets(b),
         NEW i \in 1..n, NEW j \in 1..(i - 1), b[j] = b[i], b[j] # 0
  PROVE  f[j] = f[i]
  <1>1. j \in Follows(b, i) /\ i \in Nat /\ j \in Nat /\ j < i /\ j \in 1..n
    BY DEF Follows
  <1> DEFINE m == Min(Follows(b, i))
  <1>2. m \in Follows(b, i) /\ m <= j
    BY <1>1, MinFollows
  <1>3. \A k \in Follows(b, i) : m <= k
    BY <1>1, MinFollows
  <1>4. f[i] = f[m]
    BY <1>1 DEF Buckets, Opening
  <1> HIDE DEF m
  <1>5. CASE m = j
    BY <1>4, <1>5
  <1>6. CASE m < j
    <2>1. m \in Follows(b, j) /\ Follows(b, j) \subseteq Follows(b, i)
      BY <1>1, <1>2, <1>6 DEF Follows
    <2> DEFINE q == Min(Follows(b, j))
    <2>2. q \in Follows(b, j) /\ q <= m
      BY <2>1, <1>1, MinFollows
    <2>3. f[j] = f[q]
      BY <2>1, <1>1 DEF Buckets, Opening
    <2> HIDE DEF q
    <2>4. m <= q /\ q \in Nat /\ m \in Nat
      BY <2>1, <2>2, <1>2, <1>3 DEF Follows
    <2>5. q = m
      BY <2>2, <2>4
    <2> QED
      BY <1>4, <2>3, <2>5
  <1>7. m \in Nat
    BY <1>2 DEF Follows
  <1> QED
    BY <1>1, <1>2, <1>5, <1>6, <1>7

\* The domain of the batch at hand.
LEMMA BatchDomain ==
  ASSUME DispatchTypeOK
  PROVE  /\ Len(uins) \in Nat /\ Len(uins) \in 0..MaxBatch /\ DOMAIN uins = 1..Len(uins)
         /\ IsFiniteSet(DOMAIN uins) /\ Cardinality(DOMAIN uins) = Len(uins)
         /\ \A S \in SUBSET DOMAIN uins : IsFiniteSet(S) /\ Cardinality(S) \in 0..Len(uins)
  <1>1. uins \in Seq(Uins) /\ Len(uins) <= MaxBatch
    BY DEF DispatchTypeOK
  <1>2. Len(uins) \in Nat /\ DOMAIN uins = 1..Len(uins)
    BY <1>1, LenProperties
  <1>3. IsFiniteSet(DOMAIN uins) /\ Cardinality(DOMAIN uins) = Len(uins)
    <2>1. IsFiniteSet(1..Len(uins))
          /\ Cardinality(1..Len(uins)) = IF 1 > Len(uins) THEN 0 ELSE Len(uins) - 1 + 1
      BY <1>2, FS_Interval
    <2>2. Cardinality(1..Len(uins)) = Len(uins)
      BY <1>2, <2>1
    <2> QED
      BY <1>2, <2>1, <2>2
  <1>4. ASSUME NEW S \in SUBSET DOMAIN uins
        PROVE  IsFiniteSet(S) /\ Cardinality(S) \in 0..Len(uins)
    <2>1. IsFiniteSet(S) /\ Cardinality(S) <= Len(uins)
      BY <1>3, FS_Subset
    <2>2. Cardinality(S) \in Nat
      BY <2>1, FS_CardinalityType
    <2> QED
      BY <2>1, <2>2, <1>2
  <1> QED
    BY <1>1, <1>2, <1>3, <1>4, DispatchAssumption

LEMMA DispatchInitInv == DispatchInit => DispatchInv
  <1> SUFFICES ASSUME DispatchInit PROVE DispatchInv
    OBVIOUS
  <1> USE DispatchAssumption DEF DispatchInit
  <1>1. DOMAIN uins = {} /\ Len(uins) = 0 /\ uins \in Seq(Uins)
    OBVIOUS
  <1>2. DispatchTypeOK
    <2>1. << >> \in Seq(1..MaxBatch) /\ 0 \in 0..MaxBatch /\ 0 \in 0..NBatchHandler
      OBVIOUS
    <2>2. bucket \in [Handler -> Seq(1..MaxBatch)] /\ running \in [Handler -> 0..MaxBatch]
      BY <2>1
    <2>3. handled \in [DOMAIN uins -> 0..1]
      BY <1>1
    <2> QED
      BY <1>1, <2>1, <2>2, <2>3 DEF DispatchTypeOK
  <1>3. BucketsAreOrdered
    BY <1>1 DEF BucketsAreOrdered, Holds, Rises
  <1>4. CountersCount
    BY DEF CountersCount
  <1> QED
    BY <1>1, <1>2, <1>3, <1>4 DEF DispatchInv

\* Consume begins with empty buckets.
LEMMA ConsumeKeeps ==
  ASSUME DispatchInv, NEW n \in 1..MaxBatch, NEW b \in [1..n -> Uins], Consume(b)
  PROVE  DispatchInv'
  <1>1. /\ stage = "idle" /\ stage' = "asked" /\ uins' = b
        /\ handled' = [i \in DOMAIN b |-> 0]
        /\ bucket' = bucket /\ running' = running /\ busy' = busy /\ finished' = finished
        /\ batchFinished' = batchFinished
    BY DEF Consume
  <1>2. busy = {} /\ \A h \in Handler : running[h] = 0 /\ bucket[h] = << >>
    BY <1>1 DEF DispatchInv
  <1>3. n \in Nat /\ n <= MaxBatch /\ b \in Seq(Uins) /\ DOMAIN b = 1..n /\ Len(b) = n
    <2>1. n \in Nat /\ n <= MaxBatch
      BY DispatchAssumption
    <2>2. b \in Seq(Uins)
      BY <2>1, SeqDef
    <2> QED
      BY <2>1, <2>2
  <1>4. DispatchTypeOK'
    <2>1. DispatchTypeOK /\ handled' \in [DOMAIN uins' -> 0..1]
      BY <1>1, <1>3 DEF DispatchInv
    <2> QED
      BY <1>1, <1>3, <2>1 DEF DispatchTypeOK
  <1>5. \A h \in Handler : Holds(h)' = {}
    BY <1>1, <1>2, <1>3 DEF Holds
  <1>6. BucketsAreOrdered'
    BY <1>1, <1>2, <1>5 DEF BucketsAreOrdered, Rises
  <1>7. CountersCount'
    BY <1>1 DEF CountersCount
  <1> QED
    BY <1>1, <1>2, <1>4, <1>6, <1>7 DEF DispatchInv

\* The buckets are filled: every item is in one of them.
LEMMA TaskDispatchKeeps ==
  ASSUME DispatchInv, TaskDispatch
  PROVE  DispatchInv'
  <1>0. DispatchTypeOK
    BY DEF DispatchInv
  <1>1. /\ stage = "asked" /\ stage' = "handling" /\ uins' = uins /\ running' = running
        /\ handled' = handled /\ busy' = BatchHandler /\ finished' = 0 /\ batchFinished' = 0
    BY DEF TaskDispatch, CounterReset
  <1>2. PICK f \in Buckets(uins) : bucket' = [h \in Handler |-> InOrder({i \in DOMAIN uins : f[i] = h})]
    BY DEF TaskDispatch
  <1>3. /\ \A h \in Handler : running[h] = 0
        /\ \A i \in DOMAIN uins : handled[i] = 0
    BY <1>1 DEF DispatchInv
  <1>4. Len(uins) \in Nat /\ Len(uins) <= MaxBatch /\ DOMAIN uins = 1..Len(uins)
    BY <1>0, BatchDomain, DispatchAssumption
  <1> DEFINE S(h) == {i \in DOMAIN uins : f[i] = h}
  <1>5. ASSUME NEW h \in Handler
        PROVE  /\ bucket'[h] \in Seq(S(h)) /\ Rises(bucket'[h])
               /\ \A x : x \in S(h) <=> \E k \in DOMAIN bucket'[h] : bucket'[h][k] = x
    <2>1. S(h) \in SUBSET (1..Len(uins)) /\ bucket'[h] = InOrder(S(h))
      BY <1>2, <1>4
    <2> HIDE DEF S
    <2>2. /\ InOrder(S(h)) \in Seq(S(h)) /\ Rises(InOrder(S(h)))
          /\ \A x : x \in S(h) <=> \E i \in DOMAIN InOrder(S(h)) : InOrder(S(h))[i] = x
      BY <1>4, <2>1, InOrderIsSeq
    <2> QED
      BY <2>1, <2>2
  <1>6. \A h \in Handler : S(h) \subseteq DOMAIN uins /\ S(h) \subseteq 1..MaxBatch
    BY <1>4, DispatchAssumption
  <1>7. f \in [DOMAIN uins -> Handler]
    BY DEF Buckets
  <1>8. ASSUME NEW h \in Handler PROVE Holds(h)' = S(h)
    <2>1. \A i \in DOMAIN uins : i # 0
      BY <1>4
    <2>2. Holds(h)' = {i \in DOMAIN uins : i = 0 \/ \E k \in DOMAIN bucket'[h] : bucket'[h][k] = i}
      BY <1>1, <1>3 DEF Holds
    <2> HIDE DEF S
    <2>3. \A x : x \in S(h) => x \in DOMAIN uins
      BY <1>6
    <2> QED
      BY <1>5, <2>1, <2>2, <2>3
  <1>9. DispatchTypeOK'
    <2>1. bucket' \in [Handler -> Seq(1..MaxBatch)]
      <3>1. ASSUME NEW h \in Handler PROVE bucket'[h] \in Seq(1..MaxBatch)
        <4> HIDE DEF S
        <4> QED
          BY <1>5, <1>6, SeqMonotonic
      <3> QED
        BY <1>2, <3>1
    <2> QED
      BY <1>0, <1>1, <2>1, DispatchAssumption DEF DispatchTypeOK
  <1>10. BucketsAreOrdered'
    <2>1. ASSUME NEW h \in Handler
          PROVE  /\ \A k \in DOMAIN bucket'[h] : bucket'[h][k] \in DOMAIN uins
                 /\ Rises(bucket'[h])
                 /\ \A i \in Holds(h)' : handled[i] = 0
      <3> HIDE DEF S
      <3>1. \A x : x \in S(h) => x \in DOMAIN uins
        BY <1>6
      <3> QED
        BY <1>3, <1>5, <1>8, <3>1
    <2>2. \A g, h \in Handler : g # h => S(g) \cap S(h) = {}
      OBVIOUS
    <2>3. \A g, h \in Handler : g # h => Holds(g)' \cap Holds(h)' = {}
      <3> HIDE DEF S
      <3> QED
        BY <1>8, <2>2
    <2>4. ASSUME ~RandomUin, NEW h \in Handler, NEW i \in S(h), NEW j \in 1..(i - 1),
                 uins[j] = uins[i], uins[j] # 0
          PROVE  j \in S(h)
      <3>1. i \in 1..Len(uins) /\ f[i] = h /\ j \in DOMAIN uins
        BY <1>4
      <3>2. f[j] = f[i]
        BY <1>4, <2>4, <3>1, SameUinSameBucket
      <3> QED
        BY <3>1, <3>2
    <2>5. \A h \in Handler : running'[h] = 0
      BY <1>1, <1>3
    <2> HIDE DEF S
    <2>6. ~RandomUin => \A h \in Handler : \A i \in Holds(h)' : \A j \in 1..(i - 1) :
              uins[j] = uins[i] /\ uins[j] # 0 => j \in Holds(h)'
      BY <1>8, <2>4
    <2> QED
      BY <1>1, <2>1, <2>3, <2>5, <2>6 DEF BucketsAreOrdered
  <1>11. CountersCount'
    <2>1. {i \in DOMAIN uins : handled[i] = 1} = {}
      BY <1>3
    <2>2. Cardinality({i \in DOMAIN uins : handled[i] = 1}) = 0
      BY <2>1, FS_EmptySet
    <2>3. Cardinality(BatchHandler) = NBatchHandler
      <3>1. Cardinality(1..NBatchHandler)
              = IF 1 > NBatchHandler THEN 0 ELSE NBatchHandler - 1 + 1
        BY FS_Interval, DispatchAssumption
      <3> QED
        BY <3>1, DispatchAssumption DEF BatchHandler
    <2>4. \A i \in DOMAIN uins : \E h \in Handler : i \in S(h)
      BY <1>7
    <2> HIDE DEF S
    <2>5. \A i \in DOMAIN uins : \E h \in Handler : i \in Holds(h)'
      BY <1>8, <2>4
    <2>6. batchFinished' + Cardinality(busy') = NBatchHandler
      BY <1>1, <2>3, DispatchAssumption
    <2> QED
      BY <1>1, <2>2, <2>5, <2>6 DEF CountersCount
  <1> QED
    BY <1>1, <1>9, <1>10, <1>11 DEF DispatchInv

\* A coroutine that goes on has the same items as before, the first at hand.
LEMMA HandleRoutineKeeps ==
  ASSUME DispatchInv, NEW h \in Handler, HandleRoutineFunc(h)
  PROVE  DispatchInv'
  <1>0. DispatchTypeOK /\ BucketsAreOrdered /\ CountersCount
    BY DEF DispatchInv
  <1> DEFINE b == bucket[h]
  <1>1. /\ running[h] = 0 /\ b # << >>
        /\ running' = [running EXCEPT ![h] = Head(b)]
        /\ bucket' = [bucket EXCEPT ![h] = Tail(b)]
        /\ UNCHANGED <<stage, uins, busy, finished, batchFinished, handled>>
    BY DEF HandleRoutineFunc
  <1>2. b \in Seq(1..MaxBatch) /\ Rises(b)
        /\ \A k \in DOMAIN b : b[k] \in DOMAIN uins
    BY <1>0 DEF DispatchTypeOK, BucketsAreOrdered
  <1> HIDE DEF b
  <1>3. /\ Head(b) = b[1] /\ Tail(b) \in Seq(1..MaxBatch) /\ Len(Tail(b)) = Len(b) - 1
        /\ Len(b) \in Nat /\ Len(b) > 0 /\ DOMAIN b = 1..Len(b)
        /\ DOMAIN Tail(b) = 1..(Len(b) - 1)
    BY <1>1, <1>2
  <1>4. \A k \in DOMAIN Tail(b) : Tail(b)[k] = b[k + 1] /\ k + 1 \in DOMAIN b
    BY <1>1, <1>2, <1>3
  <1>5. 1 \in DOMAIN b /\ b[1] \in DOMAIN uins /\ b[1] \in 1..MaxBatch
    <2>1. 1 \in DOMAIN b
      BY <1>3
    <2>0. 1 \in 1..Len(b)
      BY <1>3
    <2>2. b[1] \in 1..MaxBatch
      BY <1>2, <2>0, ElementOfSeq, Zenon
    <2> QED
      BY <2>1, <2>2, <1>2
  <1>6. \A k \in DOMAIN b : k = 1 \/ (k - 1 \in DOMAIN Tail(b) /\ Tail(b)[k - 1] = b[k])
    <2> TAKE k \in DOMAIN b
    <2>1. CASE k # 1
      <3>1. k - 1 \in DOMAIN Tail(b) /\ (k - 1) + 1 = k
        BY <1>3, <2>1
      <3>2. Tail(b)[k - 1] = b[(k - 1) + 1]
        BY <3>1, <1>4
      <3> QED
        BY <3>1, <3>2
    <2> QED
      BY <2>1
  <1>7. /\ Rises(Tail(b))
        /\ \A k \in DOMAIN Tail(b) : Tail(b)[k] \in DOMAIN uins /\ b[1] < Tail(b)[k]
    <2>1. ASSUME NEW i \in DOMAIN Tail(b), NEW j \in DOMAIN Tail(b), i < j
          PROVE  Tail(b)[i] < Tail(b)[j]
      <3>1. i + 1 \in DOMAIN b /\ j + 1 \in DOMAIN b /\ i + 1 < j + 1
        BY <2>1, <1>3, <1>4
      <3>2. b[i + 1] < b[j + 1]
        BY <3>1, <1>2 DEF Rises
      <3> QED
        BY <3>2, <1>4
    <2>2. ASSUME NEW k \in DOMAIN Tail(b) PROVE Tail(b)[k] \in DOMAIN uins /\ b[1] < Tail(b)[k]
      <3>1. k + 1 \in DOMAIN b /\ 1 < k + 1
        BY <1>3, <1>4
      <3>2. b[1] < b[k + 1]
        BY <3>1, <1>5, <1>2 DEF Rises
      <3> QED
        BY <3>1, <3>2, <1>2, <1>4
    <2> QED
      BY <2>1, <2>2 DEF Rises
  <1>8. /\ running'[h] = b[1] /\ bucket'[h] = Tail(b)
        /\ \A g \in Handler : g # h => running'[g] = running[g] /\ bucket'[g] = bucket[g]
    BY <1>0, <1>1, <1>3 DEF DispatchTypeOK
  <1>9. DispatchTypeOK'
    BY <1>0, <1>1, <1>3, <1>5 DEF DispatchTypeOK
  <1>10. b[1] # 0 /\ 0 \notin DOMAIN uins
    <2>1. DOMAIN uins = 1..Len(uins) /\ Len(uins) \in Nat
      BY <1>0, BatchDomain
    <2> QED
      BY <2>1, <1>5
  <1>11. ASSUME NEW g \in Handler PROVE Holds(g)' = Holds(g)
    <2>1. CASE g # h
      BY <2>1, <1>1, <1>8 DEF Holds
    <2>2. CASE g = h
      <3>1. Holds(h) = {i \in DOMAIN uins : \E k \in DOMAIN b : b[k] = i}
        BY <1>1, <1>10 DEF Holds, b
      <3>2. Holds(h)' = {i \in DOMAIN uins : i = b[1] \/ \E k \in DOMAIN Tail(b) : Tail(b)[k] = i}
        BY <1>1, <1>8 DEF Holds
      <3>3. ASSUME NEW i \in DOMAIN uins
            PROVE  (\E k \in DOMAIN b : b[k] = i)
                     <=> (i = b[1] \/ \E k \in DOMAIN Tail(b) : Tail(b)[k] = i)
        <4>1. ASSUME NEW k \in DOMAIN b, b[k] = i
              PROVE  i = b[1] \/ \E m \in DOMAIN Tail(b) : Tail(b)[m] = i
          BY <4>1, <1>6
        <4>2. ASSUME NEW k \in DOMAIN Tail(b), Tail(b)[k] = i
              PROVE  \E m \in DOMAIN b : b[m] = i
          BY <4>2, <1>4
        <4> QED
          BY <4>1, <4>2, <1>5
      <3> QED
        BY <2>2, <3>1, <3>2, <3>3
    <2> QED
      BY <2>1, <2>2
  <1>12. BucketsAreOrdered'
    <2>1. ASSUME NEW g \in Handler
          PROVE  /\ \A k \in DOMAIN bucket'[g] : bucket'[g][k] \in DOMAIN uins
                 /\ running'[g] # 0 => running'[g] \in DOMAIN uins
                 /\ Rises(bucket'[g])
                 /\ running'[g] # 0 => \A k \in DOMAIN bucket'[g] : running'[g] < bucket'[g][k]
                 /\ \A i \in Holds(g) : handled[i] = 0
      <3>1. CASE g = h
        BY <3>1, <1>0, <1>5, <1>7, <1>8 DEF BucketsAreOrdered
      <3>2. CASE g # h
        BY <3>2, <1>0, <1>8 DEF BucketsAreOrdered
      <3> QED
        BY <3>1, <3>2
    <2>2. /\ \A g, k \in Handler : g # k => Holds(g) \cap Holds(k) = {}
          /\ ~RandomUin => \A g \in Handler : \A i \in Holds(g) : \A j \in 1..(i - 1) :
               uins[j] = uins[i] /\ uins[j] # 0 /\ handled[j] = 0 => j \in Holds(g)
      BY <1>0 DEF BucketsAreOrdered
    <2> QED
      BY <1>1, <1>11, <2>1, <2>2 DEF BucketsAreOrdered
  <1>13. CountersCount'
    BY <1>0, <1>1, <1>11 DEF CountersCount
  <1>14. stage = "handling"
    <2>1. bucket[h] # << >>
      BY <1>1 DEF b
    <2> QED
      BY <2>1 DEF DispatchInv
  <1> QED
    BY <1>1, <1>9, <1>12, <1>13, <1>14 DEF DispatchInv

\* An item that was handled leaves its coroutine and is counted.
LEMMA HandleTaskFinishKeeps ==
  ASSUME DispatchInv, NEW h \in Handler, HandleTaskFinish(h)
  PROVE  DispatchInv'
  <1>0. DispatchTypeOK /\ BucketsAreOrdered /\ CountersCount
    BY DEF DispatchInv
  <1> DEFINE r == running[h]
  <1>1. /\ r # 0
        /\ handled' = [handled EXCEPT ![r] = handled[r] + 1]
        /\ finished' = finished + 1
        /\ running' = [running EXCEPT ![h] = 0]
        /\ UNCHANGED <<stage, uins, bucket, busy, batchFinished>>
    BY DEF HandleTaskFinish
  <1>2. stage = "handling"
    BY <1>1 DEF DispatchInv
  <1>3. r \in DOMAIN uins /\ r \in Holds(h) /\ handled[r] = 0
    BY <1>0, <1>1 DEF BucketsAreOrdered, Holds
  <1>4. Len(uins) \in Nat /\ DOMAIN uins = 1..Len(uins) /\ Len(uins) <= MaxBatch
    BY <1>0, BatchDomain, DispatchAssumption
  <1>5. /\ handled'[r] = 1 /\ \A i \in DOMAIN uins : i # r => handled'[i] = handled[i]
        /\ handled' \in [DOMAIN uins -> 0..1]
    BY <1>0, <1>1, <1>3 DEF DispatchTypeOK
  <1>6. /\ running'[h] = 0
        /\ \A g \in Handler : g # h => running'[g] = running[g]
        /\ running' \in [Handler -> 0..MaxBatch]
    BY <1>0, <1>1, DispatchAssumption DEF DispatchTypeOK
  \* The counter.
  <1> DEFINE D == {i \in DOMAIN uins : handled[i] = 1}
  <1>7. D' = D \cup {r} /\ r \notin D
    BY <1>1, <1>3, <1>5
  <1>8. IsFiniteSet(D) /\ finished = Cardinality(D)
    BY <1>0, <1>2, BatchDomain DEF CountersCount
  <1>9. Cardinality(D') = Cardinality(D) + 1
    <2> HIDE DEF D, r
    <2> QED
      BY <1>7, <1>8, FS_AddElement
  <1>10. Cardinality(D') \in 0..Len(uins)
    <2>1. D \cup {r} \in SUBSET DOMAIN uins
      BY <1>3
    <2> QED
      BY <1>0, <1>7, <2>1, BatchDomain
  <1>11. finished' = Cardinality(D') /\ finished' \in 0..MaxBatch
    BY <1>1, <1>4, <1>8, <1>9, <1>10, DispatchAssumption
  <1>12. DispatchTypeOK'
    BY <1>0, <1>1, <1>5, <1>6, <1>11 DEF DispatchTypeOK
  \* What the coroutines hold.
  <1>13. \A k \in DOMAIN bucket[h] : bucket[h][k] # r
    <2>1. \A k \in DOMAIN bucket[h] : r < bucket[h][k]
      BY <1>0, <1>1 DEF BucketsAreOrdered
    <2> QED
      BY <2>1, <1>3, <1>4
  <1>14. 0 \notin DOMAIN uins
    BY <1>4
  <1>15. Holds(h)' = Holds(h) \ {r}
    BY <1>1, <1>6, <1>13, <1>14 DEF Holds
  <1>16. ASSUME NEW g \in Handler, g # h PROVE Holds(g)' = Holds(g) /\ r \notin Holds(g)
    <2>1. Holds(g)' = Holds(g)
      BY <1>1, <1>6, <1>16 DEF Holds
    <2>2. Holds(g) \cap Holds(h) = {}
      BY <1>0, <1>16 DEF BucketsAreOrdered
    <2> QED
      BY <2>1, <2>2, <1>3
  <1> HIDE DEF r, D
  <1>17. \A g \in Handler : Holds(g)' = Holds(g) \ {r} /\ Holds(g) \subseteq DOMAIN uins
    BY <1>15, <1>16 DEF Holds
  <1>18. BucketsAreOrdered'
    <2>1. ASSUME NEW g \in Handler
          PROVE  /\ \A k \in DOMAIN bucket[g] : bucket[g][k] \in DOMAIN uins
                 /\ running'[g] # 0 => running'[g] \in DOMAIN uins
                 /\ Rises(bucket[g])
                 /\ running'[g] # 0 => \A k \in DOMAIN bucket[g] : running'[g] < bucket[g][k]
                 /\ \A i \in Holds(g)' : handled'[i] = 0
      <3>1. \A i \in Holds(g) \ {r} : handled'[i] = 0
        BY <1>0, <1>5, <1>17 DEF BucketsAreOrdered
      <3>2. CASE g = h
        BY <3>1, <3>2, <1>0, <1>6, <1>17 DEF BucketsAreOrdered
      <3>3. CASE g # h
        BY <3>1, <3>3, <1>0, <1>6, <1>17 DEF BucketsAreOrdered
      <3> QED
        BY <3>2, <3>3
    <2>2. \A g, k \in Handler : g # k => Holds(g)' \cap Holds(k)' = {}
      BY <1>0, <1>17 DEF BucketsAreOrdered
    <2>3. ASSUME ~RandomUin, NEW g \in Handler, NEW i \in Holds(g)', NEW j \in 1..(i - 1),
                 uins[j] = uins[i], uins[j] # 0, handled'[j] = 0
          PROVE  j \in Holds(g)'
      <3>1. i \in Holds(g) /\ i \in DOMAIN uins /\ j \in DOMAIN uins
        BY <1>4, <1>17
      <3>2. j # r /\ handled[j] = 0
        BY <1>5, <2>3, <3>1
      <3>3. j \in Holds(g)
        BY <1>0, <2>3, <3>1, <3>2 DEF BucketsAreOrdered
      <3> QED
        BY <1>17, <3>2, <3>3
    <2> QED
      BY <1>1, <2>1, <2>2, <2>3 DEF BucketsAreOrdered
  <1>19. CountersCount'
    <2>1. ASSUME NEW i \in DOMAIN uins, handled'[i] = 0
          PROVE  \E g \in Handler : i \in Holds(g)'
      <3>1. i # r /\ handled[i] = 0
        BY <1>5, <2>1
      <3>2. PICK g \in Handler : i \in Holds(g)
        BY <1>0, <1>2, <3>1 DEF CountersCount
      <3> QED
        BY <1>17, <3>1, <3>2
    <2>2. finished' = Cardinality({i \in DOMAIN uins : handled[i] = 1})'
      BY <1>11 DEF D
    <2>3. batchFinished + Cardinality(busy) = NBatchHandler
      BY <1>0, <1>2 DEF CountersCount
    <2> QED
      BY <1>1, <2>1, <2>2, <2>3 DEF CountersCount
  <1> QED
    BY <1>1, <1>2, <1>12, <1>18, <1>19 DEF DispatchInv

LEMMA BatchHandleKeeps ==
  ASSUME DispatchInv, NEW b \in BatchHandler, BatchHandleTaskFinish(b)
  PROVE  DispatchInv'
  <1>0. DispatchTypeOK /\ BucketsAreOrdered /\ CountersCount
    BY DEF DispatchInv
  <1>1. /\ b \in busy /\ busy' = busy \ {b} /\ batchFinished' = batchFinished + 1
        /\ UNCHANGED <<stage, uins, bucket, running, finished, handled>>
    BY DEF BatchHandleTaskFinish
  <1>2. stage = "handling"
    BY <1>1 DEF DispatchInv
  <1>3. IsFiniteSet(busy) /\ Cardinality(busy) \in Nat
    <2>1. IsFiniteSet(BatchHandler)
      BY FS_Interval, DispatchAssumption DEF BatchHandler
    <2>2. busy \in SUBSET BatchHandler
      BY <1>0 DEF DispatchTypeOK
    <2>3. IsFiniteSet(busy)
      BY <2>1, <2>2, FS_Subset
    <2> QED
      BY <2>3, FS_CardinalityType
  <1>4. Cardinality(busy') = Cardinality(busy) - 1
    BY <1>1, <1>3, FS_RemoveElement
  <1>5. Cardinality(busy') \in Nat
    <2>1. IsFiniteSet(busy')
      BY <1>1, <1>3, FS_RemoveElement
    <2> QED
      BY <2>1, FS_CardinalityType
  <1>6. batchFinished + Cardinality(busy) = NBatchHandler /\ batchFinished \in 0..NBatchHandler
    BY <1>0, <1>2 DEF CountersCount, DispatchTypeOK
  <1>7. batchFinished' + Cardinality(busy') = NBatchHandler /\ batchFinished' \in 0..NBatchHandler
    BY <1>1, <1>3, <1>4, <1>5, <1>6, DispatchAssumption
  <1>8. \A h \in Handler : Holds(h)' = Holds(h)
    BY <1>1 DEF Holds
  <1>9. DispatchTypeOK'
    BY <1>0, <1>1, <1>7 DEF DispatchTypeOK
  <1>10. BucketsAreOrdered'
    BY <1>0, <1>1, <1>8 DEF BucketsAreOrdered
  <1>11. CountersCount'
    BY <1>0, <1>1, <1>7, <1>8 DEF CountersCount
  <1> QED
    BY <1>1, <1>2, <1>9, <1>10, <1>11 DEF DispatchInv

\* When the counters say so, every item was handled and nobody works any more.
LEMMA AllTasksFinished ==
  ASSUME DispatchInv, stage = "handling", IsAllTaskFinish
  PROVE  /\ \A i \in DOMAIN uins : handled[i] = 1
         /\ busy = {} /\ \A h \in Handler : running[h] = 0 /\ bucket[h] = << >>
  <1>0. DispatchTypeOK /\ BucketsAreOrdered /\ CountersCount
    BY DEF DispatchInv
  <1>1. finished = Len(uins) /\ batchFinished = NBatchHandler
    BY DEF IsAllTaskFinish
  <1> DEFINE D == {i \in DOMAIN uins : handled[i] = 1}
  <1>2. Cardinality(D) = Cardinality(DOMAIN uins) /\ IsFiniteSet(DOMAIN uins)
    BY <1>0, <1>1, BatchDomain DEF CountersCount
  <1>3. D \in SUBSET DOMAIN uins
    OBVIOUS
  <1>4. D = DOMAIN uins
    <2> HIDE DEF D
    <2> QED
      BY <1>2, <1>3, FS_Subset
  <1>5. \A i \in DOMAIN uins : handled[i] = 1
    BY <1>4
  <1>6. busy = {}
    <2>1. IsFiniteSet(BatchHandler) /\ busy \in SUBSET BatchHandler
      BY <1>0, FS_Interval, DispatchAssumption DEF BatchHandler, DispatchTypeOK
    <2>2. IsFiniteSet(busy)
      BY <2>1, FS_Subset
    <2>3. Cardinality(busy) \in Nat
      BY <2>2, FS_CardinalityType
    <2>4. batchFinished + Cardinality(busy) = NBatchHandler
      BY <1>0 DEF CountersCount
    <2>5. Cardinality(busy) = 0
      BY <1>1, <2>3, <2>4, DispatchAssumption
    <2> QED
      BY <2>2, <2>5, FS_EmptySet
  <1>7. ASSUME NEW h \in Handler PROVE running[h] = 0 /\ bucket[h] = << >>
    <2>1. Holds(h) = {}
      BY <1>0, <1>5 DEF BucketsAreOrdered, Holds
    <2>2. running[h] = 0
      BY <1>0, <2>1 DEF BucketsAreOrdered, Holds
    <2>3. \A k \in DOMAIN bucket[h] : FALSE
      BY <1>0, <2>1 DEF BucketsAreOrdered, Holds
    <2>4. bucket[h] \in Seq(1..MaxBatch)
      BY <1>0 DEF DispatchTypeOK
    <2>5. bucket[h] # << >> => 1 \in DOMAIN bucket[h]
      BY <2>4
    <2> QED
      BY <2>2, <2>3, <2>5
  <1> QED
    BY <1>5, <1>6, <1>7

\* Consume answers and returns.
LEMMA FinishKeeps ==
  ASSUME DispatchInv, TaskDispatchFinish \/ ConsumeReturn
  PROVE  DispatchInv'
  <1>0. DispatchTypeOK /\ BucketsAreOrdered
    BY DEF DispatchInv
  <1>1. /\ UNCHANGED <<uins, bucket, running, busy, finished, batchFinished, handled>>
        /\ stage' \in {"answered", "idle"}
    BY DEF TaskDispatchFinish, ConsumeReturn
  <1>2. /\ \A i \in DOMAIN uins : handled[i] = 1
        /\ busy = {} /\ \A h \in Handler : running[h] = 0 /\ bucket[h] = << >>
    <2>1. CASE TaskDispatchFinish
      BY <2>1, AllTasksFinished DEF TaskDispatchFinish
    <2>2. CASE ConsumeReturn
      BY <2>2 DEF ConsumeReturn, DispatchInv
    <2> QED
      BY <2>1, <2>2
  <1>3. DispatchTypeOK'
    BY <1>0, <1>1 DEF DispatchTypeOK
  <1>4. BucketsAreOrdered'
    <2>1. \A h \in Handler : Holds(h)' = Holds(h)
      BY <1>1 DEF Holds
    <2> QED
      BY <1>0, <1>1, <2>1 DEF BucketsAreOrdered
  <1>5. CountersCount'
    BY <1>1 DEF CountersCount
  <1> QED
    BY <1>1, <1>2, <1>3, <1>4, <1>5 DEF DispatchInv

LEMMA DispatchStepInv == DispatchInv /\ [DispatchNext]_dispatchVars => DispatchInv'
  <1> SUFFICES ASSUME DispatchInv, [DispatchNext]_dispatchVars PROVE DispatchInv'
    OBVIOUS
  <1>1. CASE \E n \in 1..MaxBatch : \E b \in [1..n -> Uins] : Consume(b)
    BY <1>1, ConsumeKeeps
  <1>2. CASE \E h \in Handler : RoutineStep(h)
    BY <1>2, HandleRoutineKeeps, HandleTaskFinishKeeps DEF RoutineStep
  <1>3. CASE \E b \in BatchHandler : BatchHandleTaskFinish(b)
    BY <1>3, BatchHandleKeeps
  <1>4. CASE DispatchStep
    BY <1>4, TaskDispatchKeeps, FinishKeeps DEF DispatchStep
  <1>5. CASE UNCHANGED dispatchVars
    BY <1>5 DEF dispatchVars, DispatchInv, DispatchTypeOK, BucketsAreOrdered, CountersCount, Holds
  <1> QED
    BY <1>1, <1>2, <1>3, <1>4, <1>5 DEF DispatchNext

\* While a batch is handled, every item that was not handled yet is with one
\* coroutine, behind all earlier ones of its uin, and the counters that
\* TaskDispatch waits for count what was done.
THEOREM BucketsHoldBatch == DispatchSpec => []DispatchInv
  BY DispatchInitInv, DispatchStepInv, PTL DEF DispatchSpec

\* For any number of handlers and any batch: items of a uin are handled in the
\* order of the queue, and Consume returns when all were handled once and no
\* coroutine works on the batch any more.
THEOREM BatchHandledInOrder == DispatchSpec => []HandledInOrder
  <1>1. ASSUME DispatchInv PROVE HandledInOrder
    <2>1. DispatchTypeOK /\ BucketsAreOrdered
      BY <1>1 DEF DispatchInv
    <2>2. Len(uins) \in Nat /\ DOMAIN uins = 1..Len(uins)
      BY <2>1, BatchDomain
    <2>3. ASSUME ~RandomUin, NEW h \in Handler, running[h] # 0, NEW j \in 1..(running[h] - 1),
                 uins[j] = uins[running[h]], uins[j] # 0, handled[j] # 1
          PROVE  FALSE
      <3>1. running[h] \in DOMAIN uins /\ running[h] \in Holds(h)
        BY <2>1, <2>3 DEF BucketsAreOrdered, Holds
      <3>2. j \in DOMAIN uins /\ j < running[h] /\ j \in Nat /\ running[h] \in Nat
        BY <2>2, <3>1
      <3>3. handled[j] = 0
        <4>1. handled[j] \in 0..1
          BY <2>1, <3>2 DEF DispatchTypeOK
        <4> QED
          BY <4>1, <2>3
      <3>4. j \in Holds(h)
        BY <2>1, <2>3, <3>1, <3>3 DEF BucketsAreOrdered
      <3>5. PICK k \in DOMAIN bucket[h] : bucket[h][k] = j
        BY <3>2, <3>4 DEF Holds
      <3>6. running[h] < j
        BY <2>1, <2>3, <3>5 DEF BucketsAreOrdered
      <3> QED
        BY <3>2, <3>6
    <2> QED
      BY <1>1, <2>3 DEF HandledInOrder, DispatchInv
  <1> QED
    BY <1>1, BucketsHoldBatch, PTL

-----------------------------------------------------------------------------
\* What is in a sequence with one element more.
LEMMA AppendContains ==
  ASSUME NEW S, NEW s \in Seq(S), NEW x \in S
  PROVE  /\ Append(s, x) \in Seq(S) /\ Append(s, x) # << >>
         /\ \A y : Contains(Append(s, x), y) <=> y = x \/ Contains(s, y)
         /\ IsInjective(s) /\ ~Contains(s, x) => IsInjective(Append(s, x))
  <1> DEFINE a == Append(s, x)
  <1>1. /\ a \in Seq(S) /\ Len(a) = Len(s) + 1 /\ Len(s) \in Nat /\ a # << >>
        /\ DOMAIN a = 1..(Len(s) + 1) /\ DOMAIN s = 1..Len(s)
    OBVIOUS
  <1>2. a[Len(s) + 1] = x /\ \A i \in 1..Len(s) : a[i] = s[i]
    OBVIOUS
  <1> HIDE DEF a
  <1>3. ASSUME NEW y PROVE Contains(a, y) <=> y = x \/ Contains(s, y)
    <2>1. ASSUME Contains(a, y) PROVE y = x \/ Contains(s, y)
      <3>1. PICK i \in 1..(Len(s) + 1) : a[i] = y
        BY <1>1, <2>1 DEF Contains
      <3>2. CASE i = Len(s) + 1
        BY <3>1, <3>2, <1>2
      <3>3. CASE i # Len(s) + 1
        <4>1. i \in 1..Len(s)
          BY <1>1, <3>3
        <4> QED
          BY <4>1, <3>1, <1>2 DEF Contains
      <3> QED
        BY <3>2, <3>3
    <2>2. ASSUME y = x PROVE Contains(a, y)
      <3>1. Len(s) + 1 \in 1..Len(a)
        BY <1>1
      <3> QED
        BY <2>2, <3>1, <1>2 DEF Contains
    <2>3. ASSUME Contains(s, y) PROVE Contains(a, y)
      <3>1. PICK i \in 1..Len(s) : s[i] = y
        BY <2>3 DEF Contains
      <3>2. i \in 1..Len(a) /\ a[i] = y
        BY <3>1, <1>1, <1>2
      <3> QED
        BY <3>2 DEF Contains
    <2> QED
      BY <2>1, <2>2, <2>3
  <1>4. ASSUME IsInjective(s), ~Contains(s, x) PROVE IsInjective(a)
    <2> SUFFICES ASSUME NEW i \in 1..(Len(s) + 1), NEW j \in 1..(Len(s) + 1), a[i] = a[j]
                 PROVE  i = j
      BY <1>1 DEF IsInjective
    <2>1. \A k \in 1..Len(s) : s[k] # x
      BY <1>4 DEF Contains
    <2>2. CASE i = Len(s) + 1 /\ j # Len(s) + 1
      <3>1. j \in 1..Len(s)
        BY <1>1, <2>2
      <3> QED
        BY <3>1, <2>1, <2>2, <1>2
    <2>3. CASE i # Len(s) + 1 /\ j = Len(s) + 1
      <3>1. i \in 1..Len(s)
        BY <1>1, <2>3
      <3> QED
        BY <3>1, <2>1, <2>3, <1>2
    <2>4. CASE i # Len(s) + 1 /\ j # Len(s) + 1
      <3>1. i \in 1..Len(s) /\ j \in 1..Len(s)
        BY <1>1, <2>4
      <3> QED
        BY <3>1, <1>1, <1>2, <1>4 DEF IsInjective
    <2> QED
      BY <2>2, <2>3, <2>4
  <1> QED
    BY <1>1, <1>3, <1>4 DEF a

\* What is in a sequence: its head and what is in the rest.
LEMMA TailContains ==
  ASSUME NEW S, NEW s \in Seq(S), s # << >>
  PROVE  /\ Head(s) \in S /\ Tail(s) \in Seq(S)
         /\ \A y : Contains(s, y) <=> y = Head(s) \/ Contains(Tail(s), y)
         /\ IsInjective(s) => IsInjective(Tail(s)) /\ ~Contains(Tail(s), Head(s))
  <1> DEFINE r == Tail(s)
  <1>1. /\ r \in Seq(S) /\ Len(r) = Len(s) - 1 /\ Len(s) \in Nat /\ Len(s) > 0
        /\ DOMAIN r = 1..(Len(s) - 1) /\ DOMAIN s = 1..Len(s)
    OBVIOUS
  <1>2. Head(s) = s[1] /\ \A i \in 1..Len(r) : r[i] = s[i + 1] /\ i + 1 \in 1..Len(s)
    BY <1>1
  <1>3. 1 \in 1..Len(s) /\ Head(s) \in S
    BY <1>1
  <1> HIDE DEF r
  <1>4. ASSUME NEW y PROVE Contains(s, y) <=> y = Head(s) \/ Contains(r, y)
    <2>1. ASSUME Contains(s, y) PROVE y = Head(s) \/ Contains(r, y)
      <3>1. PICK i \in 1..Len(s) : s[i] = y
        BY <2>1 DEF Contains
      <3>2. CASE i = 1
        BY <3>1, <3>2, <1>2
      <3>3. CASE i # 1
        <4>1. i - 1 \in 1..Len(r) /\ (i - 1) + 1 = i
          BY <1>1, <3>3
        <4>2. r[i - 1] = s[(i - 1) + 1]
          BY <4>1, <1>2
        <4> QED
          BY <4>1, <4>2, <3>1 DEF Contains
      <3> QED
        BY <3>2, <3>3
    <2>2. ASSUME y = Head(s) PROVE Contains(s, y)
      BY <2>2, <1>2, <1>3 DEF Contains
    <2>3. ASSUME Contains(r, y) PROVE Contains(s, y)
      BY <2>3, <1>2 DEF Contains
    <2> QED
      BY <2>1, <2>2, <2>3
  <1>5. ASSUME IsInjective(s) PROVE IsInjective(r) /\ ~Contains(r, Head(s))
    <2>1. ASSUME NEW i \in 1..Len(r), NEW j \in 1..Len(r), r[i] = r[j] PROVE i = j
      <3>1. i + 1 = j + 1
        BY <2>1, <1>1, <1>2, <1>5 DEF IsInjective
      <3> QED
        BY <3>1
    <2>2. ASSUME NEW i \in 1..Len(r), r[i] = Head(s) PROVE FALSE
      <3>1. i + 1 = 1
        BY <2>2, <1>1, <1>2, <1>3, <1>5 DEF IsInjective
      <3> QED
        BY <3>1
    <2> QED
      BY <2>1, <2>2, <1>1 DEF IsInjective, Contains
  <1> QED
    BY <1>1, <1>3, <1>4, <1>5 DEF r

\* An empty sequence, and a sequence that is not.
LEMMA EmptyContains ==
  /\ IsInjective(<< >>) /\ \A y : ~Contains(<< >>, y)
  /\ \A S : << >> \in Seq(S)
  /\ \A S : \A s \in Seq(S) : \A y : y \in Range(s) <=> Contains(s, y)
  BY DEF IsInjective, Contains, Range

LEMMA BatchInitInv == BatchInit => BatchInv
  <1> SUFFICES ASSUME BatchInit PROVE BatchInv
    OBVIOUS
  <1> USE BatchAssumption DEF BatchInit
  <1>1. /\ pool \in Seq(Notifier) /\ DOMAIN pool = Notifier /\ Len(pool) = NNotifier
        /\ \A n \in Notifier : pool[n] = n
    <2>1. pool \in [1..NNotifier -> Notifier]
      BY DEF Notifier
    <2>2. pool \in Seq(Notifier)
      BY <2>1, SeqDef
    <2> QED
      BY <2>1, <2>2 DEF Notifier
  <1>2. BatchTypeOK
    <2>1. NoJob \in [tasks : Seq(Thread), code : Code \cup {"none"}]
      BY EmptyContains DEF NoJob
    <2>2. 0 \in 0..BatchDelay /\ 0 \in 0..1
      OBVIOUS
    <2>3. << >> \in Seq(Thread) /\ << >> \in Seq(Code)
      OBVIOUS
    <2> QED
      BY <1>1, <2>1, <2>2, <2>3 DEF BatchTypeOK
  <1>3. \A t \in Thread : (\A k \in Key : ~InBatch(t, k)) /\ (\A s \in Sender : ~InJob(t, s))
    BY EmptyContains DEF InBatch, InJob, NoJob
  <1>4. TasksAreOnce
    BY <1>3, EmptyContains DEF TasksAreOnce, NoJob
  <1>5. PipesAreOwn
    <2>1. \A n \in Notifier : Contains(pool, n)
      BY <1>1 DEF Contains, Notifier
    <2>2. IsInjective(pool)
      BY <1>1 DEF IsInjective
    <2> QED
      BY <2>1, <2>2 DEF PipesAreOwn
  <1>6. ThreadsAreKnown
    BY <1>3 DEF ThreadsAreKnown, Known, Sender, NoJob
  <1> QED
    BY <1>2, <1>4, <1>5, <1>6 DEF BatchInv

LEMMA NoNotifierIsNone == NoNotifier \notin Notifier
  BY DEF NoNotifier, Notifier

\* There are pipes enough: the callers that wait have one each.
LEMMA PoolIsNotEmpty ==
  ASSUME BatchInv, NEW t \in Thread, t \notin calling
  PROVE  pool # << >>
  <1> SUFFICES ASSUME pool = << >> PROVE FALSE
    OBVIOUS
  <1> DEFINE U == {u \in Thread : notifier[u] # NoNotifier}
             f == [u \in U |-> notifier[u]]
  <1>0. BatchTypeOK /\ PipesAreOwn /\ ThreadsAreKnown
    BY DEF BatchInv
  <1>1. U \in SUBSET Thread /\ t \notin U
    BY <1>0 DEF ThreadsAreKnown, Known
  <1>2. IsFiniteSet(U) /\ IsFiniteSet(Thread)
    BY <1>1, BatchAssumption, FS_Subset
  <1>3. Cardinality(U) <= Cardinality(Thread) /\ Cardinality(U) # Cardinality(Thread)
    BY <1>1, BatchAssumption, FS_Subset
  <1>4. f \in Surjection(U, Notifier)
    <2>1. f \in [U -> Notifier]
      BY <1>0 DEF BatchTypeOK
    <2>2. \A n \in Notifier : \E u \in U : f[u] = n
      BY <1>0, EmptyContains, NoNotifierIsNone DEF PipesAreOwn
    <2> QED
      BY <2>1, <2>2 DEF Surjection
  <1>5. Cardinality(Notifier) <= Cardinality(U)
    BY <1>2, <1>4, FS_Surjection
  <1>6. Cardinality(Notifier) = NNotifier
    <2>1. Cardinality(1..NNotifier) = IF 1 > NNotifier THEN 0 ELSE NNotifier - 1 + 1
      BY BatchAssumption, FS_Interval
    <2> QED
      BY <2>1, BatchAssumption DEF Notifier
  <1>7. Cardinality(U) \in Nat /\ Cardinality(Thread) \in Nat
    BY <1>2, FS_CardinalityType
  <1> QED
    BY <1>3, <1>5, <1>6, <1>7, BatchAssumption

\* The caller that fills the batch takes it.
LEMMA FillKeeps ==
  ASSUME BatchInv, NEW t \in Thread, NEW k \in Key, t \notin calling,
         calling' = calling \cup {t},
         sending' = [sending EXCEPT ![t].tasks = Append(batch[k], t)],
         batch' = Taken([batch EXCEPT ![k] = Append(batch[k], t)], {k}),
         age' = [age EXCEPT ![k] = 0],
         UNCHANGED <<notifier, pool, wake, pipe, adds, outcome>>
  PROVE  BatchInv'
  <1>0. BatchTypeOK /\ PipesAreOwn /\ ThreadsAreKnown /\ TasksAreOnce
    BY DEF BatchInv
  <1> DEFINE b == batch[k]
             a == Append(b, t)
  <1>1. b \in Seq(Thread) /\ IsInjective(b)
    BY <1>0 DEF BatchTypeOK, TasksAreOnce
  <1>2. t \in Sender /\ sending[t] = NoJob /\ notifier[t] = NoNotifier /\ adds[t] = 0
        /\ \A s \in Sender : ~InJob(t, s)
        /\ \A j \in Key : ~InBatch(t, j)
    BY <1>0 DEF ThreadsAreKnown, Known, Sender
  <1>3. ~Contains(b, t)
    BY <1>2 DEF InBatch
  <1> HIDE DEF b
  <1>4. /\ a \in Seq(Thread) /\ a # << >> /\ IsInjective(a)
        /\ \A y : Contains(a, y) <=> y = t \/ Contains(b, y)
    BY <1>1, <1>3, AppendContains
  <1> HIDE DEF a
  <1> DEFINE job == [tasks |-> a, code |-> "none"]
  <1>5. /\ sending'[t].tasks = a /\ sending'[t].code = "none"
        /\ \A s \in Sender : s # t => sending'[s] = sending[s]
        /\ sending' \in [Sender -> [tasks : Seq(Thread), code : Code \cup {"none"}]]
    <2>1. sending' = [sending EXCEPT ![t].tasks = a]
      BY DEF a, b
    <2>2. [sending[t] EXCEPT !.tasks = a] = job
      BY <1>2 DEF NoJob
    <2>3. sending' = [sending EXCEPT ![t] = job]
      BY <2>1, <2>2
    <2>4. job \in [tasks : Seq(Thread), code : Code \cup {"none"}] /\ job.tasks = a /\ job.code = "none"
      BY <1>4
    <2>5. sending \in [Sender -> [tasks : Seq(Thread), code : Code \cup {"none"}]]
      BY <1>0 DEF BatchTypeOK
    <2> HIDE DEF job
    <2>6. sending'[t] = job /\ \A s \in Sender : s # t => sending'[s] = sending[s]
      BY <1>2, <2>3, <2>5
    <2>7. sending' \in [Sender -> [tasks : Seq(Thread), code : Code \cup {"none"}]]
      BY <2>3, <2>4, <2>5, Zenon
    <2> QED
      BY <2>4, <2>6, <2>7
  <1>6. /\ batch'[k] = << >> /\ \A j \in Key : j # k => batch'[j] = batch[j]
        /\ batch' \in [Key -> Seq(Thread)]
    BY <1>0 DEF Taken, BatchTypeOK
  <1>7. BatchTypeOK'
    <2>1. age' \in [Key -> 0..BatchDelay]
      BY <1>0, BatchAssumption DEF BatchTypeOK
    <2> QED
      BY <1>0, <1>5, <1>6, <2>1 DEF BatchTypeOK
  <1>8. ASSUME NEW u \in Thread
        PROVE  /\ \A j \in Key : InBatch(u, j)' <=> InBatch(u, j) /\ j # k
               /\ \A s \in Sender : s # t => (InJob(u, s)' <=> InJob(u, s))
               /\ InJob(u, t)' <=> u = t \/ InBatch(u, k)
    <2>1. \A j \in Key : InBatch(u, j)' <=> InBatch(u, j) /\ j # k
      BY <1>6, EmptyContains DEF InBatch
    <2>2. \A s \in Sender : s # t => (InJob(u, s)' <=> InJob(u, s))
      BY <1>5 DEF InJob
    <2>3. InJob(u, t)' <=> Contains(a, u)
      BY <1>5 DEF InJob
    <2> QED
      BY <2>1, <2>2, <2>3, <1>4 DEF InBatch, b
  <1>9. TasksAreOnce'
    <2>1. \A j \in Key : IsInjective(batch'[j])
      BY <1>0, <1>6, EmptyContains DEF TasksAreOnce
    <2>2. \A s \in Sender : IsInjective(sending'[s].tasks)
      BY <1>0, <1>4, <1>5 DEF TasksAreOnce
    <2>3. ASSUME NEW u \in Thread
          PROVE  /\ \A i, j \in Key : InBatch(u, i)' /\ InBatch(u, j)' => i = j
                 /\ \A r, s \in Sender : InJob(u, r)' /\ InJob(u, s)' => r = s
                 /\ \A j \in Key, s \in Sender : ~(InBatch(u, j)' /\ InJob(u, s)')
      BY <1>0, <1>2, <1>8 DEF TasksAreOnce
    <2> QED
      BY <2>1, <2>2, <2>3 DEF TasksAreOnce
  <1>10. PipesAreOwn'
    BY <1>0 DEF PipesAreOwn
  <1>11. ThreadsAreKnown'
    <2> SUFFICES ASSUME NEW u \in Thread PROVE Known(u)'
      BY DEF ThreadsAreKnown
    <2>0. u \in Sender /\ Known(u)
      BY <1>0 DEF Sender, ThreadsAreKnown
    <2>1. CASE u = t
      BY <2>1, <1>2, <1>5, <1>8 DEF Known
    <2>2. CASE u # t
      <3>1. sending'[u] = sending[u] /\ (InJob(u, u)' <=> InJob(u, u)) /\ (u \in calling' <=> u \in calling)
        BY <2>0, <2>2, <1>5, <1>8
      <3>2. ASSUME NEW s \in Sender, InJob(u, s)'
            PROVE  /\ u \in calling'
                   /\ IF notifier[u] = NoNotifier THEN s = u ELSE pipe[notifier[u]] = << >>
                   /\ IF sending'[s].code = "none" THEN adds[u] = 0
                      ELSE adds[u] = 1 /\ outcome[u] = sending'[s].code
        <4>1. CASE s = t
          BY <4>1, <3>2, <2>0, <2>2, <1>5, <1>8 DEF Known
        <4>2. CASE s # t
          BY <4>2, <3>2, <2>0, <1>5, <1>8 DEF Known
        <4> QED
          BY <4>1, <4>2
      <3>3. \A j \in Key : InBatch(u, j)' => InBatch(u, j)
        BY <1>8
      <3> QED
        BY <3>1, <3>2, <3>3, <2>0 DEF Known
    <2> QED
      BY <2>1, <2>2
  <1> QED
    BY <1>7, <1>9, <1>10, <1>11 DEF BatchInv

\* A caller joins the batch and waits, with the first pipe of the pool.
LEMMA JoinKeeps ==
  ASSUME BatchInv, NEW t \in Thread, NEW k \in Key, t \notin calling,
         calling' = calling \cup {t},
         batch' = [batch EXCEPT ![k] = Append(batch[k], t)],
         notifier' = [notifier EXCEPT ![t] = Head(pool)],
         pool' = Tail(pool),
         UNCHANGED <<sending, age, wake, pipe, adds, outcome>>
  PROVE  BatchInv'
  <1>0. BatchTypeOK /\ PipesAreOwn /\ ThreadsAreKnown /\ TasksAreOnce
    BY DEF BatchInv
  <1> DEFINE b == batch[k]
             a == Append(b, t)
             n == Head(pool)
  <1>1. b \in Seq(Thread) /\ IsInjective(b)
    BY <1>0 DEF BatchTypeOK, TasksAreOnce
  <1>2. t \in Sender /\ sending[t] = NoJob /\ notifier[t] = NoNotifier /\ adds[t] = 0
        /\ \A s \in Sender : ~InJob(t, s)
        /\ \A j \in Key : ~InBatch(t, j)
    BY <1>0 DEF ThreadsAreKnown, Known, Sender
  <1>3. ~Contains(b, t)
    BY <1>2 DEF InBatch
  <1> HIDE DEF b
  <1>4. /\ a \in Seq(Thread) /\ IsInjective(a)
        /\ \A y : Contains(a, y) <=> y = t \/ Contains(b, y)
    BY <1>1, <1>3, AppendContains
  <1> HIDE DEF a
  <1>5. /\ batch'[k] = a /\ \A j \in Key : j # k => batch'[j] = batch[j]
        /\ batch' \in [Key -> Seq(Thread)]
    <2>1. batch' = [batch EXCEPT ![k] = a] /\ batch \in [Key -> Seq(Thread)]
      BY <1>0 DEF BatchTypeOK, a, b
    <2> QED
      BY <1>4, <2>1
  <1>6. /\ n \in Notifier /\ pool' \in Seq(Notifier) /\ Contains(pool, n)
        /\ \A y : Contains(pool, y) <=> y = n \/ Contains(pool', y)
        /\ IsInjective(pool') /\ ~Contains(pool', n)
    <2>1. pool \in Seq(Notifier) /\ pool # << >> /\ IsInjective(pool)
      BY <1>0, PoolIsNotEmpty DEF BatchTypeOK, PipesAreOwn
    <2> QED
      BY <2>1, TailContains
  <1> HIDE DEF n
  <1>7. /\ notifier'[t] = n /\ \A u \in Thread : u # t => notifier'[u] = notifier[u]
        /\ notifier' \in [Thread -> Notifier \cup {NoNotifier}]
    <2>1. notifier' = [notifier EXCEPT ![t] = n]
          /\ notifier \in [Thread -> Notifier \cup {NoNotifier}]
      BY <1>0 DEF BatchTypeOK, n
    <2> QED
      BY <1>6, <2>1
  <1>8. BatchTypeOK'
    BY <1>0, <1>5, <1>6, <1>7 DEF BatchTypeOK
  <1>9. ASSUME NEW u \in Thread
        PROVE  /\ \A j \in Key : InBatch(u, j)' <=> InBatch(u, j) \/ (u = t /\ j = k)
               /\ \A s \in Sender : InJob(u, s)' <=> InJob(u, s)
    <2>1. InBatch(u, k)' <=> InBatch(u, k) \/ u = t
      BY <1>4, <1>5 DEF InBatch, b
    <2>2. \A j \in Key : j # k => (InBatch(u, j)' <=> InBatch(u, j))
      BY <1>5 DEF InBatch
    <2>3. \A s \in Sender : InJob(u, s)' <=> InJob(u, s)
      BY DEF InJob
    <2> QED
      BY <2>1, <2>2, <2>3
  <1>10. TasksAreOnce'
    <2>1. \A j \in Key : IsInjective(batch'[j])
      BY <1>0, <1>4, <1>5 DEF TasksAreOnce
    <2>2. \A s \in Sender : IsInjective(sending'[s].tasks)
      BY <1>0 DEF TasksAreOnce
    <2>3. ASSUME NEW u \in Thread
          PROVE  /\ \A i, j \in Key : InBatch(u, i)' /\ InBatch(u, j)' => i = j
                 /\ \A r, s \in Sender : InJob(u, r)' /\ InJob(u, s)' => r = s
                 /\ \A j \in Key, s \in Sender : ~(InBatch(u, j)' /\ InJob(u, s)')
      BY <1>0, <1>2, <1>9 DEF TasksAreOnce
    <2> QED
      BY <2>1, <2>2, <2>3 DEF TasksAreOnce
  <1>11. pipe[n] = << >> /\ n # NoNotifier /\ \A u \in Thread : notifier[u] # n
    BY <1>0, <1>6, NoNotifierIsNone DEF PipesAreOwn
  <1>12. PipesAreOwn'
    <2>1. ASSUME NEW m \in Notifier
          PROVE  /\ Contains(pool', m) => pipe[m] = << >>
                 /\ Contains(pool', m) \/ \E u \in Thread : notifier'[u] = m
      <3>1. Contains(pool', m) => pipe[m] = << >>
        BY <1>0, <1>6 DEF PipesAreOwn
      <3>2. CASE m = n
        BY <3>1, <3>2, <1>7
      <3>3. CASE m # n
        <4>1. Contains(pool, m) \/ \E u \in Thread : notifier[u] = m
          BY <1>0 DEF PipesAreOwn
        <4>2. ASSUME NEW u \in Thread, notifier[u] = m PROVE notifier'[u] = m
          BY <4>2, <1>2, <1>7, NoNotifierIsNone
        <4> QED
          BY <3>1, <3>3, <4>1, <4>2, <1>6
      <3> QED
        BY <3>2, <3>3
    <2>2. ASSUME NEW u \in Thread, notifier'[u] # NoNotifier
          PROVE  /\ ~Contains(pool', notifier'[u])
                 /\ \A v \in Thread : notifier'[v] = notifier'[u] => v = u
      <3>1. CASE u = t
        BY <3>1, <1>6, <1>7, <1>11
      <3>2. CASE u # t
        <4>1. notifier'[u] = notifier[u] /\ ~Contains(pool, notifier[u])
              /\ \A v \in Thread : notifier[v] = notifier[u] => v = u
          BY <3>2, <2>2, <1>0, <1>7 DEF PipesAreOwn
        <4> QED
          BY <3>2, <4>1, <1>6, <1>7, <1>11
      <3> QED
        BY <3>1, <3>2
    <2> QED
      BY <2>1, <2>2, <1>6 DEF PipesAreOwn
  <1>13. ThreadsAreKnown'
    <2> SUFFICES ASSUME NEW u \in Thread PROVE Known(u)'
      BY DEF ThreadsAreKnown
    <2>0. u \in Sender /\ Known(u)
      BY <1>0 DEF Sender, ThreadsAreKnown
    <2>1. CASE u = t
      BY <2>1, <1>2, <1>7, <1>9, <1>11 DEF Known, NoJob
    <2>2. CASE u # t
      BY <2>2, <2>0, <1>7, <1>9 DEF Known
    <2> QED
      BY <2>1, <2>2
  <1> QED
    BY <1>8, <1>10, <1>12, <1>13 DEF BatchInv

\* RawAdd returns: the requests of all tasks were sent.
LEMMA RawAddKeeps ==
  ASSUME BatchInv, NEW s \in Sender, NEW code \in Code, RawAdd(s, code)
  PROVE  BatchInv'
  <1>0. BatchTypeOK /\ PipesAreOwn /\ ThreadsAreKnown /\ TasksAreOnce
    BY DEF BatchInv
  <1>1. /\ sending[s].tasks # << >> /\ sending[s].code = "none"
        /\ sending' = [sending EXCEPT ![s].code = code]
        /\ UNCHANGED <<batch, age, wake, notifier, pipe, pool, calling>>
    BY DEF RawAdd
  <1>2. \A t \in Thread : t \in Range(sending[s].tasks) <=> InJob(t, s)
    <2>1. sending[s].tasks \in Seq(Thread)
      BY <1>0 DEF BatchTypeOK
    <2> QED
      BY <2>1, EmptyContains DEF InJob
  <1>3. \A t \in Thread : /\ adds'[t] = IF InJob(t, s) THEN adds[t] + 1 ELSE adds[t]
                         /\ outcome'[t] = IF InJob(t, s) THEN code ELSE outcome[t]
    BY <1>2 DEF RawAdd
  <1>4. /\ sending'[s].tasks = sending[s].tasks /\ sending'[s].code = code
        /\ \A r \in Sender : r # s => sending'[r] = sending[r]
        /\ sending' \in [Sender -> [tasks : Seq(Thread), code : Code \cup {"none"}]]
    BY <1>0, <1>1 DEF BatchTypeOK
  <1>5. \A t \in Thread : InJob(t, s) => adds[t] = 0
    BY <1>0, <1>1 DEF ThreadsAreKnown, Known
  <1>6. BatchTypeOK'
    <2>1. adds' \in [Thread -> 0..1]
      <3>1. ASSUME NEW t \in Thread PROVE adds'[t] \in 0..1
        <4>1. adds[t] \in 0..1
          BY <1>0 DEF BatchTypeOK
        <4> QED
          BY <4>1, <1>3, <1>5
      <3> QED
        BY <3>1 DEF RawAdd
    <2>2. outcome' \in [Thread -> Code \cup {"none"}]
      <3>1. \A t \in Thread : outcome'[t] \in Code \cup {"none"}
        BY <1>0, <1>3 DEF BatchTypeOK
      <3> QED
        BY <3>1 DEF RawAdd
    <2> QED
      BY <1>0, <1>1, <1>4, <2>1, <2>2 DEF BatchTypeOK
  <1>7. ASSUME NEW t \in Thread
        PROVE  /\ \A k \in Key : InBatch(t, k)' <=> InBatch(t, k)
               /\ \A r \in Sender : InJob(t, r)' <=> InJob(t, r)
    BY <1>1, <1>4 DEF InBatch, InJob
  <1>8. TasksAreOnce'
    <2>1. \A r \in Sender : IsInjective(sending'[r].tasks)
      BY <1>0, <1>4 DEF TasksAreOnce
    <2> QED
      BY <1>0, <1>1, <1>7, <2>1 DEF TasksAreOnce
  <1>9. PipesAreOwn'
    BY <1>0, <1>1 DEF PipesAreOwn
  <1>10. ThreadsAreKnown'
    <2> SUFFICES ASSUME NEW u \in Thread PROVE Known(u)'
      BY DEF ThreadsAreKnown
    <2>0. u \in Sender /\ Known(u) /\ code # "none"
      BY <1>0 DEF Sender, ThreadsAreKnown, Code
    <2>1. CASE InJob(u, s)
      <3>1. adds'[u] = 1 /\ outcome'[u] = code /\ adds[u] = 0 /\ u \in calling
        BY <2>0, <2>1, <1>3, <1>5 DEF Known
      <3>2. \A r \in Sender : InJob(u, r)' => r = s
        BY <1>0, <1>7, <2>1 DEF TasksAreOnce
      <3>3. \A k \in Key : ~InBatch(u, k)'
        BY <1>0, <1>7, <2>1 DEF TasksAreOnce
      <3>4. notifier[u] # NoNotifier => pipe[notifier[u]] = << >> /\ sending[u] = NoJob /\ s # u
        BY <2>0, <2>1, <1>1 DEF Known, NoJob
      <3>5. u # s => sending'[u] = sending[u] /\ notifier[u] # NoNotifier
        BY <2>0, <2>1, <1>4 DEF Known
      <3>6. u # s => sending[u].tasks = << >> /\ sending[u].code = "none"
        BY <3>4, <3>5 DEF NoJob
      <3> QED
        BY <3>1, <3>2, <3>3, <3>4, <3>5, <3>6, <2>0, <2>1, <1>1, <1>4 DEF Known
    <2>2. CASE ~InJob(u, s)
      <3>1. u # s
        BY <2>0, <2>2, <1>1 DEF Known
      <3>2. adds'[u] = adds[u] /\ outcome'[u] = outcome[u] /\ sending'[u] = sending[u]
        BY <3>1, <2>0, <2>2, <1>3, <1>4
      <3>3. \A r \in Sender : InJob(u, r)' => InJob(u, r) /\ sending'[r] = sending[r]
        BY <2>2, <1>4, <1>7
      <3> QED
        BY <3>2, <3>3, <2>0, <1>1, <1>7 DEF Known
    <2> QED
      BY <2>1, <2>2
  <1> QED
    BY <1>6, <1>8, <1>9, <1>10 DEF BatchInv

\* A task is notified: it leaves the sender, and its code is in its pipe.
LEMMA NotifyKeeps ==
  ASSUME BatchInv, NEW s \in Sender, Notify(s)
  PROVE  BatchInv'
  <1>0. BatchTypeOK /\ PipesAreOwn /\ ThreadsAreKnown /\ TasksAreOnce
    BY DEF BatchInv
  <1> DEFINE j == sending[s].tasks
             c == sending[s].code
  <1>1a. j # << >> /\ j \in Seq(Thread)
    BY <1>0 DEF Notify, BatchTypeOK
  <1>1b. PICK t \in Thread : t = Head(j)
    BY <1>1a
  <1>1. /\ c # "none" /\ j # << >>
        /\ pipe' = IF notifier[t] = NoNotifier THEN pipe
                   ELSE [pipe EXCEPT ![notifier[t]] = Append(pipe[notifier[t]], c)]
        /\ sending' = [sending EXCEPT ![s].tasks = Tail(j)]
        /\ UNCHANGED <<batch, age, wake, notifier, pool, calling, adds, outcome>>
    BY <1>1b DEF Notify
  <1>2. j \in Seq(Thread) /\ IsInjective(j) /\ c \in Code
    <2>1. sending[s] \in [tasks : Seq(Thread), code : Code \cup {"none"}]
      BY <1>0 DEF BatchTypeOK
    <2> QED
      BY <1>0, <1>1, <2>1 DEF TasksAreOnce
  <1>3. /\ t \in Thread /\ Tail(j) \in Seq(Thread)
        /\ \A y : Contains(j, y) <=> y = t \/ Contains(Tail(j), y)
        /\ IsInjective(Tail(j)) /\ ~Contains(Tail(j), t)
    <2> HIDE DEF j
    <2> QED
      BY <1>1, <1>1b, <1>2, TailContains
  <1>4. InJob(t, s) /\ Known(t)
    BY <1>0, <1>3 DEF InJob, ThreadsAreKnown
  <1>5. /\ t \in calling /\ adds[t] = 1 /\ outcome[t] = c
        /\ IF notifier[t] = NoNotifier THEN s = t ELSE pipe[notifier[t]] = << >>
    BY <1>1, <1>4 DEF Known
  <1>6. /\ sending'[s].tasks = Tail(j) /\ sending'[s].code = c
        /\ \A r \in Sender : r # s => sending'[r] = sending[r]
        /\ sending' \in [Sender -> [tasks : Seq(Thread), code : Code \cup {"none"}]]
    BY <1>0, <1>1, <1>3 DEF BatchTypeOK
  <1> HIDE DEF j, c
  <1>7. ASSUME NEW u \in Thread
        PROVE  /\ \A k \in Key : InBatch(u, k)' <=> InBatch(u, k)
               /\ \A r \in Sender : InJob(u, r)' <=> InJob(u, r) /\ (r # s \/ u # t)
    <2>1. \A k \in Key : InBatch(u, k)' <=> InBatch(u, k)
      BY <1>1 DEF InBatch
    <2>2. \A r \in Sender : r # s => (InJob(u, r)' <=> InJob(u, r))
      BY <1>6 DEF InJob
    <2>3. InJob(u, s)' <=> InJob(u, s) /\ u # t
      BY <1>3, <1>6 DEF InJob, j
    <2> QED
      BY <2>1, <2>2, <2>3
  <1>8. \A r \in Sender : ~InJob(t, r)'
    BY <1>0, <1>3, <1>4, <1>7 DEF TasksAreOnce
  <1>9. \A k \in Key : ~InBatch(t, k)
    BY <1>0, <1>3, <1>4 DEF TasksAreOnce
  <1>10. /\ pipe' \in [Notifier -> Seq(Code)]
         /\ notifier[t] # NoNotifier => pipe'[notifier[t]] = <<c>>
         /\ \A n \in Notifier : n # notifier[t] => pipe'[n] = pipe[n]
    <2>1. pipe \in [Notifier -> Seq(Code)] /\ notifier[t] \in Notifier \cup {NoNotifier}
      BY <1>0, <1>3 DEF BatchTypeOK
    <2>2. CASE notifier[t] = NoNotifier
      BY <2>1, <2>2, <1>1, NoNotifierIsNone
    <2>3. CASE notifier[t] # NoNotifier
      <3>1. pipe[notifier[t]] = << >> /\ notifier[t] \in Notifier
        BY <2>1, <2>3, <1>5
      <3>2. Append(<< >>, c) = <<c>> /\ <<c>> \in Seq(Code)
        BY <1>2
      <3>3. pipe' = [pipe EXCEPT ![notifier[t]] = <<c>>]
        BY <2>3, <3>1, <3>2, <1>1
      <3> QED
        BY <2>1, <3>1, <3>2, <3>3
    <2> QED
      BY <2>2, <2>3
  <1>11. BatchTypeOK'
    BY <1>0, <1>1, <1>6, <1>10 DEF BatchTypeOK
  <1>12. TasksAreOnce'
    <2>1. \A r \in Sender : IsInjective(sending'[r].tasks)
      BY <1>0, <1>3, <1>6 DEF TasksAreOnce
    <2> QED
      BY <1>0, <1>1, <1>7, <2>1 DEF TasksAreOnce
  <1>13. PipesAreOwn'
    <2>1. \A n \in Notifier : Contains(pool, n) => pipe'[n] = << >>
      BY <1>0, <1>3, <1>10, NoNotifierIsNone DEF PipesAreOwn
    <2> QED
      BY <1>0, <1>1, <2>1 DEF PipesAreOwn
  <1>14. ThreadsAreKnown'
    <2> SUFFICES ASSUME NEW u \in Thread PROVE Known(u)'
      BY DEF ThreadsAreKnown
    <2>0. u \in Sender /\ Known(u) /\ notifier[u] \in Notifier \cup {NoNotifier}
      BY <1>0 DEF Sender, ThreadsAreKnown, BatchTypeOK
    <2>1. u # s => sending'[u] = sending[u]
      BY <2>0, <1>6
    <2>2. CASE u = t
      <3>1. notifier[t] # NoNotifier => sending[t] = NoJob /\ s # t /\ sending'[t] = NoJob
        BY <2>0, <2>1, <2>2, <1>1, <1>4 DEF Known, NoJob, c
      <3>2. notifier[t] = NoNotifier => sending'[t].code = c
        BY <1>5, <1>6
      <3> QED
        BY <3>1, <3>2, <2>2, <1>1, <1>5, <1>7, <1>8, <1>9, <1>10, <1>2 DEF Known, NoJob
    <2>3. CASE u # t
      <3>1. notifier[u] # NoNotifier => pipe'[notifier[u]] = pipe[notifier[u]]
        BY <2>0, <2>3, <1>0, <1>3, <1>10 DEF PipesAreOwn
      <3>2. \A r \in Sender : sending'[r].code = sending[r].code
        BY <1>6 DEF c
      <3>3. u = s => sending[u].code # "none" /\ notifier[u] = NoNotifier /\ u \in calling
        BY <2>0, <1>1 DEF Known, NoJob, c
      <3>4. \A r \in Sender : InJob(u, r)' <=> InJob(u, r)
        BY <2>3, <1>7
      <3> QED
        BY <3>1, <3>2, <3>3, <3>4, <2>0, <2>1, <1>1, <1>7 DEF Known
    <2> QED
      BY <2>2, <2>3
  <1> QED
    BY <1>11, <1>12, <1>13, <1>14 DEF BatchInv

\* A thread that returns, or a routine that is idle again.
LEMMA ReturnFacts ==
  ASSUME NEW s, Return(s)
  PROVE  /\ calling' = calling \ {s}
         /\ \A u \in Thread : /\ adds'[u] = IF u = s THEN 0 ELSE adds[u]
                              /\ outcome'[u] = IF u = s THEN "none" ELSE outcome[u]
         /\ BatchTypeOK => /\ calling' \subseteq Thread
                           /\ adds' \in [Thread -> 0..1]
                           /\ outcome' \in [Thread -> Code \cup {"none"}]
  <1>1. /\ calling' = calling \ {s}
        /\ adds' = [u \in Thread |-> IF u = s THEN 0 ELSE adds[u]]
        /\ outcome' = [u \in Thread |-> IF u = s THEN "none" ELSE outcome[u]]
    BY DEF Return
  <1>2. ASSUME BatchTypeOK
        PROVE  calling' \subseteq Thread /\ adds' \in [Thread -> 0..1]
               /\ outcome' \in [Thread -> Code \cup {"none"}]
    <2>1. adds \in [Thread -> 0..1] /\ outcome \in [Thread -> Code \cup {"none"}] /\ calling \subseteq Thread
      BY <1>2 DEF BatchTypeOK
    <2> QED
      BY <1>1, <2>1
  <1> QED
    BY <1>1, <1>2

LEMMA FinishBatchKeeps ==
  ASSUME BatchInv, NEW s \in Sender, Finish(s)
  PROVE  BatchInv'
  <1>0. BatchTypeOK /\ PipesAreOwn /\ ThreadsAreKnown /\ TasksAreOnce
    BY DEF BatchInv
  <1>1. /\ sending[s].code # "none" /\ sending[s].tasks = << >>
        /\ sending' = [sending EXCEPT ![s] = NoJob]
        /\ UNCHANGED <<batch, age, wake, notifier, pipe, pool>>
        /\ Return(s)
    BY DEF Finish
  <1>2. /\ sending'[s] = NoJob /\ \A r \in Sender : r # s => sending'[r] = sending[r]
        /\ sending' \in [Sender -> [tasks : Seq(Thread), code : Code \cup {"none"}]]
    <2>1. NoJob \in [tasks : Seq(Thread), code : Code \cup {"none"}]
      BY EmptyContains DEF NoJob
    <2> QED
      BY <1>0, <1>1, <2>1 DEF BatchTypeOK
  <1>3. BatchTypeOK'
    BY <1>0, <1>1, <1>2, ReturnFacts DEF BatchTypeOK
  <1>4. ASSUME NEW u \in Thread
        PROVE  /\ \A k \in Key : InBatch(u, k)' <=> InBatch(u, k)
               /\ \A r \in Sender : InJob(u, r)' <=> InJob(u, r)
    <2>1. \A r \in Sender : sending'[r].tasks = sending[r].tasks
      BY <1>1, <1>2 DEF NoJob
    <2> QED
      BY <1>1, <2>1 DEF InBatch, InJob
  <1>5. TasksAreOnce'
    <2>1. \A r \in Sender : IsInjective(sending'[r].tasks)
      <3>1. IsInjective(NoJob.tasks)
        BY EmptyContains DEF NoJob
      <3> QED
        BY <3>1, <1>0, <1>2 DEF TasksAreOnce
    <2> QED
      BY <1>0, <1>1, <1>4, <2>1 DEF TasksAreOnce
  <1>6. PipesAreOwn'
    BY <1>0, <1>1 DEF PipesAreOwn
  <1>7. ThreadsAreKnown'
    <2> SUFFICES ASSUME NEW u \in Thread PROVE Known(u)'
      BY DEF ThreadsAreKnown
    <2>0. u \in Sender /\ Known(u)
      BY <1>0 DEF Sender, ThreadsAreKnown
    <2>1. CASE u = s
      <3>1. notifier[u] = NoNotifier
        BY <2>0, <2>1, <1>1 DEF Known, NoJob
      <3>2. \A k \in Key : ~InBatch(u, k)
        BY <2>0, <3>1 DEF Known
      <3>3. \A r \in Sender : ~InJob(u, r)
        <4>1. ~InJob(u, u)
          BY <2>1, <1>1, EmptyContains DEF InJob
        <4> QED
          BY <2>0, <3>1, <4>1 DEF Known
      <3>4. adds'[u] = 0
        BY <2>1, <1>1, ReturnFacts
      <3> QED
        BY <3>1, <3>2, <3>3, <3>4, <2>1, <1>1, <1>2, <1>4 DEF Known, NoJob
    <2>2. CASE u # s
      <3>1. /\ adds'[u] = adds[u] /\ outcome'[u] = outcome[u] /\ sending'[u] = sending[u]
            /\ u \in calling' <=> u \in calling
        BY <2>0, <2>2, <1>1, <1>2, ReturnFacts
      <3>2. \A r \in Sender : InJob(u, r)' => InJob(u, r) /\ sending'[r] = sending[r]
        <4>1. ~InJob(u, s)
          BY <1>1, EmptyContains DEF InJob
        <4> QED
          BY <4>1, <1>2, <1>4
      <3> QED
        BY <3>1, <3>2, <2>0, <1>1, <1>4 DEF Known
    <2> QED
      BY <2>1, <2>2
  <1> QED
    BY <1>3, <1>5, <1>6, <1>7 DEF BatchInv

\* The caller reads its code, and the pipe goes back to the pool empty.
LEMMA WaitKeeps ==
  ASSUME BatchInv, NEW t \in Thread, Wait(t)
  PROVE  BatchInv'
  <1>0. BatchTypeOK /\ PipesAreOwn /\ ThreadsAreKnown /\ TasksAreOnce /\ Known(t) /\ t \in Sender
    BY DEF BatchInv, ThreadsAreKnown, Sender
  <1> DEFINE n == notifier[t]
  <1>1. /\ n # NoNotifier /\ pipe[n] # << >>
        /\ pipe' = [pipe EXCEPT ![n] = Tail(pipe[n])]
        /\ pool' = Append(pool, n)
        /\ notifier' = [notifier EXCEPT ![t] = NoNotifier]
        /\ UNCHANGED <<batch, age, wake, sending>>
        /\ Return(t)
    BY DEF Wait, PipeAfterWait
  <1>2. n \in Notifier /\ pipe \in [Notifier -> Seq(Code)] /\ pool \in Seq(Notifier)
        /\ notifier \in [Thread -> Notifier \cup {NoNotifier}]
    BY <1>0, <1>1 DEF BatchTypeOK
  <1>3. pipe[n] = <<outcome[t]>> /\ sending[t] = NoJob
    BY <1>0, <1>1 DEF Known
  <1>4. ~Contains(pool, n) /\ IsInjective(pool) /\ \A u \in Thread : notifier[u] = n => u = t
    BY <1>0, <1>1 DEF PipesAreOwn
  <1> HIDE DEF n
  <1>5. /\ pool' \in Seq(Notifier) /\ IsInjective(pool')
        /\ \A y : Contains(pool', y) <=> y = n \/ Contains(pool, y)
    BY <1>1, <1>2, <1>4, AppendContains
  <1>6. pipe' = [pipe EXCEPT ![n] = << >>]
    <2>1. Tail(<<outcome[t]>>) = << >>
      OBVIOUS
    <2> QED
      BY <1>1, <1>3, <2>1
  <1>7. /\ pipe'[n] = << >> /\ pipe' \in [Notifier -> Seq(Code)]
        /\ \A m \in Notifier : m # n => pipe'[m] = pipe[m]
    BY <1>2, <1>6, EmptyContains
  <1>8. /\ notifier'[t] = NoNotifier /\ \A u \in Thread : u # t => notifier'[u] = notifier[u]
        /\ notifier' \in [Thread -> Notifier \cup {NoNotifier}]
    BY <1>1, <1>2
  <1>9. BatchTypeOK'
    BY <1>0, <1>1, <1>5, <1>7, <1>8, ReturnFacts DEF BatchTypeOK
  <1>10. ASSUME NEW u \in Thread
        PROVE  /\ \A k \in Key : InBatch(u, k)' <=> InBatch(u, k)
               /\ \A r \in Sender : InJob(u, r)' <=> InJob(u, r)
    BY <1>1 DEF InBatch, InJob
  <1>11. TasksAreOnce'
    BY <1>0, <1>1, <1>10 DEF TasksAreOnce
  <1>12. PipesAreOwn'
    <2>1. ASSUME NEW m \in Notifier
          PROVE  /\ Contains(pool', m) => pipe'[m] = << >>
                 /\ Contains(pool', m) \/ \E u \in Thread : notifier'[u] = m
      <3>1. CASE m = n
        BY <3>1, <1>5, <1>7
      <3>2. CASE m # n
        <4>1. Contains(pool, m) => pipe[m] = << >>
          BY <1>0 DEF PipesAreOwn
        <4>2. CASE Contains(pool, m)
          BY <4>1, <4>2, <3>2, <1>5, <1>7
        <4>3. CASE ~Contains(pool, m)
          <5>1. PICK u \in Thread : notifier[u] = m
            BY <4>3, <1>0 DEF PipesAreOwn
          <5>2. u # t
            BY <5>1, <3>2 DEF n
          <5> QED
            BY <5>1, <5>2, <4>3, <3>2, <1>5, <1>8
        <4> QED
          BY <4>2, <4>3
      <3> QED
        BY <3>1, <3>2
    <2>2. ASSUME NEW u \in Thread, notifier'[u] # NoNotifier
          PROVE  /\ ~Contains(pool', notifier'[u])
                 /\ \A v \in Thread : notifier'[v] = notifier'[u] => v = u
      <3>1. u # t /\ notifier'[u] = notifier[u] /\ notifier[u] # n
        BY <2>2, <1>4, <1>8
      <3>2. ~Contains(pool, notifier[u]) /\ \A v \in Thread : notifier[v] = notifier[u] => v = u
        BY <2>2, <3>1, <1>0 DEF PipesAreOwn
      <3> QED
        BY <3>1, <3>2, <2>2, <1>5, <1>8
    <2> QED
      BY <2>1, <2>2, <1>5 DEF PipesAreOwn
  <1>13. ThreadsAreKnown'
    <2> SUFFICES ASSUME NEW u \in Thread PROVE Known(u)'
      BY DEF ThreadsAreKnown
    <2>0. u \in Sender /\ Known(u) /\ notifier[u] \in Notifier \cup {NoNotifier}
      BY <1>0, <1>2 DEF Sender, ThreadsAreKnown
    <2>1. CASE u = t
      <3>1. \A k \in Key : ~InBatch(u, k)
        BY <2>0, <2>1, <1>1 DEF Known, n
      <3>2. \A r \in Sender : ~InJob(u, r)
        BY <2>0, <2>1, <1>1 DEF Known, n
      <3>3. adds'[u] = 0
        BY <2>1, <1>1, ReturnFacts
      <3> QED
        BY <3>1, <3>2, <3>3, <2>1, <1>1, <1>3, <1>8, <1>10 DEF Known, NoJob
    <2>2. CASE u # t
      <3>1. /\ adds'[u] = adds[u] /\ outcome'[u] = outcome[u] /\ notifier'[u] = notifier[u]
            /\ u \in calling' <=> u \in calling
        BY <2>2, <1>1, <1>8, ReturnFacts
      <3>2. notifier[u] # NoNotifier => pipe'[notifier[u]] = pipe[notifier[u]]
        BY <2>0, <2>2, <1>4, <1>7
      <3> QED
        BY <3>1, <3>2, <2>0, <1>1, <1>10 DEF Known
    <2> QED
      BY <2>1, <2>2
  <1> QED
    BY <1>9, <1>11, <1>12, <1>13 DEF BatchInv

\* The least of some numbers.
LEMMA MinIsLeast ==
  ASSUME NEW T \in SUBSET Nat, T # {}
  PROVE  Min(T) \in T /\ Min(T) \in Nat /\ \A n \in T : Min(T) <= n
  <1>1. \E m \in T : \A n \in T : m <= n
    BY LeastNat
  <1>2. Min(T) \in T /\ \A n \in T : Min(T) <= n
    BY <1>1 DEF Min
  <1> QED
    BY <1>2

\* The routines in G, which are idle, take the batches of different keys.
Moves(G, g) ==
    /\ IsInjective(g)
    /\ \A s \in Sender :
         IF s \in G THEN /\ sending[s] = NoJob
                        /\ sending'[s].tasks = batch[g[s]] /\ sending'[s].code = "none"
                   ELSE sending'[s] = sending[s]
    /\ \A k \in Key : batch'[k] = IF \E s \in G : g[s] = k THEN << >> ELSE batch[k]
    /\ sending' \in [Sender -> [tasks : Seq(Thread), code : Code \cup {"none"}]]
    /\ batch' \in [Key -> Seq(Thread)]

\* That is what DispatchBatchTask does.
LEMMA DispatchMoves ==
  ASSUME BatchInv, DispatchBatchTask
  PROVE  \E G \in SUBSET Routine : \E g \in [G -> Key] : Moves(G, g)
  <1>0. BatchTypeOK
    BY DEF BatchInv
  <1> DEFINE R == {k \in Key : Ready(batch[k], age[k])}
             I == {r \in Routine : sending[r] = NoJob}
             keys == InOrder(R)
             spare == InOrder(I)
             n == Min({Len(keys), Len(spare)})
             pos(s) == CHOOSE i \in 1..n : spare[i] = s
  <1>1. /\ sending' = [s \in Sender |->
                 IF \E i \in 1..n : spare[i] = s
                 THEN [NoJob EXCEPT !.tasks = batch[keys[pos(s)]]]
                 ELSE sending[s]]
        /\ batch' = Taken(batch, {keys[i] : i \in 1..n})
    BY DEF DispatchBatchTask
  <1>2. R \in SUBSET (1..NKey) /\ I \in SUBSET (1..NRoutine) /\ NKey \in Nat /\ NRoutine \in Nat
    BY BatchAssumption DEF Key, Routine
  <1>3. R \subseteq Key /\ I \subseteq Routine /\ \A r \in I : sending[r] = NoJob
    OBVIOUS
  <1> HIDE DEF R, I
  <1>4. /\ keys \in Seq(R) /\ Rises(keys) /\ spare \in Seq(I) /\ Rises(spare)
    BY <1>2, InOrderIsSeq, Zenon
  <1> HIDE DEF keys, spare
  <1>5. Len(keys) \in Nat /\ Len(spare) \in Nat /\ DOMAIN keys = 1..Len(keys) /\ DOMAIN spare = 1..Len(spare)
    BY <1>4
  <1>6. n \in Nat /\ n <= Len(keys) /\ n <= Len(spare)
    <2>1. {Len(keys), Len(spare)} \in SUBSET Nat /\ {Len(keys), Len(spare)} # {}
      BY <1>5
    <2> QED
      BY <2>1, MinIsLeast
  <1> HIDE DEF n
  <1>7. \A i \in 1..n : i \in DOMAIN keys /\ i \in DOMAIN spare /\ keys[i] \in R /\ spare[i] \in I
    <2>1. \A i \in 1..n : i \in 1..Len(keys) /\ i \in 1..Len(spare)
      BY <1>5, <1>6
    <2> QED
      BY <1>4, <1>5, <2>1, ElementOfSeq
  <1>8. \A i, j \in 1..n : (keys[i] = keys[j] => i = j) /\ (spare[i] = spare[j] => i = j)
    <2> SUFFICES ASSUME NEW i \in 1..n, NEW j \in 1..n, i < j
                 PROVE  keys[i] # keys[j] /\ spare[i] # spare[j]
      BY <1>6
    <2>1. keys[i] < keys[j] /\ spare[i] < spare[j]
      BY <1>4, <1>7 DEF Rises
    <2>2. keys[i] \in 1..NKey /\ spare[i] \in 1..NRoutine
      BY <1>2, <1>7
    <2> QED
      BY <2>1, <2>2
  <1> DEFINE G == {spare[i] : i \in 1..n}
             g == [s \in G |-> keys[pos(s)]]
  <1>9. \A s \in G : pos(s) \in 1..n /\ spare[pos(s)] = s
    OBVIOUS
  <1>10. \A i \in 1..n : spare[i] \in G /\ pos(spare[i]) = i
    BY <1>8, <1>9
  <1> HIDE DEF pos
  <1>11. G \in SUBSET Routine /\ \A s \in G : sending[s] = NoJob
    BY <1>3, <1>7
  <1>12. g \in [G -> Key]
    BY <1>3, <1>7, <1>9
  <1>13. IsInjective(g)
    <2> SUFFICES ASSUME NEW r \in G, NEW s \in G, g[r] = g[s] PROVE r = s
      BY DEF IsInjective
    <2>1. pos(r) = pos(s)
      BY <1>8, <1>9
    <2> QED
      BY <2>1, <1>9
  <1>14. {keys[i] : i \in 1..n} = {g[s] : s \in G}
    <2>1. \A i \in 1..n : keys[i] \in {g[s] : s \in G}
      BY <1>10
    <2>2. \A s \in G : g[s] \in {keys[i] : i \in 1..n}
      BY <1>9
    <2> QED
      BY <2>1, <2>2
  <1>15. \A s : (\E i \in 1..n : spare[i] = s) <=> s \in G
    OBVIOUS
  <1>16. \A s \in G : g[s] = keys[pos(s)]
    OBVIOUS
  <1> HIDE DEF G, g
  <1>17. G \subseteq Sender
    BY <1>11 DEF Sender
  <1>18. ASSUME NEW s \in Sender
         PROVE  /\ IF s \in G THEN /\ sending[s] = NoJob
                                  /\ sending'[s].tasks = batch[g[s]] /\ sending'[s].code = "none"
                             ELSE sending'[s] = sending[s]
                /\ sending'[s] \in [tasks : Seq(Thread), code : Code \cup {"none"}]
    <2>1. CASE s \in G
      <3>1. sending'[s] = [NoJob EXCEPT !.tasks = batch[g[s]]]
        BY <2>1, <1>1, <1>15, <1>16
      <3>2. batch[g[s]] \in Seq(Thread)
        BY <2>1, <1>0, <1>12 DEF BatchTypeOK
      <3>3. [NoJob EXCEPT !.tasks = batch[g[s]]] = [tasks |-> batch[g[s]], code |-> "none"]
        BY DEF NoJob
      <3> QED
        BY <2>1, <3>1, <3>2, <3>3, <1>11
    <2>2. CASE s \notin G
      <3>1. sending'[s] = sending[s]
        BY <2>2, <1>1, <1>15
      <3> QED
        BY <2>2, <3>1, <1>0 DEF BatchTypeOK
    <2> QED
      BY <2>1, <2>2
  <1>19. sending' \in [Sender -> [tasks : Seq(Thread), code : Code \cup {"none"}]]
    <2>1. sending' = [s \in Sender |-> sending'[s]]
      BY <1>1
    <2> QED
      BY <2>1, <1>18
  <1>20. /\ \A k \in Key : batch'[k] = IF \E s \in G : g[s] = k THEN << >> ELSE batch[k]
         /\ batch' \in [Key -> Seq(Thread)]
    <2>1. batch' = [k \in Key |-> IF k \in {g[s] : s \in G} THEN << >> ELSE batch[k]]
      BY <1>1, <1>14 DEF Taken
    <2>2. batch \in [Key -> Seq(Thread)]
      BY <1>0 DEF BatchTypeOK
    <2> QED
      BY <2>1, <2>2, EmptyContains
  <1>21. Moves(G, g)
    BY <1>13, <1>18, <1>19, <1>20 DEF Moves
  <1> QED
    BY <1>11, <1>12, <1>21

LEMMA DispatchBatchKeeps ==
  ASSUME BatchInv, DispatchBatchTask
  PROVE  BatchInv'
  <1>0. BatchTypeOK /\ PipesAreOwn /\ ThreadsAreKnown /\ TasksAreOnce
    BY DEF BatchInv
  <1>1. UNCHANGED <<notifier, pipe, pool, calling, adds, outcome>>
    BY DEF DispatchBatchTask
  <1>2. PICK G \in SUBSET Routine : \E g \in [G -> Key] : Moves(G, g)
    BY DispatchMoves
  <1>3. PICK g \in [G -> Key] : Moves(G, g)
    BY <1>2
  <1>4. /\ sending' \in [Sender -> [tasks : Seq(Thread), code : Code \cup {"none"}]]
        /\ batch' \in [Key -> Seq(Thread)]
    BY <1>3 DEF Moves
  \* The clocks.
  <1>5. age \in [Key -> 0..BatchDelay] /\ BatchDelay \in Nat
    BY <1>0, BatchAssumption DEF BatchTypeOK
  <1>6. age' \in [Key -> 0..BatchDelay]
    <2>1. age' = [k \in Key |-> IF batch'[k] = << >> THEN 0 ELSE age[k]]
      BY DEF DispatchBatchTask
    <2> QED
      BY <1>5, <2>1
  <1>7. wake' \in 0..BatchDelay
    <2> DEFINE due == {BatchDelay - age[k] : k \in {j \in Key : batch[j] # << >> /\ ~Ready(batch[j], age[j])}}
    <2>1. wake' = IF due = {} THEN 0 ELSE Min(due)
      BY DEF DispatchBatchTask
    <2>2. due \in SUBSET (0..BatchDelay)
      BY <1>5
    <2> HIDE DEF due
    <2>3. due \in SUBSET Nat
      BY <2>2
    <2>4. due # {} => Min(due) \in due
      BY <2>3, MinIsLeast
    <2> QED
      BY <1>5, <2>1, <2>2, <2>4
  <1>8. BatchTypeOK'
    BY <1>0, <1>1, <1>4, <1>6, <1>7 DEF BatchTypeOK
  <1>9. G \subseteq Sender /\ \A u \in Thread : u \in Sender /\ u \notin G
    BY BatchAssumption DEF Sender
  <1>10. ASSUME NEW u \in Thread
         PROVE  /\ \A k \in Key : InBatch(u, k)' <=> InBatch(u, k) /\ \A s \in G : g[s] # k
                /\ \A s \in Sender : InJob(u, s)' <=>
                      IF s \in G THEN InBatch(u, g[s]) ELSE InJob(u, s)
    <2>1. \A k \in Key : InBatch(u, k)' <=> InBatch(u, k) /\ \A s \in G : g[s] # k
      BY <1>3, EmptyContains DEF Moves, InBatch
    <2>2. \A s \in Sender : InJob(u, s)' <=> IF s \in G THEN InBatch(u, g[s]) ELSE InJob(u, s)
      BY <1>3 DEF Moves, InBatch, InJob
    <2> QED
      BY <2>1, <2>2
  <1>11. TasksAreOnce'
    <2>1. \A k \in Key : IsInjective(batch'[k])
      BY <1>0, <1>3, EmptyContains DEF TasksAreOnce, Moves
    <2>2. \A s \in Sender : IsInjective(sending'[s].tasks)
      BY <1>0, <1>3 DEF TasksAreOnce, Moves
    <2>3. ASSUME NEW u \in Thread
          PROVE  /\ \A j, k \in Key : InBatch(u, j)' /\ InBatch(u, k)' => j = k
                 /\ \A r, s \in Sender : InJob(u, r)' /\ InJob(u, s)' => r = s
                 /\ \A k \in Key, s \in Sender : ~(InBatch(u, k)' /\ InJob(u, s)')
      <3>1. /\ \A j, k \in Key : InBatch(u, j) /\ InBatch(u, k) => j = k
            /\ \A r, s \in Sender : InJob(u, r) /\ InJob(u, s) => r = s
            /\ \A k \in Key, s \in Sender : ~(InBatch(u, k) /\ InJob(u, s))
        BY <1>0 DEF TasksAreOnce
      <3>2. \A s \in G : g[s] \in Key
        OBVIOUS
      <3>3. \A r, s \in G : g[r] = g[s] => r = s
        BY <1>3 DEF Moves, IsInjective
      <3>4. \A j, k \in Key : InBatch(u, j)' /\ InBatch(u, k)' => j = k
        BY <3>1, <1>10
      <3>5. ASSUME NEW r \in Sender, NEW s \in Sender, InJob(u, r)', InJob(u, s)' PROVE r = s
        BY <3>1, <3>2, <3>3, <3>5, <1>10
      <3>6. ASSUME NEW k \in Key, NEW s \in Sender, InBatch(u, k)', InJob(u, s)' PROVE FALSE
        BY <3>1, <3>2, <3>6, <1>10
      <3> QED
        BY <3>4, <3>5, <3>6
    <2> QED
      BY <2>1, <2>2, <2>3 DEF TasksAreOnce
  <1>12. PipesAreOwn'
    BY <1>0, <1>1 DEF PipesAreOwn
  <1>13. ThreadsAreKnown'
    <2> SUFFICES ASSUME NEW u \in Thread PROVE Known(u)'
      BY DEF ThreadsAreKnown
    <2>0. u \in Sender /\ u \notin G /\ Known(u) /\ sending'[u] = sending[u]
      BY <1>0, <1>3, <1>9 DEF ThreadsAreKnown, Moves
    <2>1. ASSUME NEW s \in Sender, InJob(u, s)'
          PROVE  /\ u \in calling
                 /\ IF notifier[u] = NoNotifier THEN s = u ELSE pipe[notifier[u]] = << >>
                 /\ IF sending'[s].code = "none" THEN adds[u] = 0
                    ELSE adds[u] = 1 /\ outcome[u] = sending'[s].code
      <3>1. CASE s \in G
        <4>1. InBatch(u, g[s]) /\ g[s] \in Key
          BY <3>1, <2>1, <1>10
        <4>2. sending'[s].code = "none"
          BY <3>1, <1>3, <1>9 DEF Moves
        <4> QED
          BY <4>1, <4>2, <2>0 DEF Known
      <3>2. CASE s \notin G
        <4>1. InJob(u, s) /\ sending'[s] = sending[s]
          BY <3>2, <2>1, <1>3, <1>10 DEF Moves
        <4> QED
          BY <4>1, <2>0 DEF Known
      <3> QED
        BY <3>1, <3>2
    <2>2. (InJob(u, u)' <=> InJob(u, u)) /\ \A k \in Key : InBatch(u, k)' => InBatch(u, k)
      BY <2>0, <1>10
    <2> QED
      BY <2>0, <2>1, <2>2, <1>1 DEF Known
  <1> QED
    BY <1>8, <1>11, <1>12, <1>13 DEF BatchInv

\* Time passes.
LEMMA BatchTickKeeps ==
  ASSUME BatchInv, BatchTick
  PROVE  BatchInv'
  <1>0. BatchTypeOK /\ PipesAreOwn /\ ThreadsAreKnown /\ TasksAreOnce
    BY DEF BatchInv
  <1>1. /\ UNCHANGED <<batch, sending, notifier, pipe, pool, calling, adds, outcome>>
        /\ age' = [k \in Key |-> IF batch[k] = << >> THEN 0 ELSE Min({age[k] + 1, BatchDelay})]
        /\ wake' = IF wake = 0 THEN 0 ELSE wake - 1
    BY DEF BatchTick
  <1>2. BatchDelay \in Nat /\ wake \in 0..BatchDelay
    BY <1>0, BatchAssumption DEF BatchTypeOK
  <1>3. ASSUME NEW k \in Key PROVE age'[k] \in 0..BatchDelay
    <2> DEFINE T == {age[k] + 1, BatchDelay}
    <2>1. age[k] \in Nat
      BY <1>0, <1>2 DEF BatchTypeOK
    <2>2. T \in SUBSET Nat /\ T # {} /\ BatchDelay \in T
      BY <1>2, <2>1
    <2>3. age'[k] = IF batch[k] = << >> THEN 0 ELSE Min(T)
      BY <1>1
    <2> HIDE DEF T
    <2>4. Min(T) \in Nat /\ Min(T) <= BatchDelay
      BY <2>2, MinIsLeast
    <2> QED
      BY <1>2, <2>3, <2>4
  <1>4. age' \in [Key -> 0..BatchDelay]
    BY <1>1, <1>3
  <1>5. wake' \in 0..BatchDelay
    BY <1>1, <1>2
  <1>6. BatchTypeOK'
    BY <1>0, <1>1, <1>4, <1>5 DEF BatchTypeOK
  <1>7. TasksAreOnce' /\ PipesAreOwn' /\ ThreadsAreKnown'
    BY <1>0, <1>1 DEF TasksAreOnce, PipesAreOwn, ThreadsAreKnown, Known, InBatch, InJob
  <1> QED
    BY <1>6, <1>7 DEF BatchInv

LEMMA BatchStepInv == BatchInv /\ [BatchNext]_batchVars => BatchInv'
  <1> SUFFICES ASSUME BatchInv, [BatchNext]_batchVars PROVE BatchInv'
    OBVIOUS
  <1>1. ASSUME NEW t \in Thread, NEW k \in Key, BatchRawAdd(t, k) PROVE BatchInv'
    <2>1. CASE Ready(Append(batch[k], t), age[k])
      BY <1>1, <2>1, FillKeeps DEF BatchRawAdd
    <2>2. CASE ~Ready(Append(batch[k], t), age[k])
      BY <1>1, <2>2, JoinKeeps DEF BatchRawAdd
    <2> QED
      BY <2>1, <2>2
  <1>2. ASSUME NEW t \in Thread, Wait(t) PROVE BatchInv'
    BY <1>2, WaitKeeps
  <1>3. ASSUME NEW s \in Sender, SenderStep(s) PROVE BatchInv'
    BY <1>3, RawAddKeeps, NotifyKeeps, FinishBatchKeeps DEF SenderStep
  <1>4. CASE DispatchBatchTask
    BY <1>4, DispatchBatchKeeps
  <1>5. CASE BatchTick
    BY <1>5, BatchTickKeeps
  <1>6. CASE UNCHANGED batchVars
    BY <1>6 DEF batchVars, BatchInv, BatchTypeOK, TasksAreOnce, PipesAreOwn, ThreadsAreKnown,
                Known, InBatch, InJob
  <1> QED
    BY <1>1, <1>2, <1>3, <1>4, <1>5, <1>6 DEF BatchNext

\* However many threads, keys and routines there are: a task is in one place at
\* a time, and a pipe is empty in the pool or belongs to one thread.
THEOREM TasksAndPipesAreOwn == BatchSpec => []BatchInv
  BY BatchInitInv, BatchStepInv, PTL DEF BatchSpec

\* So a request is sent once, and BatchRawAdd returns the code of its own.
THEOREM RequestsAreSentOnce == BatchSpec => []SentOnceWithOwnCode
  <1>1. ASSUME BatchInv PROVE SentOnceWithOwnCode
    <2> SUFFICES ASSUME NEW t \in Thread
                 PROVE  /\ adds[t] <= (IF t \in calling THEN 1 ELSE 0)
                        /\ Answer(t) # "none" => adds[t] = 1 /\ Answer(t) = outcome[t]
      BY DEF SentOnceWithOwnCode
    <2>1. Known(t) /\ adds[t] \in 0..1
      BY <1>1 DEF BatchInv, ThreadsAreKnown, BatchTypeOK
    <2>2. adds[t] <= (IF t \in calling THEN 1 ELSE 0)
      BY <2>1 DEF Known
    <2>3. CASE notifier[t] # NoNotifier /\ pipe[notifier[t]] # << >>
      <3>1. pipe[notifier[t]] = <<outcome[t]>> /\ adds[t] = 1
        BY <2>1, <2>3 DEF Known
      <3>2. Answer(t) = outcome[t]
        BY <2>3, <3>1 DEF Answer
      <3> QED
        BY <2>2, <3>1, <3>2
    <2>4. CASE ~(notifier[t] # NoNotifier /\ pipe[notifier[t]] # << >>)
      <3>1. Answer(t) = sending[t].code
        BY <2>4 DEF Answer
      <3> QED
        BY <2>1, <2>2, <3>1 DEF Known
    <2> QED
      BY <2>3, <2>4
  <1> QED
    BY <1>1, TasksAndPipesAreOwn, PTL

-----------------------------------------------------------------------------
(* The frequency limits of a consumer.                                     *)

Positive == Nat \ {0}

LEMMA AtLeastOneType == ASSUME NEW n \in Nat PROVE AtLeastOne(n) \in Positive
  BY DEF AtLeastOne, Positive

\* Of two numbers, one goes into the other.
LEMMA OneGoesIntoOther ==
  ASSUME NEW a \in Positive, NEW b \in Positive, a \div b = 0 PROVE b \div a \in Positive
  <1>1. a < b
    BY DEF Positive
  <1>2. b \div a # 0
    BY <1>1 DEF Positive
  <1> QED
    BY <1>2, QuotientType DEF Positive

\* The limit of a worker is positive, and so is what refills its quota, though
\* the code rounds down three times.
LEMMA BoundOfType ==
  ASSUME NEW i \in [queues : SUBSET (1..NFreqQueue), handle : Nat, limit : Nat, key : Nat],
         i.limit # 0, i.queues # {},
         NEW t \in [used : Positive, tot : Positive, nhandle : Positive], NEW own \in Nat
  PROVE  BoundOf(i, t, own) \in [limit : Positive, refill : Positive, interval : Positive]
  <1> DEFINE small == own > 0 /\ 10 * own * t.used < t.nhandle
             propNum == IF own = 0 \/ small THEN 1 ELSE own * t.used
             propDen == IF own = 0 THEN 1 ELSE IF small THEN 10 ELSE t.nhandle
             share == i.limit * t.tot
             den == Cardinality(i.queues) * t.nhandle
             interval == (RoundTime * den) \div share
  <1>1. Cardinality(i.queues) \in Positive
    <2>1. IsFiniteSet(1..NFreqQueue)
      BY FreqAssumption, FS_Interval
    <2>2. IsFiniteSet(i.queues)
      BY <2>1, FS_Subset
    <2> QED
      BY <2>2, FS_CardinalityType, FS_EmptySet DEF Positive
  <1>2. share \in Positive /\ den \in Positive
    BY <1>1, ProductType DEF Positive
  <1>3. propNum \in Positive /\ propDen \in Positive
    <2>1. t.used \in Positive /\ t.nhandle \in Positive
      OBVIOUS
    <2>2. own # 0 => own * t.used \in Positive
      BY <2>1, ProductType DEF Positive
    <2>3. 1 \in Positive /\ 10 \in Positive
      BY DEF Positive
    <2> QED
      BY <2>1, <2>2, <2>3
  <1> HIDE DEF propNum, propDen, share, den
  <1>4. RoundTime * den \in Positive
    BY <1>2, FreqAssumption, ProductType DEF Positive
  <1>5. interval \in Nat
    BY <1>2, <1>4, QuotientType DEF Positive
  <1>6. (IF interval = 0 THEN share \div (RoundTime * den) ELSE 1) \in Positive
    BY <1>2, <1>4, OneGoesIntoOther DEF Positive
  <1> HIDE DEF interval
  <1>7. AtLeastOne((share * propNum) \div (den * propDen)) \in Positive
    <2>1. share * propNum \in Nat /\ den * propDen \in Nat \ {0}
      BY <1>2, <1>3, ProductType DEF Positive
    <2> QED
      BY <2>1, QuotientType, AtLeastOneType
  <1>8. AtLeastOne((AtLeastOne(interval) * propDen) \div propNum) \in Positive
    <2>1. AtLeastOne(interval) * propDen \in Nat /\ propNum \in Nat \ {0}
      BY <1>3, <1>5, AtLeastOneType, ProductType DEF Positive
    <2> QED
      BY <2>1, QuotientType, AtLeastOneType
  <1>9. BoundOf(i, t, own) =
          [limit |-> AtLeastOne((share * propNum) \div (den * propDen)),
           refill |-> IF interval = 0 THEN share \div (RoundTime * den) ELSE 1,
           interval |-> AtLeastOne((AtLeastOne(interval) * propDen) \div propNum)]
    BY DEF BoundOf, propNum, propDen, share, den, interval
  <1> QED
    BY <1>6, <1>7, <1>8, <1>9

LEMMA SumMatchedType ==
  ASSUME NEW i, NEW f \in [FreqWorker -> Nat] PROVE SumMatched(i, f) \in Nat
  <1> DEFINE h == [p \in FreqWorker |-> IF p \in MatchedBy(i) THEN f[p] ELSE 0]
  <1>1. h \in [1..NWorker -> Nat]
    BY DEF FreqWorker
  <1>2. SumMatched(i, f) = SumUpTo(NWorker, h)
    BY DEF SumMatched
  <1> HIDE DEF h
  <1> QED
    BY <1>1, <1>2, FreqAssumption, SumUpToType

\* A freq_info that matches a worker has totals to divide by.
LEMMA TotalsOfType ==
  ASSUME FreqInv, NEW i, MatchedBy(i) # {}
  PROVE  TotalsOf(i) \in [used : Positive, tot : Positive, nhandle : Positive]
  <1>1. Cardinality(MatchedBy(i)) \in Positive
    <2>1. IsFiniteSet(FreqWorker) /\ MatchedBy(i) \subseteq FreqWorker
      BY FreqAssumption, FS_Interval DEF FreqWorker, MatchedBy
    <2>2. IsFiniteSet(MatchedBy(i))
      BY <2>1, FS_Subset
    <2> QED
      BY <2>2, FS_CardinalityType, FS_EmptySet DEF Positive
  <1>2. SumMatched(i, [p \in FreqWorker |-> stat[p].tot]) \in Nat
    <2>1. [p \in FreqWorker |-> stat[p].tot] \in [FreqWorker -> Nat]
      BY DEF FreqInv, Counts
    <2> QED
      BY <2>1, SumMatchedType
  <1>3. SumMatched(i, [p \in FreqWorker |-> HandledOf(i, p)]) \in Nat
    <2>1. [p \in FreqWorker |-> HandledOf(i, p)] \in [FreqWorker -> Nat]
      BY DEF FreqInv, Counts, HandledOf
    <2> QED
      BY <2>1, SumMatchedType
  <1> QED
    BY <1>1, <1>2, <1>3, AtLeastOneType DEF TotalsOf

LEMMA MaxIsMember ==
  ASSUME NEW N \in Nat, NEW S \in SUBSET (1..N), S # {} PROVE Max(S) \in S
  <1> DEFINE T == {k \in Nat : \E x \in S : k = N - x}
  <1>1. \A x \in S : N - x \in T
    OBVIOUS
  <1>2. T \in SUBSET Nat /\ T # {}
    BY <1>1
  <1>3. PICK m \in T : \A n \in T : m <= n
    BY <1>2, LeastNat
  <1>4. PICK x \in S : m = N - x
    OBVIOUS
  <1>5. \A y \in S : x >= y
    BY <1>1, <1>3, <1>4
  <1> QED
    BY <1>5 DEF Max

\* What UpdateLimitInfo sets a worker's limit to.
LEMMA LimitInfoType ==
  ASSUME FreqInv, UpdateLimitInfo
  PROVE  bound' \in [FreqWorker -> {NoBound} \cup
                        [limit : Positive, refill : Positive, interval : Positive]]
  <1> DEFINE totals == [i \in DOMAIN FreqInfos |-> TotalsOf(FreqInfos[i])]
             mine(p) == {i \in Applied(totals) : p \in MatchedBy(FreqInfos[i])}
             last(p) == FreqInfos[Max(mine(p))]
             new(p) == IF mine(p) = {} THEN NoBound
                       ELSE BoundOf(last(p), totals[Max(mine(p))], HandledOf(last(p), p))
  <1>1. bound' = [p \in FreqWorker |-> new(p)]
    BY DEF UpdateLimitInfo
  <1>2. ASSUME NEW p \in FreqWorker, mine(p) # {}
        PROVE  new(p) \in [limit : Positive, refill : Positive, interval : Positive]
    <2> DEFINE k == Max(mine(p))
    <2>0. \A j \in DOMAIN FreqInfos : FreqInfos[j] \in
            [queues : SUBSET (1..NFreqQueue), handle : Nat, limit : Nat, key : Nat]
      <3> DEFINE S == [queues : SUBSET (1..NFreqQueue), handle : Nat, limit : Nat, key : Nat]
      <3>1. FreqInfos \in Seq(S)
        BY FreqAssumption
      <3> HIDE DEF S
      <3>2. \A j \in DOMAIN FreqInfos : FreqInfos[j] \in S
        BY <3>1
      <3> QED
        BY <3>2 DEF S
    <2>1. Len(FreqInfos) \in Nat /\ DOMAIN FreqInfos = 1..Len(FreqInfos)
      BY FreqAssumption
    <2>2. mine(p) \in SUBSET (1..Len(FreqInfos))
      BY <2>1 DEF Applied
    <2>3. k \in mine(p)
      BY <1>2, <2>1, <2>2, MaxIsMember
    <2>4. new(p) = BoundOf(FreqInfos[k], totals[k], HandledOf(FreqInfos[k], p))
      BY <1>2
    <2>5. k \in DOMAIN FreqInfos /\ FreqInfos[k].limit > 0 /\ p \in MatchedBy(FreqInfos[k])
      BY <2>3 DEF Applied
    <2>7. totals[k] = TotalsOf(FreqInfos[k])
      BY <2>5
    <2> HIDE DEF k, totals, mine, last, new
    <2>6. FreqInfos[k] \in [queues : SUBSET (1..NFreqQueue), handle : Nat, limit : Nat, key : Nat]
      BY <2>0, <2>5
    <2>8. FreqInfos[k].limit # 0 /\ FreqInfos[k].queues # {}
      BY <2>5, <2>6 DEF MatchedBy
    <2>9. totals[k] \in [used : Positive, tot : Positive, nhandle : Positive]
      BY <2>5, <2>7, TotalsOfType
    <2>10. HandledOf(FreqInfos[k], p) \in Nat
      BY DEF HandledOf, FreqInv, Counts
    <2> QED
      BY <2>4, <2>6, <2>8, <2>9, <2>10, BoundOfType
  <1> HIDE DEF new, mine
  <1>3. \A p \in FreqWorker : mine(p) = {} => new(p) = NoBound
    BY DEF new
  <1> QED
    BY <1>1, <1>2, <1>3

LEMMA FreqInitInv == FreqInit => FreqInv
  BY FreqAssumption DEF FreqInit, FreqInv, FreqTypeOK, CountsCoverHandled, Counts, NoStat, NoBound,
     FreqWorker

\* A quota is never overdrawn by more than one batch.
LEMMA RefilledType ==
  ASSUME FreqInv, NEW p \in FreqWorker, bound[p].limit # 0
  PROVE  Refilled(p) \in Int /\ Refilled(p) >= -GetLimit
  <1> DEFINE more == (idle[p] * bound[p].refill) \div bound[p].interval
             q == IF idle[p] = -1 THEN bound[p].refill
                  ELSE IF idle[p] >= bound[p].interval THEN quota[p] + more ELSE quota[p]
  <1>1. /\ bound[p].refill \in Nat /\ bound[p].interval \in Nat \ {0}
        /\ quota[p] \in Int /\ quota[p] >= -GetLimit /\ idle[p] \in Nat \cup {-1}
    BY DEF FreqInv, FreqTypeOK, NoBound
  <1>2. idle[p] # -1 => more \in Nat
    <2> SUFFICES ASSUME idle[p] # -1 PROVE more \in Nat
      OBVIOUS
    <2>1. idle[p] * bound[p].refill \in Nat
      BY <1>1, ProductType
    <2> QED
      BY <1>1, <2>1, QuotientType
  <1> HIDE DEF more
  <1>3. q \in Int /\ q >= -GetLimit
    BY <1>1, <1>2, FreqAssumption
  <1>4. Refilled(p) = Min({QuotaCap, q})
    BY DEF Refilled, more
  <1> HIDE DEF q
  <1>5. Min({QuotaCap, q}) \in {QuotaCap, q}
    BY <1>3, FreqAssumption DEF Min
  <1> QED
    BY <1>3, <1>4, <1>5, FreqAssumption

\* A Get asks for no more than the quota.
LEMMA GetWithinQuota ==
  ASSUME FreqInv, NEW p \in FreqWorker, bound[p].limit # 0, NEW items \in 0..GetLimit, items <= NextLimit(p)
  PROVE  Refilled(p) - items \in Int /\ Refilled(p) - items >= -GetLimit
  <1> DEFINE r == Refilled(p)
  <1>1. r \in Int /\ r >= -GetLimit
    BY RefilledType
  <1>2. NextLimit(p) = Max({0, Min({GetLimit, r})})
    BY DEF NextLimit
  <1> HIDE DEF r
  <1>3. Min({GetLimit, r}) \in Int /\ Min({GetLimit, r}) <= r
    <2>1. GetLimit \in Nat
      BY FreqAssumption
    <2>2. Min({GetLimit, r}) \in {GetLimit, r} /\ \A y \in {GetLimit, r} : Min({GetLimit, r}) <= y
      BY <1>1, <2>1 DEF Min
    <2> QED
      BY <1>1, <2>1, <2>2
  <1> DEFINE m == Min({GetLimit, r})
  <1> HIDE DEF m
  <1>4. Max({0, m}) = 0 \/ Max({0, m}) = m
    BY <1>3 DEF Max, m
  <1> QED
    BY <1>1, <1>2, <1>3, <1>4, FreqAssumption DEF r, m

LEMMA GetAndConsumeKeeps ==
  ASSUME FreqInv, NEW p \in FreqWorker, NEW items \in 0..GetLimit,
         NEW b \in Batches, b.own <= b.tot, GetAndConsume(p, items, b)
  PROVE  FreqInv'
  <1>1. b \in Counts /\ items \in Nat /\ GetLimit \in Nat
    BY FreqAssumption DEF Batches, Counts
  <1>2. /\ quota' \in [FreqWorker -> Int]
        /\ \A w \in FreqWorker : quota'[w] >= -GetLimit
    <2>1. CASE bound[p].limit = 0
      BY <2>1, <1>1 DEF GetAndConsume, FreqInv, FreqTypeOK
    <2>2. CASE bound[p].limit # 0
      <3>1. Refilled(p) - items \in Int /\ Refilled(p) - items >= -GetLimit
        BY <2>2, GetWithinQuota DEF GetAndConsume
      <3>2. quota' = [quota EXCEPT ![p] = Refilled(p) - items]
        BY <2>2 DEF GetAndConsume
      <3> QED
        BY <3>1, <3>2 DEF FreqInv, FreqTypeOK
    <2> QED
      BY <2>1, <2>2
  <1>3. /\ idle' \in [FreqWorker -> Nat \cup {-1}]
        /\ inHand' \in [FreqWorker -> Counts]
        /\ at' \in [FreqWorker -> {"loop", "count", "write"}]
        /\ \A w \in FreqWorker : at'[w] = "write" <=> at[w] = "write"
    BY <1>1 DEF GetAndConsume, FreqInv
  <1>4. UNCHANGED <<stat, bound, owned, reg, clearing, since, moves>>
    BY DEF GetAndConsume
  <1> QED
    BY <1>2, <1>3, <1>4 DEF FreqInv, FreqTypeOK, CountsCoverHandled, Counts

LEMMA FreqStepInv == FreqInv /\ [FreqNext]_freqVars => FreqInv'
  <1> SUFFICES ASSUME FreqInv, [FreqNext]_freqVars PROVE FreqInv'
    OBVIOUS
  <1>a. GetLimit \in Nat /\ NWorker \in Nat \ {0} /\ NFreqQueue \in Nat
    BY FreqAssumption
  <1> USE <1>a
  <1>0. NoStat \in Counts /\ NoStat.tot = 0
    BY DEF NoStat, Counts
  <1>1. ASSUME NEW p \in FreqWorker, Block(p) PROVE FreqInv'
    BY <1>1 DEF Block, FreqInv, FreqTypeOK, CountsCoverHandled, Counts
  <1>2. ASSUME NEW p \in FreqWorker, NEW items \in 0..GetLimit,
               NEW b \in Batches, b.own <= b.tot, GetAndConsume(p, items, b)
        PROVE  FreqInv'
    BY <1>2, GetAndConsumeKeeps
  <1>3. ASSUME NEW p \in FreqWorker, NEW cleared \in BOOLEAN, ReadStat(p, cleared) PROVE FreqInv'
    <2>1. CASE cleared
      <3>1. /\ at' = [at EXCEPT ![p] = "write"] /\ reg' = [reg EXCEPT ![p] = NoStat]
            /\ since' = [since EXCEPT ![p] = 0] /\ moves' = moves + 1
            /\ UNCHANGED <<stat, bound, owned, quota, idle, inHand, clearing>>
        BY <1>3, <2>1 DEF ReadStat
      <3>2. CountsCoverHandled'
        BY <1>0, <3>1 DEF CountsCoverHandled, FreqInv, Counts
      <3> QED
        BY <1>0, <3>1, <3>2 DEF FreqInv, FreqTypeOK
    <2>2. CASE ~cleared
      BY <1>3, <2>2 DEF ReadStat, FreqInv, FreqTypeOK, CountsCoverHandled, Counts
    <2> QED
      BY <2>1, <2>2
  <1>4. ASSUME NEW p \in FreqWorker, WriteStat(p) PROVE FreqInv'
    <2>1. /\ Counted(reg[p], inHand[p]) \in Counts
          /\ Counted(reg[p], inHand[p]).tot = reg[p].tot + inHand[p].tot
      BY DEF Counted, Counts, FreqInv
    <2> QED
      BY <1>0, <1>4, <2>1 DEF WriteStat, FreqInv, FreqTypeOK, CountsCoverHandled, Counts
  <1>5. ASSUME NEW p \in FreqWorker, NEW q \in 0..NFreqQueue, Redistribute(p, q) PROVE FreqInv'
    BY <1>5 DEF Redistribute, FreqInv, FreqTypeOK, CountsCoverHandled, Counts
  <1>6. CASE UpdateLimitInfo
    <2>1. bound' \in [FreqWorker -> {NoBound} \cup [limit : Positive, refill : Positive, interval : Positive]]
      BY <1>6, LimitInfoType
    <2>2. /\ bound' \in [FreqWorker -> [limit : Nat, refill : Nat, interval : Nat]]
          /\ \A p \in FreqWorker : bound'[p] = NoBound
                \/ (bound'[p].limit > 0 /\ bound'[p].refill > 0 /\ bound'[p].interval > 0)
      BY <2>1 DEF NoBound, Positive
    <2>3. clearing' \in 0..NWorker
      BY <1>6 DEF UpdateLimitInfo, FreqInv, FreqTypeOK
    <2> QED
      BY <1>6, <2>2, <2>3 DEF UpdateLimitInfo, FreqInv, FreqTypeOK, CountsCoverHandled, Counts
  <1>7. CASE ClearConsumeStat
    <2>1. clearing \in FreqWorker /\ clearing' \in 0..NWorker
      BY <1>7 DEF ClearConsumeStat, NextToClear, FreqInv, FreqTypeOK, FreqWorker
    <2> QED
      BY <1>0, <1>7, <2>1 DEF ClearConsumeStat, FreqInv, FreqTypeOK, CountsCoverHandled, Counts, NoStat
  <1>8. CASE FreqTick
    BY <1>8 DEF FreqTick, FreqInv, FreqTypeOK, CountsCoverHandled, Counts
  <1>9. CASE UNCHANGED freqVars
    BY <1>9 DEF freqVars, FreqInv, FreqTypeOK, CountsCoverHandled, Counts
  <1> QED
    BY <1>1, <1>2, <1>3, <1>4, <1>5, <1>6, <1>7, <1>8, <1>9 DEF FreqNext, WorkerTurn, FreqRound

\* However many workers and whatever the frequency configs: the counters of
\* FreqMan never say less than what was handled, limits are positive, and a
\* quota is overdrawn by one batch at most.
THEOREM CountsAreKept == FreqSpec => []FreqInv
  BY FreqInitInv, FreqStepInv, PTL DEF FreqSpec

\* So Judge lets no worker go on that handled more than its limit, though the
\* counters are read, cleared and written without a lock.
THEOREM JudgeHoldsLimits == FreqSpec => HandledWithinLimit
  <1>1. FreqInv /\ [FreqNext]_freqVars =>
          [\A p \in FreqWorker :
             at[p] = "loop" /\ at'[p] = "count" /\ bound[p].limit # 0
               => since[p] <= bound[p].limit]_freqVars
    <2> SUFFICES ASSUME FreqInv, FreqNext, NEW p \in FreqWorker,
                        at[p] = "loop", at'[p] = "count", bound[p].limit # 0
                 PROVE  since[p] <= bound[p].limit
      BY DEF freqVars
    <2>1. ~Blocked(p)
      <3>0. at \in [FreqWorker -> {"loop", "count", "write"}]
        BY DEF FreqInv
      <3>1. ASSUME NEW w \in FreqWorker, WorkerTurn(w) PROVE ~Blocked(p)
        BY <3>0, <3>1 DEF WorkerTurn, Block, GetAndConsume, ReadStat, WriteStat
      <3>2. ASSUME NEW w \in FreqWorker, NEW q \in 0..NFreqQueue, Redistribute(w, q) PROVE FALSE
        BY <3>2 DEF Redistribute
      <3>3. CASE FreqRound \/ FreqTick
        BY <3>3 DEF FreqRound, UpdateLimitInfo, ClearConsumeStat, FreqTick
      <3> QED
        BY <3>1, <3>2, <3>3 DEF FreqNext
    <2>2. since[p] <= stat[p].tot /\ since[p] \in Nat /\ stat[p].tot \in Nat /\ bound[p].limit \in Nat
      BY DEF FreqInv, CountsCoverHandled, Counts
    <2> QED
      BY <2>1, <2>2 DEF Blocked
  <1> QED
    BY <1>1, CountsAreKept, PTL DEF FreqSpec, HandledWithinLimit
=============================================================================
