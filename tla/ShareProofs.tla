---------------------------- MODULE ShareProofs ----------------------------
(***************************************************************************)
(* Proofs about QueueShare and Scheduler: the ring gives every queue to one *)
(* host, and the processes of a host never share a queue, whatever the     *)
(* scheduler answers and whenever hosts, configs and masters change.       *)
(***************************************************************************)
EXTENDS Scheduler, Induction

\* What a process can have in its slot.
Slot == Slots \cup {NoQueue}

-----------------------------------------------------------------------------
(* The ring.                                                               *)

LEMMA ClockwiseType ==
  ASSUME NEW p \in 0..(RingSize - 1), NEW x \in 0..(RingSize - 1)
  PROVE  Clockwise(p, x) \in Nat
  <1>1. RingSize \in Nat \ {0}
    BY ShareAssumption
  <1>2. x + RingSize - p \in Nat
    BY <1>1
  <1> QED
    BY <1>1, <1>2 DEF Clockwise

\* One host has the node that is next to the point; of several with the same
\* hash, the first.
LEMMA OneHostIsNext ==
  ASSUME NEW s, AreScales(s), NEW p \in 0..(RingSize - 1),
         NEW k0 \in DOMAIN s, s[k0] > 0
  PROVE  \E h \in DOMAIN s : FallsTo(h, s, p) /\ \A k \in DOMAIN s : FallsTo(k, s, p) => k = h
  <1>0. \A k \in DOMAIN s : k \in Nat /\ s[k] \in Nat
                            /\ \A j \in 1..s[k] : HostPoint[k][j] \in 0..(RingSize - 1)
    <2> TAKE k \in DOMAIN s
    <2>1. k \in Host /\ s[k] \in 0..Len(HostPoint[k])
      BY DEF AreScales
    <2>2. HostPoint[k] \in Seq(0..(RingSize - 1))
      BY <2>1, ShareAssumption
    <2>3. Len(HostPoint[k]) \in Nat
      BY <2>2
    <2>4. k \in Nat /\ s[k] \in Nat
      BY <2>1, <2>3, ShareAssumption DEF Host
    <2>5. ASSUME NEW j \in 1..s[k] PROVE HostPoint[k][j] \in 0..(RingSize - 1)
      <3>1. j \in 1..Len(HostPoint[k])
        BY <2>1, <2>3
      <3> DEFINE S == 0..(RingSize - 1)
                 t == HostPoint[k]
      <3>2. t \in Seq(S) /\ j \in 1..Len(t)
        BY <3>1, <2>2
      <3> HIDE DEF S, t
      <3>3. t[j] \in S
        BY <3>2
      <3> QED
        BY <3>3 DEF S, t
    <2> QED
      BY <2>4, <2>5
  <1> DEFINE Far(k, j) == Clockwise(p, HostPoint[k][j])
             F == {d \in Nat : \E k \in DOMAIN s : \E j \in 1..s[k] : d = Far(k, j)}
  <1>1. \A k \in DOMAIN s : \A j \in 1..s[k] : Far(k, j) \in Nat
    BY <1>0, ClockwiseType
  <1> HIDE DEF Far
  <1>2. \A k \in DOMAIN s : \A j \in 1..s[k] : Far(k, j) \in F
    BY <1>1
  <1>3. F # {} /\ F \in SUBSET Nat
    <2>1. 1 \in 1..s[k0]
      BY <1>0
    <2> QED
      BY <2>1, <1>2
  <1> HIDE DEF F
  <1>4. PICK d \in F : \A e \in F : d <= e
    BY <1>3, LeastNat
  <1> DEFINE H == {k \in Nat : k \in DOMAIN s /\ \E j \in 1..s[k] : d = Far(k, j)}
  <1>5. H # {} /\ H \in SUBSET Nat
    BY <1>0, <1>4 DEF F
  <1> HIDE DEF H
  <1>6. PICK h \in H : \A k \in H : h <= k
    BY <1>5, LeastNat
  <1>7. h \in Nat /\ h \in DOMAIN s /\ d \in Nat
    BY <1>6, <1>3 DEF H
  <1>8. PICK i \in 1..s[h] : d = Far(h, i)
    BY <1>6 DEF H
  <1>9. FallsTo(h, s, p)
    <2>1. ASSUME NEW k \in DOMAIN s, NEW j \in 1..s[k]
          PROVE  Far(h, i) < Far(k, j) \/ (Far(h, i) = Far(k, j) /\ h <= k)
      <3>1. Far(k, j) \in Nat /\ d <= Far(k, j)
        BY <1>1, <1>2, <1>4
      <3>2. d = Far(k, j) => k \in H
        BY <1>0 DEF H
      <3>3. k \in H => h <= k
        BY <1>6
      <3>4. d = Far(h, i) /\ d \in Nat
        BY <1>7, <1>8
      <3> QED
        BY <3>1, <3>2, <3>3, <3>4
    <2> QED
      BY <2>1, <1>8 DEF FallsTo, Far
  <1>10. ASSUME NEW k \in DOMAIN s, FallsTo(k, s, p) PROVE k = h
    <2>1. PICK j \in 1..s[k] : \A m \in DOMAIN s : \A n \in 1..s[m] :
             Far(k, j) < Far(m, n) \/ (Far(k, j) = Far(m, n) /\ k <= m)
      BY <1>10 DEF FallsTo, Far
    <2>2. Far(k, j) < Far(h, i) \/ (Far(k, j) = Far(h, i) /\ k <= h)
      BY <2>1, <1>7, <1>8
    <2>3. Far(k, j) \in Nat /\ d <= Far(k, j)
      BY <1>1, <1>2, <1>4
    <2>4. Far(k, j) = d /\ k <= h
      BY <2>2, <2>3, <1>7, <1>8
    <2>5. k \in H
      BY <2>4, <1>0 DEF H
    <2> QED
      BY <2>4, <2>5, <1>0, <1>6, <1>7
  <1> QED
    BY <1>7, <1>9, <1>10

\* Hosts that use the same scales split the queues of a group.
LEMMA ScalesSplit ==
  ASSUME NEW s, AreScales(s), NEW g \in Group, NEW q \in QueuesOf[g],
         \E k \in DOMAIN s : s[k] > 0
  PROVE  Cardinality({k \in DOMAIN s : q \in Pending(k, s, g)}) = 1
  <1>1. QueuePoint[g][q] \in 0..(RingSize - 1)
    BY ShareAssumption
  <1>2. PICK h \in DOMAIN s : /\ FallsTo(h, s, QueuePoint[g][q])
                              /\ \A k \in DOMAIN s : FallsTo(k, s, QueuePoint[g][q]) => k = h
    BY <1>1, OneHostIsNext
  <1>3. {k \in DOMAIN s : q \in Pending(k, s, g)} = {h}
    BY <1>2 DEF Pending
  <1> QED
    BY <1>3, FS_Singleton

-----------------------------------------------------------------------------
(* The slots.                                                              *)

\* A round for a group: its processes have pending queues, one each, and the
\* slots of the other groups stay.
LEMMA RoundShares ==
  ASSUME NEW s \in [Vpid -> Slot], Distinct(s), NEW g \in Group,
         NEW pending \in SUBSET QueuesOf[g], NEW r, r = DistributeGroup(s, g, pending)
  PROVE  /\ r \in [Vpid -> Slot] /\ Distinct(r)
         /\ \A v \in Vpid : r[v][1] = g => r[v][2] \in pending
         /\ \A v \in Vpid : r[v] = s[v] \/ r[v][1] \in {0, g}
  <1> DEFINE kept == [v \in Vpid |-> IF Kept(s, g, pending, v) THEN s[v] ELSE NoQueue]
             free == {v \in Vpid : kept[v] = NoQueue}
             left == Left(kept, g, pending)
             nth(v) == Cardinality({w \in free : w <= v})
             takes(v) == v \in free /\ nth(v) <= Cardinality(left)
  <1>0. g \in Nat \ {0} /\ NProc \in Nat
    BY ShareAssumption DEF Group
  <1>1. r = [v \in Vpid |-> IF takes(v) THEN <<g, InOrder(left)[nth(v)]>> ELSE kept[v]]
    BY DEF DistributeGroup
  <1>2. PICK n \in Nat : pending \in SUBSET (1..n)
    <2>1. QueuePoint[g] \in Seq(0..(RingSize - 1)) /\ QueuesOf[g] \subseteq DOMAIN QueuePoint[g]
      BY ShareAssumption
    <2>2. Len(QueuePoint[g]) \in Nat /\ DOMAIN QueuePoint[g] = 1..Len(QueuePoint[g])
      BY <2>1
    <2> QED
      BY <2>1, <2>2
  <1>3. left \in SUBSET (1..n) /\ left \subseteq pending
    BY <1>2 DEF Left
  <1>4. /\ Cardinality(left) \in Nat /\ InOrder(left) \in [1..Cardinality(left) -> left]
        /\ Rises(InOrder(left))
    <2> HIDE DEF left
    <2> QED
      BY <1>3, InOrderIsOrder
  <1>5. \A v \in Vpid : kept[v] = NoQueue \/ kept[v] = s[v]
    OBVIOUS
  <1>6. \A v \in Vpid : NoQueue[1] = 0 /\ (kept[v][1] = g => kept[v] = s[v] /\ s[v][2] \in pending)
    BY <1>0 DEF Kept, NoQueue
  <1>7. \A v \in Vpid : kept[v] \in Slot
    BY <1>5 DEF Slot
  \* The free processes are counted in the order of their vpids.
  <1>8. ASSUME NEW v \in free PROVE nth(v) \in Nat \ {0}
    <2>1. IsFiniteSet(1..NProc)
      BY <1>0, FS_Interval
    <2>2. {w \in free : w <= v} \subseteq 1..NProc
      BY DEF Vpid
    <2>3. IsFiniteSet({w \in free : w <= v})
      BY <2>1, <2>2, FS_Subset
    <2>4. nth(v) \in Nat
      BY <2>3, FS_CardinalityType
    <2>5. v \in {w \in free : w <= v}
      BY <1>0 DEF Vpid
    <2>6. nth(v) # 0
      BY <2>3, <2>5, FS_EmptySet
    <2> QED
      BY <2>4, <2>6
  <1>9. ASSUME NEW v \in free, NEW w \in free, v < w PROVE nth(v) < nth(w)
    <2>0. v \in 1..NProc /\ w \in 1..NProc
      BY DEF Vpid
    <2>1. IsFiniteSet(1..NProc)
      BY <1>0, FS_Interval
    <2> DEFINE V == {u \in free : u <= v}
               W == {u \in free : u <= w}
    <2>2. W \subseteq 1..NProc
      BY DEF Vpid
    <2>3. IsFiniteSet(W)
      BY <2>1, <2>2, FS_Subset
    <2>4. V \subseteq W /\ w \in W /\ w \notin V
      <3>1. \A u \in free : u \in 1..NProc
        BY DEF Vpid
      <3> QED
        BY <3>1, <2>0, <1>0, <1>9
    <2>5. V # W
      BY <2>4
    <2>6. Cardinality(V) <= Cardinality(W) /\ Cardinality(V) # Cardinality(W)
      <3> HIDE DEF V, W
      <3> QED
        BY <2>3, <2>4, <2>5, FS_Subset
    <2>7. nth(v) = Cardinality(V) /\ nth(w) = Cardinality(W) /\ nth(v) \in Nat /\ nth(w) \in Nat
      BY <1>8
    <2> QED
      BY <2>6, <2>7
  <1> HIDE DEF nth, left
  \* What a free process takes is left, and no other takes it.
  <1>10. ASSUME NEW v \in Vpid, takes(v)
         PROVE  /\ InOrder(left)[nth(v)] \in left /\ r[v] = <<g, InOrder(left)[nth(v)]>>
                /\ nth(v) \in 1..Cardinality(left)
    <2>1. nth(v) \in 1..Cardinality(left)
      BY <1>4, <1>8, <1>10
    <2> QED
      BY <2>1, <1>1, <1>4, <1>10
  <1>11. ASSUME NEW v \in Vpid, NEW w \in Vpid, takes(v), takes(w), v # w PROVE r[v] # r[w]
    <2>1. v < w \/ w < v
      BY <1>0, <1>11 DEF Vpid
    <2>2. nth(v) < nth(w) \/ nth(w) < nth(v)
      BY <2>1, <1>9, <1>11
    <2>3. nth(v) \in DOMAIN InOrder(left) /\ nth(w) \in DOMAIN InOrder(left)
      BY <1>4, <1>10, <1>11
    <2>4. \/ InOrder(left)[nth(v)] < InOrder(left)[nth(w)]
          \/ InOrder(left)[nth(w)] < InOrder(left)[nth(v)]
      BY <2>2, <2>3, <1>4 DEF Rises
    <2>5. InOrder(left)[nth(v)] \in Nat /\ InOrder(left)[nth(w)] \in Nat
      <3>1. InOrder(left)[nth(v)] \in left /\ InOrder(left)[nth(w)] \in left
        BY <1>10, <1>11
      <3>2. left \subseteq Nat
        BY <1>3
      <3> QED
        BY <3>1, <3>2
    <2>6. InOrder(left)[nth(v)] # InOrder(left)[nth(w)]
      BY <2>4, <2>5
    <2> QED
      BY <2>6, <1>10, <1>11
  <1>12. ASSUME NEW v \in Vpid, NEW w \in Vpid, takes(v), ~takes(w) PROVE r[v] # r[w]
    <2>1. r[w] = kept[w]
      BY <1>1, <1>12
    <2>2. InOrder(left)[nth(v)] \in left /\ r[v] = <<g, InOrder(left)[nth(v)]>>
      BY <1>10, <1>12
    <2>3. kept[w] # <<g, InOrder(left)[nth(v)]>>
      <3> HIDE DEF kept
      <3> QED
        BY <2>2 DEF left, Left
    <2> QED
      BY <2>1, <2>2, <2>3
  <1>13. ASSUME NEW v \in Vpid, ~takes(v) PROVE r[v] = kept[v]
    BY <1>1, <1>13
  <1> HIDE DEF kept
  <1>14. r \in [Vpid -> Slot]
    <2>1. ASSUME NEW v \in Vpid PROVE r[v] \in Slot
      <3>1. CASE takes(v)
        <4>1. InOrder(left)[nth(v)] \in QueuesOf[g]
          BY <1>3, <1>10, <3>1
        <4> QED
          BY <4>1, <1>10, <3>1 DEF Slot, Slots
      <3>2. CASE ~takes(v)
        BY <3>2, <1>13, <1>7
      <3> QED
        BY <3>1, <3>2
    <2>2. DOMAIN r = Vpid /\ r = [v \in Vpid |-> r[v]]
      BY <1>1
    <2> QED
      BY <2>1, <2>2
  <1>15. Distinct(r)
    <2> SUFFICES ASSUME NEW v \in Vpid, NEW w \in Vpid, r[v] # NoQueue, r[v] = r[w], v # w
                 PROVE  FALSE
      BY DEF Distinct
    <2>1. ~takes(v) /\ ~takes(w)
      BY <1>11, <1>12
    <2>2. r[v] = s[v] /\ r[w] = s[w]
      BY <2>1, <1>13, <1>5
    <2> QED
      BY <2>2 DEF Distinct
  <1>16. ASSUME NEW v \in Vpid, r[v][1] = g PROVE r[v][2] \in pending
    <2>1. CASE takes(v)
      <3> DEFINE q == InOrder(left)[nth(v)]
      <3>1. q \in left /\ r[v] = <<g, q>>
        BY <1>10, <2>1
      <3> HIDE DEF q
      <3>2. r[v][2] \in left
        BY <3>1
      <3> QED
        BY <3>2, <1>3
    <2>2. CASE ~takes(v)
      <3>1. r[v] = kept[v] /\ kept[v][1] = g
        BY <2>2, <1>13, <1>16
      <3>2. kept[v] = s[v] /\ s[v][2] \in pending
        BY <3>1, <1>6
      <3> QED
        BY <3>1, <3>2
    <2> QED
      BY <2>1, <2>2
  <1>17. ASSUME NEW v \in Vpid PROVE r[v] = s[v] \/ r[v][1] \in {0, g}
    <2>1. CASE takes(v)
      BY <1>10, <2>1
    <2>2. CASE ~takes(v)
      BY <2>2, <1>5, <1>6, <1>13
    <2> QED
      BY <2>1, <2>2
  <1> QED
    BY <1>14, <1>15, <1>16, <1>17

\* Pending queues of some groups, as Sync collects them.
ArePending(pendingOf) ==
    /\ DOMAIN pendingOf \subseteq Group
    /\ \A g \in DOMAIN pendingOf : pendingOf[g] \subseteq QueuesOf[g]

Round(s, g, pendingOf) ==
    IF g \in DOMAIN pendingOf THEN DistributeGroup(s, g, pendingOf[g]) ELSE s

\* The rounds of DistubePendingQueues.
Rounds(f, s, pendingOf) ==
    f = [g \in 0..NGroup |-> IF g = 0 THEN s ELSE Round(f[g - 1], g, pendingOf)]

LEMMA RoundsExist ==
  ASSUME NEW s \in [Vpid -> Slot], Distinct(s), NEW pendingOf, ArePending(pendingOf)
  PROVE  \E f : Rounds(f, s, pendingOf)
  <1> DEFINE S == {t \in [Vpid -> Slot] : Distinct(t)}
             step == [g \in 1..NGroup |-> [t \in S |-> Round(t, g, pendingOf)]]
  <1>0. NGroup \in Nat
    BY ShareAssumption
  <1>1. ASSUME NEW g \in 1..NGroup, NEW t \in S PROVE Round(t, g, pendingOf) \in S
    <2>1. CASE g \in DOMAIN pendingOf
      <3>1. g \in Group /\ pendingOf[g] \in SUBSET QueuesOf[g]
        BY <2>1 DEF ArePending
      <3>2. DistributeGroup(t, g, pendingOf[g]) \in S
        BY <3>1, RoundShares
      <3> QED
        BY <2>1, <3>2 DEF Round
    <2>2. CASE g \notin DOMAIN pendingOf
      BY <2>2 DEF Round
    <2> QED
      BY <2>1, <2>2
  <1>2. s \in S
    OBVIOUS
  <1> HIDE DEF S
  <1>3. \A g \in 1..NGroup : step[g] \in [S -> S]
    BY <1>1
  <1>4. \A g \in 1..NGroup : \A t \in S : step[g][t] = Round(t, g, pendingOf)
    OBVIOUS
  <1> HIDE DEF step
  <1>5. PICK f \in [0..NGroup -> S] : Iterates(f, NGroup, s, step)
    BY <1>0, <1>2, <1>3, IterationExists
  <1>6. \A g \in 1..NGroup : step[g][f[g - 1]] = Round(f[g - 1], g, pendingOf)
    <2> SUFFICES ASSUME NEW g \in 1..NGroup PROVE step[g][f[g - 1]] = Round(f[g - 1], g, pendingOf)
      OBVIOUS
    <2>1. f[g - 1] \in S
      BY <1>0, <1>5
    <2> QED
      BY <2>1, <1>4
  <1>7. Rounds(f, s, pendingOf)
    BY <1>0, <1>5, <1>6 DEF Iterates, Rounds
  <1> QED
    BY <1>7

\* After all rounds, the slots of the groups that were shared out anew hold
\* pending queues and those of the others what they held.
LEMMA DistributeShares ==
  ASSUME NEW s \in [Vpid -> Slot], Distinct(s), NEW pendingOf, ArePending(pendingOf),
         NEW r, r = Distribute(s, pendingOf)
  PROVE  /\ r \in [Vpid -> Slot] /\ Distinct(r)
         /\ \A v \in Vpid, k \in Group : r[v][1] = k =>
               IF k \in DOMAIN pendingOf THEN r[v][2] \in pendingOf[k] ELSE r[v] = s[v]
  <1> DEFINE f == CHOOSE x : Rounds(x, s, pendingOf)
  <1>0. NGroup \in Nat /\ Group = 1..NGroup
    BY ShareAssumption DEF Group
  <1>1. Rounds(f, s, pendingOf)
    BY RoundsExist
  <1>2. r = f[NGroup]
    BY DEF Distribute, Rounds, Round
  <1> HIDE DEF f
  <1> DEFINE Good(n) ==
               /\ f[n] \in [Vpid -> Slot] /\ Distinct(f[n])
               /\ \A v \in Vpid, k \in Group : f[n][v][1] = k =>
                     IF k \in DOMAIN pendingOf /\ k <= n
                     THEN f[n][v][2] \in pendingOf[k] ELSE f[n][v] = s[v]
             P == {n \in Nat : n <= NGroup => Good(n)}
  <1>3. 0 \in P
    <2>1. f[0] = s
      BY <1>0, <1>1 DEF Rounds
    <2>2. \A k \in Group : ~(k <= 0)
      BY <1>0
    <2>3. Good(0)
      BY <2>1, <2>2
    <2> QED
      BY <2>3
  <1>4. ASSUME NEW n \in P PROVE n + 1 \in P
    <2> SUFFICES ASSUME n + 1 <= NGroup PROVE Good(n + 1)
      OBVIOUS
    <2>0. n \in Nat /\ n <= NGroup /\ n + 1 \in Group /\ n + 1 \in 0..NGroup /\ n + 1 # 0 /\ (n + 1) - 1 = n
      BY <1>0
    <2>1. Good(n)
      BY <2>0
    <2>2. f[n + 1] = Round(f[n], n + 1, pendingOf)
      BY <1>1, <2>0 DEF Rounds
    <2>3. CASE n + 1 \in DOMAIN pendingOf
      <3>1. pendingOf[n + 1] \in SUBSET QueuesOf[n + 1]
        BY <2>3 DEF ArePending
      <3>2. f[n + 1] = DistributeGroup(f[n], n + 1, pendingOf[n + 1])
        BY <2>2, <2>3 DEF Round
      <3>3. f[n] \in [Vpid -> Slot] /\ Distinct(f[n])
        BY <2>1
      <3>4. /\ f[n + 1] \in [Vpid -> Slot] /\ Distinct(f[n + 1])
            /\ \A v \in Vpid : f[n + 1][v][1] = n + 1 => f[n + 1][v][2] \in pendingOf[n + 1]
            /\ \A v \in Vpid : f[n + 1][v] = f[n][v] \/ f[n + 1][v][1] \in {0, n + 1}
        <4> DEFINE a == f[n]
                   b == f[n + 1]
                   m == n + 1
                   w == pendingOf[n + 1]
        <4>1. a \in [Vpid -> Slot] /\ Distinct(a) /\ m \in Group /\ w \in SUBSET QueuesOf[m]
              /\ b = DistributeGroup(a, m, w)
          BY <2>0, <3>1, <3>2, <3>3
        <4> HIDE DEF a, b, m, w
        <4>2. /\ b \in [Vpid -> Slot] /\ Distinct(b)
              /\ \A v \in Vpid : b[v][1] = m => b[v][2] \in w
              /\ \A v \in Vpid : b[v] = a[v] \/ b[v][1] \in {0, m}
          BY <4>1, RoundShares
        <4> QED
          BY <4>2 DEF a, b, m, w
      <3>5. ASSUME NEW v \in Vpid, NEW k \in Group, f[n + 1][v][1] = k
            PROVE  IF k \in DOMAIN pendingOf /\ k <= n + 1
                   THEN f[n + 1][v][2] \in pendingOf[k] ELSE f[n + 1][v] = s[v]
        <4>1. CASE k = n + 1
          BY <4>1, <3>4, <3>5, <2>0, <2>3
        <4>2. CASE k # n + 1
          <5>1. k \in Nat /\ k # 0 /\ (k <= n + 1 <=> k <= n)
            BY <4>2, <1>0, <2>0
          <5>2. f[n + 1][v] = f[n][v]
            BY <5>1, <4>2, <3>4, <3>5
          <5>3. IF k \in DOMAIN pendingOf /\ k <= n THEN f[n][v][2] \in pendingOf[k] ELSE f[n][v] = s[v]
            BY <2>1, <5>2, <3>5
          <5> QED
            BY <5>1, <5>2, <5>3
        <4> QED
          BY <4>1, <4>2
      <3> QED
        BY <3>4, <3>5
    <2>4. CASE n + 1 \notin DOMAIN pendingOf
      <3>1. f[n + 1] = f[n]
        BY <2>2, <2>4 DEF Round
      <3>2. \A k \in Group : k \in DOMAIN pendingOf => (k <= n + 1 <=> k <= n)
        <4> SUFFICES ASSUME NEW k \in Group, k \in DOMAIN pendingOf PROVE k <= n + 1 <=> k <= n
          OBVIOUS
        <4>1. k # n + 1 /\ k \in Nat
          BY <2>4, <1>0
        <4> QED
          BY <4>1, <2>0
      <3> QED
        BY <3>1, <3>2, <2>1
    <2> QED
      BY <2>3, <2>4
  <1>5. NGroup \in P
    <2> HIDE DEF P
    <2>1. P \in SUBSET Nat
      BY DEF P
    <2> QED
      BY <1>0, <1>3, <1>4, <2>1, NatSetInduction
  <1>6. Good(NGroup)
    BY <1>0, <1>5
  <1>7. \A k \in Group : k <= NGroup
    BY <1>0
  <1> QED
    BY <1>2, <1>6, <1>7

-----------------------------------------------------------------------------
(* The sync processes.                                                     *)

ShareInv == ShareTypeOK /\ SlotsAreDistinct /\ SlotsArePending

LEMMA ConfFacts ==
  ASSUME conf \in DOMAIN Confs
  PROVE  /\ conf \in Nat \ {0} /\ conf <= Len(Confs) /\ Len(Confs) \in Nat
         /\ AreScales(Confs[conf].scale)
         /\ \A h : GroupsOf(h) \subseteq Group
  <1>1. conf \in Nat \ {0} /\ conf <= Len(Confs) /\ Len(Confs) \in Nat
    BY ShareAssumption
  <1>2. AreScales(Confs[conf].scale)
    BY ShareAssumption DEF AreScales
  <1>3. \A h : GroupsOf(h) \subseteq Group
    BY ShareAssumption DEF GroupsOf, Listed
  <1> QED
    BY <1>1, <1>2, <1>3

LEMMA NoScalesAreScales == AreScales(NoScales)
  BY DEF AreScales, NoScales

LEMMA SeenAreScales ==
  ASSUME conf \in DOMAIN Confs, NEW h, NEW g, NEW answer, AreScales(answer)
  PROVE  AreScales(SeenBy(h, g, answer))
  <1>1. AreScales(Confs[conf].scale)
    BY ConfFacts
  <1> DEFINE a == IF g \in Dynamic /\ answer # NoScales THEN answer ELSE Confs[conf].scale
  <1>2. AreScales(a)
    BY <1>1
  <1>3. SeenBy(h, g, answer) = ScalesFor(a, g)
    BY DEF SeenBy
  <1> HIDE DEF a
  <1>4. AreScales(ScalesFor(a, g))
    BY <1>2 DEF AreScales, ScalesFor
  <1> QED
    BY <1>3, <1>4

\* Sync: clear, compare, distribute.
LEMMA SyncKeepsShare ==
  ASSUME ShareInv, NEW h \in Host, NEW answer, AreScales(answer), ApplySync(h, answer),
         UNCHANGED <<conf, up>>
  PROVE  ShareInv'
  <1>0. conf \in DOMAIN Confs /\ GroupsOf(h) \subseteq Group /\ conf \in Nat \ {0} /\ conf <= Len(Confs)
        /\ Len(Confs) \in Nat
    BY ConfFacts DEF ShareInv, ShareTypeOK
  <1>1. PICK seen : /\ seen = [g \in GroupsOf(h) |-> SeenBy(h, g, answer)]
                    /\ \E adjust \in {{g \in DOMAIN seen : DOMAIN seen[g] # {} /\ NeedAdjust(h, g, seen[g])}} :
                       \E pendingOf \in {[g \in adjust |-> Pending(h, seen[g], g)]} :
                         /\ slots' = [slots EXCEPT ![h] =
                               Distribute(ClearInvalid(@, {g \in DOMAIN seen : DOMAIN seen[g] # {}}), pendingOf)]
                         /\ scaleSeen' = [scaleSeen EXCEPT ![h] =
                               [g \in Group |-> IF g \in adjust THEN seen[g] ELSE @[g]]]
                         /\ confSeen' = [confSeen EXCEPT ![h] = conf]
    BY DEF ApplySync
  <1>2. PICK adjust : /\ adjust = {g \in DOMAIN seen : DOMAIN seen[g] # {} /\ NeedAdjust(h, g, seen[g])}
                      /\ \E pendingOf \in {[g \in adjust |-> Pending(h, seen[g], g)]} :
                         /\ slots' = [slots EXCEPT ![h] =
                               Distribute(ClearInvalid(@, {g \in DOMAIN seen : DOMAIN seen[g] # {}}), pendingOf)]
                         /\ scaleSeen' = [scaleSeen EXCEPT ![h] =
                               [g \in Group |-> IF g \in adjust THEN seen[g] ELSE @[g]]]
                         /\ confSeen' = [confSeen EXCEPT ![h] = conf]
    BY <1>1
  <1>3. PICK pendingOf : /\ pendingOf = [g \in adjust |-> Pending(h, seen[g], g)]
                         /\ slots' = [slots EXCEPT ![h] =
                               Distribute(ClearInvalid(@, {g \in DOMAIN seen : DOMAIN seen[g] # {}}), pendingOf)]
                         /\ scaleSeen' = [scaleSeen EXCEPT ![h] =
                               [g \in Group |-> IF g \in adjust THEN seen[g] ELSE @[g]]]
                         /\ confSeen' = [confSeen EXCEPT ![h] = conf]
    BY <1>2
  <1>4. PICK valid : valid = {g \in DOMAIN seen : DOMAIN seen[g] # {}}
    OBVIOUS
  <1>5. PICK old : old = slots[h]
    OBVIOUS
  <1>6. old \in [Vpid -> Slot] /\ Distinct(old)
    BY <1>5 DEF ShareInv, ShareTypeOK, SlotsAreDistinct, Slot
  <1>7. PICK s : s = ClearInvalid(old, valid)
    OBVIOUS
  <1>8. PICK r : r = Distribute(s, pendingOf)
    OBVIOUS
  <1>9. DOMAIN seen \subseteq Group /\ adjust \subseteq valid /\ valid \subseteq Group
    BY <1>0, <1>1, <1>2, <1>4
  <1>10. s \in [Vpid -> Slot] /\ Distinct(s)
         /\ \A v \in Vpid : s[v] = NoQueue \/ (s[v] = old[v] /\ s[v][1] \in valid)
    BY <1>6, <1>7 DEF ClearInvalid, Distinct, Slot
  <1>11. ArePending(pendingOf) /\ DOMAIN pendingOf = adjust
    BY <1>3, <1>9 DEF ArePending, Pending
  <1>12. /\ r \in [Vpid -> Slot] /\ Distinct(r)
         /\ \A v \in Vpid, k \in Group : r[v][1] = k =>
               IF k \in DOMAIN pendingOf THEN r[v][2] \in pendingOf[k] ELSE r[v] = s[v]
    BY <1>8, <1>10, <1>11, DistributeShares
  <1>13. slots' = [slots EXCEPT ![h] = r]
    <2>1. slots' = [slots EXCEPT ![h] =
               Distribute(ClearInvalid(slots[h], {g \in DOMAIN seen : DOMAIN seen[g] # {}}), pendingOf)]
      BY <1>3
    <2> QED
      BY <2>1, <1>4, <1>5, <1>7, <1>8
  <1>14. slots'[h] = r /\ \A k \in Host : k # h => slots'[k] = slots[k]
    BY <1>13 DEF ShareInv, ShareTypeOK
  <1>15. PICK new : new = [g \in Group |-> IF g \in adjust THEN seen[g] ELSE scaleSeen[h][g]]
    OBVIOUS
  <1>16. scaleSeen' = [scaleSeen EXCEPT ![h] = new]
    BY <1>3, <1>15
  <1>17. scaleSeen'[h] = new /\ \A k \in Host : k # h => scaleSeen'[k] = scaleSeen[k]
    BY <1>16 DEF ShareInv, ShareTypeOK
  <1>18. confSeen'[h] = conf /\ \A k \in Host : k # h => confSeen'[k] = confSeen[k]
    BY <1>3 DEF ShareInv, ShareTypeOK
  <1>19. \A g \in DOMAIN seen : AreScales(seen[g])
    BY <1>0, <1>1, SeenAreScales
  <1>20. DOMAIN new = Group /\ \A g \in Group : AreScales(new[g])
    <2>1. \A g \in Group : AreScales(scaleSeen[h][g])
      BY DEF ShareInv, ShareTypeOK
    <2>2. adjust \subseteq DOMAIN seen
      BY <1>2
    <2> QED
      BY <2>1, <2>2, <1>15, <1>19
  <1>21. ShareTypeOK'
    <2>1. slots' \in [Host -> [Vpid -> Slots \cup {NoQueue}]]
      BY <1>13, <1>12 DEF ShareInv, ShareTypeOK, Slot
    <2>2. DOMAIN scaleSeen' = Host
      BY <1>16 DEF ShareInv, ShareTypeOK
    <2>3. ASSUME NEW k \in Host PROVE DOMAIN scaleSeen'[k] = Group /\ \A g \in Group : AreScales(scaleSeen'[k][g])
      BY <1>17, <1>20 DEF ShareInv, ShareTypeOK
    <2>4. confSeen' \in [Host -> 0..Len(Confs)]
      <3>1. conf \in 0..Len(Confs)
        BY <1>0
      <3> QED
        BY <3>1, <1>3 DEF ShareInv, ShareTypeOK
    <2>5. conf' \in DOMAIN Confs /\ up' \subseteq Host
      BY DEF ShareInv, ShareTypeOK
    <2> QED
      BY <2>1, <2>2, <2>3, <2>4, <2>5 DEF ShareTypeOK
  <1>22. SlotsAreDistinct'
    <2>1. ASSUME NEW k \in Host PROVE Distinct(slots'[k])
      BY <1>12, <1>14 DEF ShareInv, SlotsAreDistinct
    <2> QED
      BY <2>1 DEF SlotsAreDistinct
  <1>23. ASSUME NEW v \in Vpid, NEW g \in Group, r[v][1] = g PROVE r[v][2] \in Pending(h, new[g], g)
    <2>1. CASE g \in adjust
      BY <2>1, <1>3, <1>11, <1>12, <1>15, <1>23
    <2>2. CASE g \notin adjust
      <3>1. r[v] = s[v]
        BY <2>2, <1>11, <1>12, <1>23
      <3>2. g # 0
        BY DEF Group
      <3>3. s[v] # NoQueue
        BY <3>1, <3>2, <1>23 DEF NoQueue
      <3>4. s[v] = old[v] /\ g \in valid
        BY <3>1, <3>3, <1>10, <1>23
      <3>5. confSeen[h] = conf /\ seen[g] = scaleSeen[h][g]
        BY <2>2, <3>4, <1>2, <1>4 DEF NeedAdjust
      <3>6. slots[h][v][2] \in Pending(h, scaleSeen[h][g], g)
        BY <3>1, <3>4, <3>5, <1>5, <1>23 DEF ShareInv, SlotsArePending
      <3> QED
        BY <3>1, <3>4, <3>6, <2>2, <1>5, <1>15
    <2> QED
      BY <2>1, <2>2
  <1>24. SlotsArePending'
    <2>1. ASSUME NEW k \in Host
          PROVE  /\ confSeen'[k] <= conf
                 /\ confSeen'[k] = conf =>
                      \A v \in Vpid, g \in Group :
                         slots'[k][v][1] = g => slots'[k][v][2] \in Pending(k, scaleSeen'[k][g], g)
      <3>1. CASE k = h
        BY <3>1, <1>0, <1>14, <1>17, <1>18, <1>23
      <3>2. CASE k # h
        BY <3>2, <1>14, <1>17, <1>18 DEF ShareInv, SlotsArePending
      <3> QED
        BY <3>1, <3>2
    <2> QED
      BY <2>1 DEF SlotsArePending
  <1> QED
    BY <1>21, <1>22, <1>24 DEF ShareInv

\* Steps of the scheduler, and of hosts that come up.
LEMMA IdleKeepsShare ==
  ASSUME ShareInv, UNCHANGED <<conf, slots, scaleSeen, confSeen>>, up' \subseteq Host
  PROVE  ShareInv'
  BY DEF ShareInv, ShareTypeOK, SlotsAreDistinct, SlotsArePending

\* A sync process that is started again counts as one that never finished.
LEMMA StartKeepsShare ==
  ASSUME ShareInv, NEW h \in Host, SyncStarts(h), UNCHANGED <<conf, slots>>, up' \subseteq Host
  PROVE  ShareInv'
  <1>0. conf \in Nat \ {0} /\ Len(Confs) \in Nat
    BY ConfFacts DEF ShareInv, ShareTypeOK
  <1>1. scaleSeen'[h] = [g \in Group |-> NoScales] /\ \A k \in Host : k # h => scaleSeen'[k] = scaleSeen[k]
    BY DEF SyncStarts, ShareInv, ShareTypeOK
  <1>2. confSeen'[h] = 0 /\ \A k \in Host : k # h => confSeen'[k] = confSeen[k]
    BY DEF SyncStarts, ShareInv, ShareTypeOK
  <1>3. ShareTypeOK'
    <2>1. DOMAIN scaleSeen' = Host
      BY DEF SyncStarts, ShareInv, ShareTypeOK
    <2>2. ASSUME NEW k \in Host PROVE DOMAIN scaleSeen'[k] = Group /\ \A g \in Group : AreScales(scaleSeen'[k][g])
      BY <1>1, NoScalesAreScales DEF ShareInv, ShareTypeOK
    <2>3. confSeen' \in [Host -> 0..Len(Confs)]
      BY <1>0 DEF SyncStarts, ShareInv, ShareTypeOK
    <2> QED
      BY <2>1, <2>2, <2>3 DEF ShareInv, ShareTypeOK
  <1>4. SlotsAreDistinct'
    BY DEF ShareInv, SlotsAreDistinct
  <1>5. SlotsArePending'
    <2>1. ASSUME NEW k \in Host
          PROVE  /\ confSeen'[k] <= conf
                 /\ confSeen'[k] = conf =>
                      \A v \in Vpid, g \in Group :
                         slots'[k][v][1] = g => slots'[k][v][2] \in Pending(k, scaleSeen'[k][g], g)
      <3>1. CASE k = h
        BY <3>1, <1>0, <1>2
      <3>2. CASE k # h
        BY <3>2, <1>1, <1>2 DEF ShareInv, SlotsArePending
      <3> QED
        BY <3>1, <3>2
    <2> QED
      BY <2>1 DEF SlotsArePending
  <1> QED
    BY <1>3, <1>4, <1>5 DEF ShareInv

\* A new config: no host has applied it.
LEMMA ConfigKeepsShare ==
  ASSUME ShareInv, conf < Len(Confs), conf' = conf + 1, UNCHANGED <<up, slots, scaleSeen, confSeen>>
  PROVE  ShareInv'
  <1>0. conf \in Nat \ {0} /\ conf <= Len(Confs) /\ Len(Confs) \in Nat
    BY ConfFacts DEF ShareInv, ShareTypeOK
  <1>1. conf' \in DOMAIN Confs
    BY <1>0, ShareAssumption
  <1>2. ShareTypeOK' /\ SlotsAreDistinct'
    BY <1>1 DEF ShareInv, ShareTypeOK, SlotsAreDistinct
  <1>3. \A k \in Host : confSeen[k] \in Nat /\ confSeen[k] <= conf
    BY DEF ShareInv, ShareTypeOK, SlotsArePending
  <1>4. \A k \in Host : confSeen'[k] <= conf' /\ confSeen'[k] # conf'
    BY <1>0, <1>3
  <1>5. SlotsArePending'
    BY <1>4 DEF SlotsArePending
  <1> QED
    BY <1>2, <1>5 DEF ShareInv

LEMMA ShareStarts ==
  ASSUME ShareInit
  PROVE  ShareInv
  <1>0. 1 \in DOMAIN Confs /\ Len(Confs) \in Nat
    BY ShareAssumption
  <1>1. ShareTypeOK
    BY <1>0, NoScalesAreScales DEF ShareInit, ShareTypeOK
  <1>2. SlotsAreDistinct
    BY DEF ShareInit, SlotsAreDistinct, Distinct
  <1>3. SlotsArePending
    BY DEF ShareInit, SlotsArePending
  <1> QED
    BY <1>1, <1>2, <1>3 DEF ShareInv

LEMMA PendingSplits ==
  ASSUME ShareInv
  PROVE  SameScalesSplitQueues
  <1> SUFFICES ASSUME NEW h \in Host, NEW g \in Group
               PROVE  LET s == scaleSeen[h][g] IN
                        /\ \A q \in QueuesOf[g] :
                             (\E k \in DOMAIN s : s[k] > 0) =>
                                Cardinality({k \in DOMAIN s : q \in Pending(k, s, g)}) = 1
                        /\ confSeen[h] = conf =>
                             \A v \in Vpid : slots[h][v][1] = g => slots[h][v][2] \in Pending(h, s, g)
    BY DEF SameScalesSplitQueues
  <1>1. PICK s : s = scaleSeen[h][g]
    OBVIOUS
  <1>2. AreScales(s)
    BY <1>1 DEF ShareInv, ShareTypeOK
  <1>3. ASSUME NEW q \in QueuesOf[g], \E k \in DOMAIN s : s[k] > 0
        PROVE  Cardinality({k \in DOMAIN s : q \in Pending(k, s, g)}) = 1
    BY <1>2, <1>3, ScalesSplit
  <1>4. confSeen[h] = conf =>
           \A v \in Vpid : slots[h][v][1] = g => slots[h][v][2] \in Pending(h, s, g)
    BY <1>1 DEF ShareInv, SlotsArePending
  <1> QED
    BY <1>1, <1>3, <1>4

-----------------------------------------------------------------------------
(* The scheduler.                                                          *)

LEMMA SumOverType ==
  ASSUME NEW f \in [Host -> Nat]
  PROVE  SumOver(f) \in Nat
  BY ShareAssumption, SumUpToType DEF SumOver, Host

\* What is known of a host makes scales it has virtual nodes for.
Fits(h, c) ==
    /\ c \in Info
    /\ c.weight <= Len(HostPoint[h])
    /\ c.init <= Len(HostPoint[h])
    /\ (c.init * MaxInitWeightPercent) \div 100 <= Len(HostPoint[h])

InfosFit(infos) == DOMAIN infos \subseteq Host /\ \A h \in DOMAIN infos : Fits(h, infos[h])

LEMMA ResponseAreScales ==
  ASSUME InfosFit(info)
  PROVE  AreScales(Response)
  <1> SUFFICES ASSUME NEW h \in DOMAIN info
               PROVE  h \in Host /\ info[h].weight \in 0..Len(HostPoint[h])
    BY DEF AreScales, Response
  <1>1. h \in Host /\ info[h].weight \in Nat /\ info[h].weight <= Len(HostPoint[h])
    BY DEF InfosFit, Fits, Info
  <1>2. Len(HostPoint[h]) \in Nat
    BY <1>1, ShareAssumption
  <1> QED
    BY <1>1, <1>2

LEMMA ReloadedFit ==
  ASSUME conf \in DOMAIN Confs, NEW infos, InfosFit(infos)
  PROVE  InfosFit(Reloaded(infos))
  <1>1. DOMAIN Reloaded(infos) = Listed /\ Listed \subseteq Host
    BY ShareAssumption DEF Reloaded, Listed
  <1>2. ASSUME NEW h \in Listed PROVE Fits(h, Reloaded(infos)[h])
    <2>1. PICK scale : scale = Confs[conf].scale[h]
      OBVIOUS
    <2>2. /\ h \in Host /\ scale \in 0..Len(HostPoint[h])
          /\ (scale * MaxInitWeightPercent) \div 100 <= Len(HostPoint[h])
      BY <2>1, ShareAssumption, SchedAssumption DEF Listed
    <2>3. Len(HostPoint[h]) \in Nat
      BY <2>2, ShareAssumption
    <2>4. scale \in Nat /\ scale <= Len(HostPoint[h])
      BY <2>2, <2>3
    <2>5. CASE h \in DOMAIN infos
      <3>1. PICK c : c = infos[h]
        OBVIOUS
      <3>2. Fits(h, c)
        BY <2>5, <3>1 DEF InfosFit
      <3>3. Reloaded(infos)[h] = [c EXCEPT !.init = scale]
        BY <2>1, <2>5, <3>1 DEF Reloaded
      <3>4. [c EXCEPT !.init = scale] =
               [weight |-> c.weight, init |-> scale, live |-> c.live, sticky |-> c.sticky]
        BY <3>2 DEF Fits, Info
      <3> QED
        BY <2>2, <2>4, <3>2, <3>3, <3>4 DEF Fits, Info
    <2>6. CASE h \notin DOMAIN infos
      <3>1. Reloaded(infos)[h] = [weight |-> scale, init |-> scale, live |-> FALSE, sticky |-> 0]
        BY <2>1, <2>6 DEF Reloaded, NewInfo
      <3> QED
        BY <2>2, <2>4, <3>1 DEF Fits, Info
    <2> QED
      BY <2>5, <2>6
  <1> QED
    BY <1>1, <1>2 DEF InfosFit

LEMMA NoInfosFit == InfosFit(<< >>)
  BY DEF InfosFit

LEMMA MeanLoadType ==
  ASSUME InfosFit(info), Live # {}
  PROVE  MeanLoad \in Nat
  <1>1. Live \subseteq Host
    BY DEF Live, InfosFit
  <1>2. IsFiniteSet(Live)
    <2>1. IsFiniteSet(1..NHost)
      BY ShareAssumption, FS_Interval
    <2> QED
      BY <1>1, <2>1, FS_Subset DEF Host
  <1>3. Cardinality(Live) \in Nat \ {0}
    BY <1>2, FS_CardinalityType, FS_EmptySet
  <1> DEFINE f == [h \in Host |-> IF h \in Live THEN info[h].sticky ELSE 0]
  <1>4. f \in [Host -> Nat]
    BY DEF Live, InfosFit, Fits, Info
  <1>5. SumLoad \in Nat
    <2>1. SumLoad = SumOver(f)
      BY DEF SumLoad
    <2> HIDE DEF f
    <2> QED
      BY <2>1, <1>4, SumOverType
  <1> QED
    BY <1>3, <1>5, QuotientType DEF MeanLoad

\* The weight of a live host is at most its share of the cap.
LEMMA PreviewFits ==
  ASSUME InfosFit(info), Live # {}, NEW h \in DOMAIN info
  PROVE  Preview(h) \in Nat /\ Preview(h) <= Len(HostPoint[h])
  <1>1. PICK c : c = info[h]
    OBVIOUS
  <1>2. Fits(h, c) /\ h \in Host
    BY <1>1 DEF InfosFit
  <1>3. c.init \in Nat /\ c.sticky \in Nat /\ c.init <= Len(HostPoint[h])
    BY <1>2 DEF Fits, Info
  <1>4. Len(HostPoint[h]) \in Nat
    BY <1>2, ShareAssumption
  <1>5. NextConsumerWeight(h) \in Nat /\ NextConsumerWeight(h) <= Len(HostPoint[h])
    <2>1. CASE c.sticky <= 0
      BY <2>1, <1>1, <1>4 DEF NextConsumerWeight
    <2>2. CASE ~(c.sticky <= 0)
      <3> DEFINE cap == (c.init * MaxInitWeightPercent) \div 100
                 w == (c.init * MeanLoad) \div c.sticky
      <3>1. cap \in Nat
        <4>1. c.init * MaxInitWeightPercent \in Nat
          BY <1>3, SchedAssumption, ProductType
        <4>2. 100 \in Nat \ {0}
          OBVIOUS
        <4> QED
          BY <4>1, <4>2, QuotientType
      <3>2. w \in Nat
        <4>1. c.init * MeanLoad \in Nat
          BY <1>3, MeanLoadType, ProductType
        <4>2. c.sticky \in Nat \ {0}
          BY <2>2, <1>3
        <4> QED
          BY <4>1, <4>2, QuotientType
      <3>3. cap <= Len(HostPoint[h])
        BY <1>2 DEF Fits
      <3>4. NextConsumerWeight(h) = Min({cap, w})
        BY <2>2, <1>1 DEF NextConsumerWeight
      <3> HIDE DEF cap, w
      <3>5. Min({cap, w}) \in {cap, w} /\ Min({cap, w}) <= cap
        <4>1. \E x \in {cap, w} : \A y \in {cap, w} : x <= y
          BY <3>1, <3>2
        <4> QED
          BY <4>1 DEF Min
      <3> QED
        BY <3>1, <3>2, <3>3, <3>4, <3>5, <1>4
    <2> QED
      BY <2>1, <2>2
  <1> HIDE DEF NextConsumerWeight
  <1> QED
    BY <1>1, <1>3, <1>4, <1>5 DEF Preview

-----------------------------------------------------------------------------
(* The steps of the scheduler and of the hosts.                            *)

RestOK ==
    /\ useInit \in BOOLEAN /\ mastering \in BOOLEAN /\ warm \in BOOLEAN
    /\ modified \in BOOLEAN
    /\ seenConf \in 0..Len(Confs)
    /\ report \in [Host -> {"none", "fresh", "old"}]
    /\ lb \in {"start", "sleep", "live", "adjust"}
    /\ dying \subseteq Host /\ waking \subseteq Host
    /\ faults \in 0..MaxFaults
    /\ suspect \subseteq Host

Steady == ShareInv /\ InfosFit(info) /\ RestOK

LEMMA SchedStarts == SchedInit => Steady
  <1> SUFFICES ASSUME SchedInit PROVE Steady
    OBVIOUS
  <1>1. ShareInv
    BY ShareStarts DEF SchedInit
  <1>2. InfosFit(info)
    BY <1>1, ReloadedFit, NoInfosFit DEF SchedInit, ShareInv, ShareTypeOK
  <1>3. RestOK
    <2>1. 1 \in 0..Len(Confs) /\ 0 \in 0..MaxFaults
      BY ShareAssumption, SchedAssumption
    <2>2. Host \ Listed \subseteq Host
      OBVIOUS
    <2> QED
      BY <2>1, <2>2 DEF SchedInit, RestOK
  <1> QED
    BY <1>1, <1>2, <1>3 DEF Steady

LEMMA GetAddrScaleKeeps ==
  ASSUME Steady, NEW h \in Host, NEW load \in Loads, GetAddrScale(h, load)
  PROVE  Steady'
  <1>1. ShareInv'
    <2>1. AreScales(Response)
      BY ResponseAreScales DEF Steady
    <2> QED
      BY <2>1, SyncKeepsShare DEF Steady, GetAddrScale
  <1>2. InfosFit(info')
    <2>1. PICK c : c = info[h]
      OBVIOUS
    <2>2. Fits(h, c) /\ h \in DOMAIN info
      BY <2>1 DEF Steady, InfosFit, GetAddrScale
    <2>3. PICK x : x = StickyAfter(c.sticky, load)
      OBVIOUS
    <2>4. x \in Nat
      <3>1. c.sticky \in Nat /\ load \in Nat
        BY <2>2, SchedAssumption DEF Fits, Info
      <3> QED
        BY <3>1, <2>3 DEF StickyAfter
    <2>5. info' = [info EXCEPT ![h] = [c EXCEPT !.sticky = x]]
      BY <2>1, <2>3 DEF GetAddrScale
    <2>6. [c EXCEPT !.sticky = x] = [weight |-> c.weight, init |-> c.init, live |-> c.live, sticky |-> x]
      BY <2>2 DEF Fits, Info
    <2>7. PICK d : d = [weight |-> c.weight, init |-> c.init, live |-> c.live, sticky |-> x]
      OBVIOUS
    <2>8. Fits(h, d)
      BY <2>2, <2>4, <2>7 DEF Fits, Info
    <2>9. info' = [info EXCEPT ![h] = d]
      BY <2>5, <2>6, <2>7
    <2> QED
      BY <2>8, <2>9 DEF Steady, InfosFit
  <1>3. RestOK'
    BY DEF Steady, RestOK, GetAddrScale, fixed, round
  <1> QED
    BY <1>1, <1>2, <1>3 DEF Steady

LEMMA SyncUnansweredKeeps ==
  ASSUME ShareInv, NEW h \in Host, SyncUnanswered(h), UNCHANGED <<conf, up>>
  PROVE  ShareInv'
  <1>1. CASE confSeen[h] = 0
    BY <1>1, NoScalesAreScales, SyncKeepsShare DEF SyncUnanswered
  <1>2. CASE confSeen[h] # 0
    BY <1>2, IdleKeepsShare DEF SyncUnanswered, ShareInv, ShareTypeOK
  <1> QED
    BY <1>1, <1>2

LEMMA GetAddrScaleFailsKeeps ==
  ASSUME Steady, NEW h \in Host, GetAddrScaleFails(h)
  PROVE  Steady'
  <1>1. ShareInv'
    BY SyncUnansweredKeeps DEF Steady, GetAddrScaleFails
  <1>2. InfosFit(info')
    BY DEF Steady, GetAddrScaleFails
  <1>3. RestOK'
    <2>1. report' \in [Host -> {"none", "fresh", "old"}]
      BY DEF Steady, RestOK, GetAddrScaleFails
    <2>2. faults' \in 0..MaxFaults
      BY SchedAssumption DEF Steady, RestOK, GetAddrScaleFails
    <2> QED
      BY <2>1, <2>2 DEF Steady, RestOK, GetAddrScaleFails, fixed, round
  <1> QED
    BY <1>1, <1>2, <1>3 DEF Steady

LEMMA SyncAloneKeeps ==
  ASSUME Steady, NEW h \in Host, SyncAlone(h)
  PROVE  Steady'
  <1>1. ShareInv'
    <2>1. CASE h \in Listed
      BY <2>1, NoScalesAreScales, SyncKeepsShare DEF Steady, SyncAlone
    <2>2. CASE h \notin Listed
      BY <2>2, IdleKeepsShare DEF Steady, SyncAlone, ShareInv, ShareTypeOK
    <2> QED
      BY <2>1, <2>2
  <1>2. InfosFit(info')
    BY DEF Steady, SyncAlone
  <1>3. RestOK'
    BY DEF Steady, RestOK, SyncAlone, fixed, round
  <1> QED
    BY <1>1, <1>2, <1>3 DEF Steady

LEMMA SchedulerShares ==
  ASSUME ShareInv, UNCHANGED shareVars
  PROVE  ShareInv'
  BY IdleKeepsShare DEF shareVars, ShareInv, ShareTypeOK

LEMMA HostStepKeeps ==
  ASSUME Steady, NEW h \in Host, HostSync(h) \/ ReportAges(h) \/ HostDown(h) \/ HostUp(h)
  PROVE  Steady'
  <1>1. CASE HostSync(h)
    BY <1>1, GetAddrScaleKeeps, GetAddrScaleFailsKeeps, SyncAloneKeeps DEF HostSync
  <1>2. CASE ReportAges(h)
    <2>1. ShareInv'
      BY <1>2, SchedulerShares DEF Steady, ReportAges
    <2>2. InfosFit(info') /\ RestOK'
      BY <1>2 DEF Steady, RestOK, ReportAges, fixed, round
    <2> QED
      BY <2>1, <2>2 DEF Steady
  <1>3. CASE HostDown(h)
    <2>1. ShareInv'
      <3>1. up' \subseteq Host
        BY <1>3 DEF Steady, ShareInv, ShareTypeOK, HostDown
      <3> QED
        BY <1>3, <3>1, StartKeepsShare DEF Steady, HostDown
    <2>2. InfosFit(info')
      BY <1>3 DEF Steady, HostDown
    <2>3. RestOK'
      BY <1>3, SchedAssumption DEF Steady, RestOK, HostDown, Fault, fixed, round
    <2> QED
      BY <2>1, <2>2, <2>3 DEF Steady
  <1>4. CASE HostUp(h)
    <2>1. ShareInv'
      <3>1. up' \subseteq Host
        BY <1>4 DEF Steady, ShareInv, ShareTypeOK, HostUp
      <3> QED
        BY <1>4, <3>1, IdleKeepsShare DEF Steady, HostUp
    <2>2. InfosFit(info') /\ RestOK'
      BY <1>4 DEF Steady, RestOK, HostUp, fixed, round
    <2> QED
      BY <2>1, <2>2 DEF Steady
  <1> QED
    BY <1>1, <1>2, <1>3, <1>4

LEMMA UpdateLiveKeeps ==
  ASSUME Steady, UpdateLive
  PROVE  Steady'
  <1>1. ShareInv'
    BY SchedulerShares DEF Steady, UpdateLive
  <1>2. InfosFit(info')
    <2>1. DOMAIN info' = DOMAIN info /\ DOMAIN info \subseteq Host
      BY DEF Steady, InfosFit, UpdateLive
    <2>2. ASSUME NEW h \in DOMAIN info PROVE Fits(h, info'[h])
      <3>1. PICK c : c = info[h]
        OBVIOUS
      <3>2. Fits(h, c) /\ Len(HostPoint[h]) \in Nat
        BY <3>1, ShareAssumption DEF Steady, InfosFit
      <3>3. CASE h \in dying
        <4>1. info'[h] = Dead(c)
          BY <3>1, <3>3 DEF UpdateLive
        <4>2. Dead(c) = [weight |-> 0, init |-> c.init, live |-> FALSE, sticky |-> 0]
          BY DEF Dead
        <4> QED
          BY <3>2, <4>1, <4>2 DEF Fits, Info
      <3>4. CASE h \notin dying
        <4>1. PICK b \in BOOLEAN : b = (c.live \/ h \in waking)
          OBVIOUS
        <4>2. info'[h] = [c EXCEPT !.live = b]
          BY <3>1, <3>4, <4>1 DEF UpdateLive
        <4>3. [c EXCEPT !.live = b] = [weight |-> c.weight, init |-> c.init, live |-> b, sticky |-> c.sticky]
          BY <3>2 DEF Fits, Info
        <4> QED
          BY <3>2, <4>1, <4>2, <4>3 DEF Fits, Info
      <3> QED
        BY <3>3, <3>4
    <2> QED
      BY <2>1, <2>2 DEF InfosFit
  <1>3. RestOK'
    BY DEF Steady, RestOK, UpdateLive, fixed
  <1> QED
    BY <1>1, <1>2, <1>3 DEF Steady

LEMMA AdjustScaleKeeps ==
  ASSUME Steady, AdjustScale
  PROVE  Steady'
  <1>1. ShareInv'
    BY SchedulerShares DEF Steady, AdjustScale
  <1>2. InfosFit(info')
    <2>1. CASE info' = info
      BY <2>1 DEF Steady
    <2>2. CASE Live # {} /\ info' = [h \in DOMAIN info |-> [info[h] EXCEPT !.weight = Preview(h)]]
      <3>1. DOMAIN info' = DOMAIN info /\ DOMAIN info \subseteq Host
        BY <2>2 DEF Steady, InfosFit
      <3>2. ASSUME NEW h \in DOMAIN info PROVE Fits(h, info'[h])
        <4>1. PICK c : c = info[h]
          OBVIOUS
        <4>2. Fits(h, c)
          BY <4>1 DEF Steady, InfosFit
        <4>3. PICK w : w = Preview(h)
          OBVIOUS
        <4>4. w \in Nat /\ w <= Len(HostPoint[h])
          BY <2>2, <4>3, PreviewFits DEF Steady
        <4>5. info'[h] = [c EXCEPT !.weight = w]
          BY <2>2, <4>1, <4>3
        <4>6. [c EXCEPT !.weight = w] = [weight |-> w, init |-> c.init, live |-> c.live, sticky |-> c.sticky]
          BY <4>2 DEF Fits, Info
        <4> QED
          BY <4>2, <4>4, <4>5, <4>6 DEF Fits, Info
      <3> QED
        BY <3>1, <3>2 DEF InfosFit
    <2> QED
      BY <2>1, <2>2 DEF AdjustScale
  <1>3. RestOK'
    BY DEF Steady, RestOK, AdjustScale, fixed
  <1> QED
    BY <1>1, <1>2, <1>3 DEF Steady

LEMMA WakeKeeps ==
  ASSUME Steady, WakeLoadBalance
  PROVE  Steady'
  <1>0. conf \in DOMAIN Confs /\ conf \in 0..Len(Confs)
    BY ConfFacts DEF Steady, ShareInv, ShareTypeOK
  <1>1. ShareInv'
    BY SchedulerShares DEF Steady, WakeLoadBalance
  <1>2. InfosFit(info')
    <2>1. InfosFit(Reloaded(info)) /\ InfosFit(info)
      BY <1>0, ReloadedFit DEF Steady
    <2> QED
      BY <2>1 DEF WakeLoadBalance
  <1>3. RestOK'
    <2>1. report' \in [Host -> {"none", "fresh", "old"}]
      BY DEF Steady, RestOK, WakeLoadBalance
    <2>2. dying' \subseteq Host /\ waking' \subseteq Host
      BY <1>2 DEF Steady, RestOK, WakeLoadBalance, InfosFit
    <2>3. lb' \in {"start", "sleep", "live", "adjust"}
      BY DEF WakeLoadBalance
    <2>4. modified' \in BOOLEAN
      BY DEF Steady, RestOK, WakeLoadBalance
    <2>5. seenConf' \in 0..Len(Confs)
      BY <1>0 DEF WakeLoadBalance
    <2> QED
      BY <2>1, <2>2, <2>3, <2>4, <2>5 DEF Steady, RestOK, WakeLoadBalance
  <1> QED
    BY <1>1, <1>2, <1>3 DEF Steady

LEMMA SchedStepKeeps ==
  ASSUME Steady, [SchedNext]_schedVars
  PROVE  Steady'
  <1>1. ASSUME NEW h \in Host, HostSync(h) \/ ReportAges(h) \/ HostDown(h) \/ HostUp(h)
        PROVE  Steady'
    BY <1>1, HostStepKeeps
  <1>2. CASE WarmUp
    <2>1. ShareInv'
      BY <1>2, SchedulerShares DEF Steady, WarmUp
    <2> QED
      BY <1>2, <2>1 DEF Steady, RestOK, WarmUp, round
  <1>3. CASE WakeLoadBalance
    BY <1>3, WakeKeeps
  <1>4. CASE UpdateLive
    BY <1>4, UpdateLiveKeeps
  <1>5. CASE AdjustScale
    BY <1>5, AdjustScaleKeeps
  <1>6. CASE NewConfig
    <2>1. ShareInv'
      BY <1>6, ConfigKeepsShare DEF Steady, NewConfig
    <2> QED
      BY <1>6, <2>1 DEF Steady, RestOK, NewConfig, fixed, round
  <1>7. CASE LoseMaster
    <2>1. ShareInv'
      BY <1>7, SchedulerShares DEF Steady, LoseMaster
    <2>2. faults' \in 0..MaxFaults
      BY <1>7, SchedAssumption DEF Steady, RestOK, LoseMaster, Fault
    <2> QED
      BY <1>7, <2>1, <2>2 DEF Steady, RestOK, LoseMaster, fixed, round
  <1>8. CASE TakeMaster
    <2>1. ShareInv'
      BY <1>8, SchedulerShares DEF Steady, TakeMaster
    <2> QED
      BY <1>8, <2>1 DEF Steady, RestOK, TakeMaster, fixed, round
  <1>9. CASE RestartSched
    <2>0. conf \in DOMAIN Confs /\ conf \in 0..Len(Confs)
      BY ConfFacts DEF Steady, ShareInv, ShareTypeOK
    <2>1. ShareInv'
      BY <1>9, SchedulerShares DEF Steady, RestartSched
    <2>2. InfosFit(info')
      BY <1>9, <2>0, ReloadedFit, NoInfosFit DEF RestartSched
    <2>3. faults' \in 0..MaxFaults
      BY <1>9, SchedAssumption DEF Steady, RestOK, RestartSched, Fault
    <2>4. RestOK'
      BY <1>9, <2>0, <2>3 DEF Steady, RestOK, RestartSched
    <2> QED
      BY <2>1, <2>2, <2>4 DEF Steady
  <1>10. CASE UNCHANGED schedVars
    <2>1. ShareInv'
      BY <1>10, SchedulerShares DEF Steady, schedVars
    <2> QED
      BY <1>10, <2>1 DEF Steady, RestOK, schedVars
  <1> QED
    BY <1>1, <1>2, <1>3, <1>4, <1>5, <1>6, <1>7, <1>8, <1>9, <1>10 DEF SchedNext, LoadBalanceStep

LEMMA SteadyAlways == SchedSpec => []Steady
  <1>1. SchedInit => Steady
    BY SchedStarts
  <1>2. Steady /\ [SchedNext]_schedVars => Steady'
    BY SchedStepKeeps
  <1> QED
    BY <1>1, <1>2, PTL DEF SchedSpec

-----------------------------------------------------------------------------
\* The scheduler and its hosts keep SchedInv: the scales that GetAddrScale
\* answers are ones the hosts have virtual nodes for, and the slots are those
\* of the scales that were seen last.
THEOREM ScalesAreUsable == SchedSpec => []SchedInv
  <1>1. Steady => SchedInv
    BY DEF Steady, ShareInv, RestOK, InfosFit, Fits, SchedInv, SchedTypeOK, WeightsFit
  <1> QED
    BY <1>1, SteadyAlways, PTL

\* No two processes of a host work on the same queue, whatever the scheduler
\* answers, whichever configs follow and however often the sync process starts
\* again on old shared memory (DistubePendingQueues).
THEOREM ProcessesHaveOwnQueues == SchedSpec => []SlotsAreDistinct
  <1>1. Steady => SlotsAreDistinct
    BY DEF Steady, ShareInv
  <1> QED
    BY <1>1, SteadyAlways, PTL

\* Every queue falls to one host of those with the same scales, and the slots
\* of a host that applied the config in force hold no other queues
\* (GetQueueByAddrScale, HeartBeatLock::Sync).
THEOREM HostsSplitQueues == SchedSpec => []SameScalesSplitQueues
  <1>1. Steady => SameScalesSplitQueues
    BY PendingSplits DEF Steady
  <1> QED
    BY <1>1, SteadyAlways, PTL

-----------------------------------------------------------------------------
(* Hosts that are answered keep their weight.                              *)

\* The mean load is no less than the least load of a live host.
LEMMA MeanLoadAtLeast ==
  ASSUME InfosFit(info), Live # {}, NEW k \in Nat, \A h \in Live : k <= info[h].sticky
  PROVE  k <= MeanLoad
  <1> DEFINE f == [h \in Host |-> IF h \in Live THEN info[h].sticky ELSE 0]
  <1>1. f \in [1..NHost -> Nat]
    BY DEF Live, InfosFit, Fits, Info, Host
  <1>2. Live \in SUBSET (1..NHost)
    BY DEF Live, InfosFit, Host
  <1>3. \A h \in Live : k <= f[h]
    BY <1>2 DEF Host
  <1>4. SumLoad = SumUpTo(NHost, f)
    BY DEF SumLoad, SumOver
  <1> HIDE DEF f
  <1>5. NHost \in Nat
    BY ShareAssumption
  <1>6. IsFiniteSet(Live) /\ k * Cardinality(Live) <= SumLoad
    BY <1>1, <1>2, <1>3, <1>4, <1>5, SumAtLeast
  <1>7. Cardinality(Live) \in Nat \ {0}
    BY <1>6, FS_CardinalityType, FS_EmptySet
  <1>8. SumLoad \in Nat
    BY <1>1, <1>4, <1>5, SumUpToType
  <1> QED
    BY <1>6, <1>7, <1>8, QuotientAtLeast DEF MeanLoad

\* The weight of a live host whose initial weight is positive is positive.
LEMMA PreviewIsPositive ==
  ASSUME InfosFit(info), WeightsSuffice, InfoIsOfSeenConf, LiveHaveLoads,
         NEW h \in Live, info[h].init > 0
  PROVE  Preview(h) > 0
  <1> DEFINE init == info[h].init
             load == info[h].sticky
             cap == (init * MaxInitWeightPercent) \div 100
             w == (init * MeanLoad) \div load
  <1>1. h \in DOMAIN info /\ info[h].live /\ init \in Nat \ {0}
    BY DEF Live, InfosFit, Fits, Info
  <1>2. Live # {}
    OBVIOUS
  <1>3. \A k \in Live : info[k].sticky \in Loads
    BY DEF Live, LiveHaveLoads, MayBeLive
  <1>4. Loads \in SUBSET Nat /\ 0 \notin Loads /\ load \in Loads
    BY <1>3, SchedAssumption DEF WeightsSuffice
  <1>5. PICK least \in Loads : \A l \in Loads : least <= l
    BY <1>4, LeastNat
  <1>6. /\ init * MaxInitWeightPercent >= 100
        /\ load <= init * least
    BY <1>1, <1>4, <1>5 DEF InfoIsOfSeenConf, WeightsSuffice
  <1>7. least <= MeanLoad /\ least \in Nat
    BY <1>2, <1>3, <1>4, <1>5, MeanLoadAtLeast
  <1>8. MeanLoad \in Nat
    BY <1>2, MeanLoadType
  <1>9. load \in Nat \ {0}
    BY <1>4
  <1> HIDE DEF init, load
  <1>10. cap \in Nat \ {0}
    <2>1. init * MaxInitWeightPercent \in Nat
      BY <1>1, SchedAssumption, ProductType
    <2> HIDE DEF cap
    <2>2. 1 <= (init * MaxInitWeightPercent) \div 100
      BY <1>6, <2>1
    <2> QED
      BY <2>1, <2>2 DEF cap
  <1>11. w \in Nat \ {0}
    <2>1. init * MeanLoad \in Nat
      BY <1>1, <1>8, ProductType
    <2>2. init * least <= init * MeanLoad
      BY <1>1, <1>7, <1>8, ProductOrder
    <2>3. init * least \in Nat
      BY <1>1, <1>7, ProductType
    <2>4. 1 * load <= init * MeanLoad
      BY <1>6, <1>9, <2>1, <2>2, <2>3
    <2>5. 1 <= (init * MeanLoad) \div load
      BY <1>9, <2>1, <2>4, QuotientAtLeast
    <2>6. (init * MeanLoad) \div load \in Nat
      BY <1>9, <2>1, QuotientType
    <2> QED
      BY <2>5, <2>6
  <1>12. NextConsumerWeight(h) = Min({cap, w})
    BY <1>9 DEF NextConsumerWeight, init, load
  <1> HIDE DEF cap, w
  <1>13. Min({cap, w}) \in {cap, w}
    <2>1. \E x \in {cap, w} : \A y \in {cap, w} : x <= y
      BY <1>10, <1>11
    <2> QED
      BY <2>1 DEF Min
  <1>14. NextConsumerWeight(h) \in Nat \ {0}
    BY <1>10, <1>11, <1>12, <1>13
  <1> HIDE DEF NextConsumerWeight
  <1> QED
    BY <1>1, <1>14 DEF Preview, init

\* A step of a host, of the config or of mastership leaves what the scheduler
\* knows; those it fails to answer, or that stop, are suspect.
LEMMA WeightKept ==
  ASSUME WeightInv,
         UNCHANGED <<info, seenConf, lb, dying, waking, warm>>,
         \A h \in DOMAIN info : report'[h] = "fresh" => report[h] = "fresh",
         suspect \subseteq suspect',
         \A h \in Host \ suspect' : h \in up' /\ h \in Listed' /\ report'[h] = report[h]
  PROVE  WeightInv'
  <1>1. InfoIsOfSeenConf'
    BY DEF WeightInv, InfoIsOfSeenConf
  <1>2. LiveHaveLoads'
    BY DEF WeightInv, LiveHaveLoads, MayBeLive
  <1>3. AnsweredStayLive'
    BY DEF WeightInv, AnsweredStayLive
  <1>4. OthersKeepWeight'
    BY DEF WeightInv, OthersKeepWeight
  <1> QED
    BY <1>1, <1>2, <1>3, <1>4 DEF WeightInv

\* A report of a load.
LEMMA ReportKeepsWeights ==
  ASSUME Steady, WeightsSuffice, WeightInv, NEW h \in Host, NEW load \in Loads,
         GetAddrScale(h, load)
  PROVE  WeightInv'
  <1> DEFINE x == StickyAfter(info[h].sticky, load)
  <1>1. h \in DOMAIN info /\ info[h] \in Info /\ load \in Nat /\ Loads \subseteq Nat
    BY SchedAssumption DEF GetAddrScale, Steady, InfosFit, Fits
  <1>2. x \in Loads
    <2>1. info[h].sticky \in Loads \cup {0}
      BY <1>1 DEF WeightInv, LiveHaveLoads
    <2> QED
      BY <1>1, <2>1 DEF StickyAfter
  <1>3. DOMAIN info' = DOMAIN info /\ \A k \in DOMAIN info :
          /\ info'[k].init = info[k].init /\ info'[k].weight = info[k].weight
          /\ info'[k].live = info[k].live
          /\ info'[k].sticky = IF k = h THEN x ELSE info[k].sticky
    BY <1>1 DEF GetAddrScale, Info, Steady, InfosFit, Fits
  <1>4. report' = [report EXCEPT ![h] = "fresh"] /\ report \in [Host -> {"none", "fresh", "old"}]
    BY DEF GetAddrScale, Steady, RestOK
  <1>5. UNCHANGED <<conf, up, seenConf, lb, dying, waking, warm, suspect>>
    BY DEF GetAddrScale, fixed, round
  <1> HIDE DEF x
  <1>6. InfoIsOfSeenConf'
    BY <1>3, <1>5 DEF WeightInv, InfoIsOfSeenConf
  <1>7. LiveHaveLoads'
    <2>1. ASSUME NEW k \in DOMAIN info
          PROVE  info'[k].sticky \in (IF MayBeLive(k)' THEN Loads ELSE Loads \cup {0})
      <3>1. CASE k = h
        BY <3>1, <1>2, <1>3
      <3>2. CASE k # h
        <4>1. MayBeLive(k)' => MayBeLive(k)
          BY <3>2, <1>3, <1>4, <1>5 DEF MayBeLive
        <4> QED
          BY <3>2, <4>1, <1>3 DEF WeightInv, LiveHaveLoads
      <3> QED
        BY <3>1, <3>2
    <2> QED
      BY <2>1, <1>3, <1>5 DEF WeightInv, LiveHaveLoads
  <1>8. AnsweredStayLive'
    <2>1. Listed' = Listed
      BY <1>5 DEF Listed
    <2> QED
      BY <2>1, <1>3, <1>4, <1>5 DEF WeightInv, AnsweredStayLive
  <1>9. OthersKeepWeight'
    BY <1>3, <1>5 DEF WeightInv, OthersKeepWeight
  <1> QED
    BY <1>6, <1>7, <1>8, <1>9 DEF WeightInv

\* Every running host tried since the thread last slept, those that were always
\* answered with success.
LEMMA WarmUpKeepsWeights ==
  ASSUME Steady, WeightInv, WarmUp
  PROVE  WeightInv'
  <1>1. UNCHANGED <<conf, up, info, seenConf, report, lb, dying, waking, suspect>>
    BY DEF WarmUp, shareVars, round
  <1>2. \A h \in up : report[h] # "none"
    BY DEF WarmUp, ReadyForDynamic, AllTried
  <1>3. AnsweredStayLive'
    <2>1. Listed' = Listed
      BY <1>1 DEF Listed
    <2> QED
      BY <2>1, <1>1, <1>2 DEF WeightInv, AnsweredStayLive, Steady, RestOK
  <1>4. InfoIsOfSeenConf' /\ LiveHaveLoads' /\ OthersKeepWeight'
    BY <1>1 DEF WeightInv, InfoIsOfSeenConf, LiveHaveLoads, MayBeLive, OthersKeepWeight
  <1> QED
    BY <1>3, <1>4 DEF WeightInv

\* What a reload keeps of a host and what it sets.
LEMMA ReloadedFields ==
  ASSUME NEW infos, InfosFit(infos), NEW h \in Listed
  PROVE  /\ DOMAIN Reloaded(infos) = Listed
         /\ Reloaded(infos)[h].init = Confs[conf].scale[h]
         /\ h \in DOMAIN infos =>
              /\ Reloaded(infos)[h].weight = infos[h].weight
              /\ Reloaded(infos)[h].live = infos[h].live
              /\ Reloaded(infos)[h].sticky = infos[h].sticky
         /\ h \notin DOMAIN infos => Reloaded(infos)[h] = NewInfo(Confs[conf].scale[h])
  <1>1. CASE h \in DOMAIN infos
    <2>1. infos[h] \in Info
      BY <1>1 DEF InfosFit, Fits
    <2> QED
      BY <1>1, <2>1 DEF Reloaded, Info
  <1>2. CASE h \notin DOMAIN infos
    BY <1>2 DEF Reloaded, NewInfo
  <1> QED
    BY <1>1, <1>2

\* The thread wakes up, reads the config and compares the times of the reports.
LEMMA WakeKeepsWeights ==
  ASSUME Steady, WeightsSuffice, WeightInv, WakeLoadBalance
  PROVE  WeightInv'
  <1>1. InfosFit(info) /\ conf \in DOMAIN Confs /\ report \in [Host -> {"none", "fresh", "old"}]
    BY DEF Steady, ShareInv, ShareTypeOK, RestOK
  <1>2. UNCHANGED <<conf, up, warm, suspect>> /\ Listed' = Listed /\ seenConf' = conf
    BY DEF WakeLoadBalance, shareVars, Listed
  <1>3. DOMAIN info' = Listed /\ Listed \subseteq Host
    <2>1. CASE conf = seenConf
      BY <2>1, <1>1 DEF WakeLoadBalance, WeightInv, InfoIsOfSeenConf, InfosFit, Listed
    <2>2. CASE conf # seenConf
      BY <2>2, <1>1, ShareAssumption DEF WakeLoadBalance, Reloaded, Listed
    <2> QED
      BY <2>1, <2>2
  <1>4. ASSUME NEW h \in Listed
        PROVE  /\ info'[h].init = Confs[conf].scale[h]
               /\ h \in DOMAIN info =>
                    /\ info'[h].weight = info[h].weight /\ info'[h].live = info[h].live
                    /\ info'[h].sticky = info[h].sticky
               /\ h \notin DOMAIN info => info'[h] = NewInfo(Confs[conf].scale[h])
    <2>1. CASE conf = seenConf
      BY <2>1 DEF WakeLoadBalance, WeightInv, InfoIsOfSeenConf, Listed
    <2>2. CASE conf # seenConf
      <3>1. info' = Reloaded(info)
        BY <2>2 DEF WakeLoadBalance
      <3> QED
        BY <3>1, <1>1, ReloadedFields
    <2> QED
      BY <2>1, <2>2
  <1>5. \A h \in Host : report'[h] = IF h \in DOMAIN info' \ DOMAIN info THEN "old" ELSE report[h]
    BY DEF WakeLoadBalance
  <1>6. /\ lb \in {"start", "sleep"} /\ waking = {}
        /\ lb = "sleep" => \A h \in up : report[h] # "none"
    BY DEF WakeLoadBalance, AllTried, WeightInv, LiveHaveLoads
  <1>7. \/ /\ warm /\ lb' = "live"
           /\ dying' = {h \in DOMAIN info' : info'[h].live /\ report'[h] # "fresh"}
           /\ waking' = {h \in DOMAIN info' : ~info'[h].live /\ report'[h] = "fresh"}
        \/ ~warm /\ lb' = "sleep" /\ UNCHANGED <<dying, waking>>
    BY DEF WakeLoadBalance
  <1>8. InfoIsOfSeenConf'
    BY <1>1, <1>2, <1>3, <1>4 DEF InfoIsOfSeenConf, Listed
  <1>9. LiveHaveLoads'
    <2>1. ASSUME NEW h \in DOMAIN info'
          PROVE  info'[h].sticky \in (IF MayBeLive(h)' THEN Loads ELSE Loads \cup {0})
      <3>1. CASE h \in DOMAIN info
        <4>1. MayBeLive(h)' => MayBeLive(h)
          BY <3>1, <1>3, <1>4, <1>5, <1>6, <1>7 DEF MayBeLive
        <4> QED
          BY <3>1, <4>1, <1>3, <1>4 DEF WeightInv, LiveHaveLoads
      <3>2. CASE h \notin DOMAIN info
        <4>1. info'[h].sticky = 0 /\ ~info'[h].live
          BY <3>2, <1>3, <1>4 DEF NewInfo
        <4>2. report'[h] # "fresh"
          BY <3>2, <1>3, <1>5
        <4> QED
          BY <4>1, <4>2, <1>6, <1>7 DEF MayBeLive
      <3> QED
        BY <3>1, <3>2
    <2>2. (waking \cap dying = {})' /\ (waking # {} => lb = "live")'
      BY <1>6, <1>7
    <2> QED
      BY <2>1, <2>2 DEF LiveHaveLoads
  <1>10. AnsweredStayLive'
    <2> SUFFICES ASSUME NEW h \in Host \ suspect
                 PROVE  /\ h \in up /\ h \in Listed /\ h \notin dying' /\ report'[h] # "old"
                        /\ lb' = "start" /\ warm => report'[h] = "fresh"
                        /\ lb' = "live" => info'[h].live \/ h \in waking'
                        /\ lb' = "adjust" => info'[h].live
      BY <1>2, <1>3 DEF AnsweredStayLive
    <2>1. /\ h \in up /\ h \in Listed /\ h \in DOMAIN info /\ h \notin dying /\ report[h] # "old"
          /\ lb = "start" /\ warm => report[h] = "fresh"
      BY DEF WeightInv, AnsweredStayLive
    <2>2. report'[h] = report[h]
      BY <2>1, <1>5
    <2>3. warm => report[h] = "fresh"
      BY <2>1, <1>1, <1>6
    <2> QED
      BY <2>1, <2>2, <2>3, <1>3, <1>7
  <1>11. OthersKeepWeight'
    <2> SUFFICES ASSUME NEW h \in Listed, h \notin suspect, info'[h].init > 0
                 PROVE  info'[h].weight > 0
      BY <1>2, <1>3 DEF OthersKeepWeight
    <2>1. h \in DOMAIN info
      BY <1>3 DEF WeightInv, AnsweredStayLive
    <2>2. info[h].init > 0
      BY <2>1, <1>1, <1>4 DEF WeightInv, InfoIsOfSeenConf, WeightsSuffice, Listed
    <2> QED
      BY <2>1, <2>2, <1>4 DEF WeightInv, OthersKeepWeight
  <1> QED
    BY <1>8, <1>9, <1>10, <1>11 DEF WeightInv

\* UpdateLive sets who is live; no host that was always answered dies.
LEMMA UpdateLiveKeepsWeights ==
  ASSUME Steady, WeightInv, UpdateLive
  PROVE  WeightInv'
  <1>1. UNCHANGED <<conf, up, warm, suspect, seenConf, report>> /\ Listed' = Listed
    BY DEF UpdateLive, shareVars, fixed, Listed
  <1>2. DOMAIN info' = DOMAIN info /\ lb' = "adjust" /\ dying' = {} /\ waking' = {} /\ lb = "live"
    BY DEF UpdateLive
  <1>3. ASSUME NEW h \in DOMAIN info
        PROVE  /\ info'[h].init = info[h].init
               /\ h \in dying => ~info'[h].live /\ info'[h].sticky = 0
               /\ h \notin dying => /\ info'[h].live = (info[h].live \/ h \in waking)
                                    /\ info'[h].sticky = info[h].sticky
                                    /\ info'[h].weight = info[h].weight
    <2>1. info[h] \in Info
      BY DEF Steady, InfosFit, Fits
    <2>2. CASE h \in dying
      BY <2>2 DEF UpdateLive, Dead
    <2>3. CASE h \notin dying
      BY <2>1, <2>3 DEF UpdateLive, Info
    <2> QED
      BY <2>2, <2>3
  <1>4. InfoIsOfSeenConf'
    BY <1>1, <1>2, <1>3 DEF WeightInv, InfoIsOfSeenConf
  <1>5. LiveHaveLoads'
    <2>1. ASSUME NEW h \in DOMAIN info
          PROVE  info'[h].sticky \in (IF MayBeLive(h)' THEN Loads ELSE Loads \cup {0})
      <3>1. CASE h \in dying
        <4>1. ~MayBeLive(h)'
          BY <3>1, <1>2, <1>3 DEF MayBeLive
        <4> QED
          BY <3>1, <4>1, <1>3
      <3>2. CASE h \notin dying
        <4>1. MayBeLive(h)' => MayBeLive(h)
          BY <3>2, <1>2, <1>3 DEF MayBeLive
        <4> QED
          BY <3>2, <4>1, <1>3 DEF WeightInv, LiveHaveLoads
      <3> QED
        BY <3>1, <3>2
    <2> QED
      BY <2>1, <1>2 DEF LiveHaveLoads
  <1>6. AnsweredStayLive'
    BY <1>1, <1>2, <1>3 DEF WeightInv, AnsweredStayLive
  <1>7. OthersKeepWeight'
    <2> SUFFICES ASSUME NEW h \in DOMAIN info, h \notin suspect, info'[h].init > 0
                 PROVE  info'[h].weight > 0
      BY <1>1, <1>2 DEF OthersKeepWeight
    <2>1. h \notin dying
      BY DEF WeightInv, AnsweredStayLive, Steady, InfosFit
    <2> QED
      BY <2>1, <1>3 DEF WeightInv, OthersKeepWeight
  <1> QED
    BY <1>4, <1>5, <1>6, <1>7 DEF WeightInv

\* AdjustScale gives a positive weight to every live host.
LEMMA AdjustKeepsWeights ==
  ASSUME Steady, WeightsSuffice, WeightInv, AdjustScale
  PROVE  WeightInv'
  <1>1. UNCHANGED <<conf, up, warm, suspect, seenConf, dying, waking>> /\ Listed' = Listed
    BY DEF AdjustScale, shareVars, fixed, Listed
  <1>2. lb = "adjust" /\ lb' = "sleep" /\ report' = [h \in Host |-> "none"]
    BY DEF AdjustScale
  <1>3. \/ info' = info
        \/ info' = [h \in DOMAIN info |-> [info[h] EXCEPT !.weight = Preview(h)]]
    BY DEF AdjustScale
  <1>4. DOMAIN info' = DOMAIN info /\ DOMAIN info \subseteq Host
    BY <1>3 DEF Steady, InfosFit
  <1>5. ASSUME NEW h \in DOMAIN info
        PROVE  /\ info'[h].init = info[h].init /\ info'[h].live = info[h].live
               /\ info'[h].sticky = info[h].sticky
               /\ info'[h].weight \in {info[h].weight, Preview(h)}
    <2>1. info[h] \in Info
      BY DEF Steady, InfosFit, Fits
    <2> QED
      BY <2>1, <1>3 DEF Info
  <1>6. InfoIsOfSeenConf'
    BY <1>1, <1>4, <1>5 DEF WeightInv, InfoIsOfSeenConf
  <1>7. LiveHaveLoads'
    <2>1. ASSUME NEW h \in DOMAIN info
          PROVE  info'[h].sticky \in (IF MayBeLive(h)' THEN Loads ELSE Loads \cup {0})
      <3>1. MayBeLive(h)' => MayBeLive(h)
        BY <1>1, <1>2, <1>4, <1>5 DEF MayBeLive
      <3> QED
        BY <3>1, <1>5 DEF WeightInv, LiveHaveLoads
    <2> QED
      BY <2>1, <1>1, <1>2, <1>4 DEF WeightInv, LiveHaveLoads
  <1>8. AnsweredStayLive'
    BY <1>1, <1>2, <1>4 DEF WeightInv, AnsweredStayLive
  <1>9. OthersKeepWeight'
    <2> SUFFICES ASSUME NEW h \in DOMAIN info, h \notin suspect, info'[h].init > 0
                 PROVE  info'[h].weight > 0
      BY <1>1, <1>4 DEF OthersKeepWeight
    <2>1. h \in Live
      BY <1>2, <1>4 DEF WeightInv, AnsweredStayLive, Live
    <2>2. info[h].weight > 0 /\ info[h].init > 0
      BY <1>5 DEF WeightInv, OthersKeepWeight
    <2>3. Preview(h) > 0
      BY <2>1, <2>2, PreviewIsPositive DEF Steady, WeightInv
    <2> QED
      BY <2>2, <2>3, <1>5
  <1> QED
    BY <1>6, <1>7, <1>8, <1>9 DEF WeightInv

\* A scheduler that starts knows the config only, and gives everybody the scale
\* of the config until it has warmed up.
LEMMA KnownAtStart ==
  ASSUME conf \in DOMAIN Confs
  PROVE  /\ DOMAIN Reloaded(<< >>) = Listed /\ Listed \subseteq Host
         /\ \A h \in Listed : /\ Reloaded(<< >>)[h].weight = Confs[conf].scale[h]
                              /\ Reloaded(<< >>)[h].init = Confs[conf].scale[h]
                              /\ ~Reloaded(<< >>)[h].live /\ Reloaded(<< >>)[h].sticky = 0
  <1>1. DOMAIN Reloaded(<< >>) = Listed /\ Listed \subseteq Host
    BY ShareAssumption DEF Reloaded, Listed
  <1>2. \A h \in Listed : Reloaded(<< >>)[h] = NewInfo(Confs[conf].scale[h])
    BY DEF Reloaded
  <1>3. ASSUME NEW h \in Listed
        PROVE  LET c == Reloaded(<< >>)[h] IN
               /\ c.weight = Confs[conf].scale[h] /\ c.init = Confs[conf].scale[h]
               /\ ~c.live /\ c.sticky = 0
    <2>1. Reloaded(<< >>)[h] = NewInfo(Confs[conf].scale[h])
      BY <1>2
    <2> QED
      BY <2>1 DEF NewInfo
  <1> QED
    BY <1>1, <1>3

LEMMA WeightsStart == SchedInit => WeightInv
  <1> SUFFICES ASSUME SchedInit PROVE WeightInv
    OBVIOUS
  <1>0. conf \in DOMAIN Confs /\ info = Reloaded(<< >>) /\ seenConf = conf
    BY ShareAssumption DEF SchedInit, ShareInit
  <1>1. InfoIsOfSeenConf
    BY <1>0, KnownAtStart DEF InfoIsOfSeenConf, Listed
  <1>2. LiveHaveLoads
    <2>1. /\ \A h \in Host : report[h] # "fresh"
          /\ dying = {} /\ waking = {}
      BY DEF SchedInit
    <2> QED
      BY <2>1, <1>0, KnownAtStart DEF LiveHaveLoads, MayBeLive
  <1>3. AnsweredStayLive
    <2>1. \A h \in Host : report[h] = "none" /\ h \in up
      BY DEF SchedInit, ShareInit
    <2> QED
      BY <2>1, <1>0, KnownAtStart DEF AnsweredStayLive, SchedInit
  <1>4. OthersKeepWeight
    BY <1>0, KnownAtStart DEF OthersKeepWeight
  <1> QED
    BY <1>1, <1>2, <1>3, <1>4 DEF WeightInv

LEMMA RestartKeepsWeights ==
  ASSUME Steady, WeightInv, RestartSched
  PROVE  WeightInv'
  <1>1. /\ UNCHANGED <<conf, up, suspect>> /\ seenConf' = conf
        /\ dying' = {} /\ waking' = {} /\ lb' = "start" /\ ~warm'
        /\ \A h \in Host : report'[h] = "none"
    BY DEF RestartSched, shareVars
  <1>2. Listed' = Listed
    BY <1>1 DEF Listed
  <1>3. conf \in DOMAIN Confs
    BY DEF Steady, ShareInv, ShareTypeOK
  <1>4. /\ DOMAIN info' = Listed /\ Listed \subseteq Host
        /\ \A h \in Listed : /\ info'[h].weight = Confs[conf].scale[h]
                             /\ info'[h].init = Confs[conf].scale[h]
                             /\ ~info'[h].live /\ info'[h].sticky = 0
    BY <1>3, KnownAtStart DEF RestartSched
  <1>5. InfoIsOfSeenConf'
    BY <1>1, <1>3, <1>4 DEF InfoIsOfSeenConf, Listed
  <1>6. LiveHaveLoads'
    BY <1>1, <1>4 DEF LiveHaveLoads, MayBeLive
  <1>7. AnsweredStayLive'
    BY <1>1, <1>2, <1>4 DEF WeightInv, AnsweredStayLive
  <1>8. OthersKeepWeight'
    BY <1>4 DEF OthersKeepWeight
  <1> QED
    BY <1>5, <1>6, <1>7, <1>8 DEF WeightInv

LEMMA WeightStep ==
  ASSUME Steady, WeightsSuffice, WeightInv, [SchedNext]_schedVars
  PROVE  WeightInv'
  <1>0. /\ report \in [Host -> {"none", "fresh", "old"}]
        /\ \A h \in Host \ suspect : h \in up /\ h \in Listed
        /\ DOMAIN info \subseteq Host
    BY DEF Steady, RestOK, InfosFit, WeightInv, AnsweredStayLive
  <1>1. ASSUME NEW h \in Host, HostSync(h) PROVE WeightInv'
    <2>1. CASE \E load \in Loads : GetAddrScale(h, load)
      BY <2>1, ReportKeepsWeights
    <2>2. CASE GetAddrScaleFails(h)
      <3>1. Listed' = Listed /\ \A k \in Host \ {h} : report'[k] = report[k]
        BY <2>2, <1>0 DEF GetAddrScaleFails, Listed
      <3>2. \A k \in Host : report'[k] = "fresh" => report[k] = "fresh"
        BY <2>2, <1>0 DEF GetAddrScaleFails
      <3>3. UNCHANGED <<info, seenConf, lb, dying, waking, warm, up>> /\ suspect' = suspect \cup {h}
        BY <2>2 DEF GetAddrScaleFails, fixed, round
      <3> QED
        BY <3>1, <3>2, <3>3, <1>0, WeightKept
    <2>3. CASE SyncAlone(h)
      <3>1. Listed' = Listed /\ \A k \in Host \ {h} : report'[k] = report[k]
        BY <2>3, <1>0 DEF SyncAlone, Listed
      <3>2. \A k \in Host : report'[k] = "fresh" => report[k] = "fresh"
        BY <2>3, <1>0 DEF SyncAlone
      <3>3. UNCHANGED <<info, seenConf, lb, dying, waking, warm, up>> /\ suspect' = suspect \cup {h}
        BY <2>3 DEF SyncAlone, fixed, round
      <3> QED
        BY <3>1, <3>2, <3>3, <1>0, WeightKept
    <2> QED
      BY <1>1, <2>1, <2>2, <2>3 DEF HostSync
  <1>2. ASSUME NEW h \in Host, ReportAges(h) PROVE WeightInv'
    <2>1. Listed' = Listed /\ \A k \in Host \ {h} : report'[k] = report[k]
      BY <1>2, <1>0 DEF ReportAges, Listed, shareVars
    <2>2. \A k \in Host : report'[k] = "fresh" => report[k] = "fresh"
      BY <1>2, <1>0 DEF ReportAges
    <2>3. UNCHANGED <<info, seenConf, lb, dying, waking, warm, up, suspect>> /\ h \in suspect
      BY <1>2, <1>0 DEF ReportAges, fixed, round, shareVars
    <2> QED
      BY <2>1, <2>2, <2>3, <1>0, WeightKept
  <1>3. ASSUME NEW h \in Host, HostDown(h) PROVE WeightInv'
    <2>1. /\ UNCHANGED <<info, seenConf, lb, dying, waking, warm, report>>
          /\ Listed' = Listed /\ up' = up \ {h} /\ suspect' = suspect \cup {h}
      BY <1>3 DEF HostDown, fixed, round, Listed
    <2> QED
      BY <2>1, <1>0, WeightKept
  <1>4. ASSUME NEW h \in Host, HostUp(h) PROVE WeightInv'
    <2>1. /\ UNCHANGED <<info, seenConf, lb, dying, waking, warm, report, suspect>>
          /\ Listed' = Listed /\ up' = up \cup {h}
      BY <1>4 DEF HostUp, fixed, round, Listed
    <2> QED
      BY <2>1, <1>0, WeightKept
  <1>5. CASE NewConfig
    <2>1. /\ UNCHANGED <<info, seenConf, lb, dying, waking, warm, report, up>>
          /\ suspect' = suspect \cup (Host \ Listed')
      BY <1>5 DEF NewConfig, fixed, round, Listed
    <2> QED
      BY <2>1, <1>0, WeightKept
  <1>6. CASE LoseMaster
    <2>1. /\ UNCHANGED <<info, seenConf, lb, dying, waking, warm, report, up>> /\ suspect' = Host
      BY <1>6 DEF LoseMaster, fixed, round, shareVars
    <2>2. suspect \subseteq Host
      BY DEF Steady, RestOK
    <2> QED
      BY <2>1, <2>2, <1>0, WeightKept
  <1>7. CASE TakeMaster \/ UNCHANGED schedVars
    <2>1. /\ UNCHANGED <<info, seenConf, lb, dying, waking, warm, report, up, suspect>>
          /\ Listed' = Listed
      BY <1>7 DEF TakeMaster, fixed, round, shareVars, schedVars, Listed
    <2> QED
      BY <2>1, <1>0, WeightKept
  <1>8. CASE LoadBalanceStep
    BY <1>8, WarmUpKeepsWeights, WakeKeepsWeights, UpdateLiveKeepsWeights, AdjustKeepsWeights
       DEF LoadBalanceStep
  <1>9. CASE RestartSched
    BY <1>9, RestartKeepsWeights
  <1> QED
    BY <1>1, <1>2, <1>3, <1>4, <1>5, <1>6, <1>7, <1>8, <1>9 DEF SchedNext

\* A host that the scheduler always answered keeps a positive scale, whatever
\* loads are reported, hosts die and come back, configs follow and however often
\* the scheduler starts again (UpdateLive, GetMode, AdjustScale), if configs and
\* loads are such that no weight is rounded down to 0.
THEOREM AnsweredHostsKeepWeight ==
  ASSUME WeightsSuffice PROVE SchedSpec => []OthersKeepWeight
  <1>1. SchedInit => WeightInv
    BY WeightsStart
  <1>2. Steady /\ WeightInv /\ [SchedNext]_schedVars => WeightInv'
    BY WeightStep
  <1>3. WeightInv => OthersKeepWeight
    BY DEF WeightInv
  <1> QED
    BY <1>1, <1>2, <1>3, SteadyAlways, PTL DEF SchedSpec
=============================================================================
