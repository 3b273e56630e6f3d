--------------------------- MODULE CursorProofs ---------------------------
(***************************************************************************)
(* The cursors of a consumer group, for any number of instances, threads,  *)
(* time-outs and replays: the acknowledged cursor covers only what the     *)
(* group was given, and the search for a timestamp ends where it should.   *)
(***************************************************************************)
EXTENDS Cursor, Induction

\* The larger of two numbers, and the smaller.
LEMMA MaxOfTwo ==
  ASSUME NEW a \in Int, NEW b \in Int
  PROVE  Max({a, b}) \in {a, b} /\ Max({a, b}) >= a /\ Max({a, b}) >= b
  <1>1. \E x \in {a, b} : \A y \in {a, b} : x >= y
    OBVIOUS
  <1> QED
    BY <1>1 DEF Max

LEMMA MinOfTwo ==
  ASSUME NEW a \in Int, NEW b \in Int
  PROVE  Min({a, b}) \in {a, b} /\ Min({a, b}) <= a /\ Min({a, b}) <= b
  <1>1. \E x \in {a, b} : \A y \in {a, b} : x <= y
    OBVIOUS
  <1> QED
    BY <1>1 DEF Min

\* The largest of three numbers.
LEMMA MaxOfThree ==
  ASSUME NEW a \in Int, NEW b \in Int, NEW c \in Int
  PROVE  /\ Max({a, b, c}) \in {a, b, c}
         /\ Max({a, b, c}) >= a /\ Max({a, b, c}) >= b /\ Max({a, b, c}) >= c
  <1>1. \E x \in {a, b, c} : \A y \in {a, b, c} : x >= y
    <2>1. CASE a >= b /\ a >= c
      BY <2>1
    <2>2. CASE b >= a /\ b >= c
      BY <2>2
    <2>3. CASE c >= a /\ c >= b
      BY <2>3
    <2> QED
      BY <2>1, <2>2, <2>3
  <1> QED
    BY <1>1 DEF Max

-----------------------------------------------------------------------------
\* The search of Replay.  A turn probes an instance between its bounds.
LEMMA MidIsBetween ==
  ASSUME NEW l \in Int, NEW r \in Int, l < r
  PROVE  LET mid == l + ((r + 1 - l) \div 2) IN mid \in Int /\ l < mid /\ mid <= r
  <1>1. (r + 1 - l) \in Int /\ r + 1 - l >= 2
    OBVIOUS
  <1>2. \A d \in Int : d >= 2 => (d \div 2) \in Int /\ 1 <= d \div 2 /\ d \div 2 < d
    OBVIOUS
  <1> QED
    BY <1>1, <1>2

\* The bounds enclose the place that is searched, and the instance probed last
\* is one of the bounds.
Encloses(s, time, gone, bad) ==
    /\ s \in [l : 0..NInst, r : 0..NInst, last : -1..NInst]
    /\ FirstInst <= s.l /\ s.l <= s.r /\ s.r <= chosen
    /\ s.l = FirstInst \/ MovesUp(s.l, time, gone, bad)
    /\ s.r = chosen \/ ~MovesUp(s.r + 1, time, gone, bad)
    /\ \/ s.last \in {s.l, s.r + 1}
       \/ s.last = -1 /\ s.l = FirstInst /\ s.r = chosen

LEMMA ProbeEncloses ==
  ASSUME CursorTypeOK, NEW time, NEW gone, NEW bad, NEW s, Encloses(s, time, gone, bad)
  PROVE  /\ Encloses(Probe(s, time, gone, bad), time, gone, bad)
         /\ s.l < s.r => Probe(s, time, gone, bad).r - Probe(s, time, gone, bad).l < s.r - s.l
         /\ s.l = s.r => Probe(s, time, gone, bad) = s
  <1> DEFINE mid == s.l + ((s.r + 1 - s.l) \div 2)
  <1>0. s.l \in 0..NInst /\ s.r \in 0..NInst /\ chosen \in 0..NInst /\ NInst \in Nat /\ FirstInst \in Nat
    BY CursorAssumption DEF Encloses, CursorTypeOK
  <1>1. CASE s.l = s.r
    <2>1. Probe(s, time, gone, bad) = s
      BY <1>1, <1>0 DEF Probe
    <2> QED
      BY <2>1, <1>1, <1>0
  <1>2. CASE s.l < s.r
    <2>1. mid \in Int /\ s.l < mid /\ mid <= s.r
      BY <1>0, <1>2, MidIsBetween
    <2> HIDE DEF mid
    <2>2. CASE ~MovesUp(mid, time, gone, bad)
      <3>1. Probe(s, time, gone, bad) = [l |-> s.l, r |-> mid - 1, last |-> mid]
        BY <1>2, <2>2, <1>0 DEF Probe, mid
      <3>2. (mid - 1) + 1 = mid
        BY <2>1
      <3> QED
        BY <3>1, <3>2, <2>1, <2>2, <1>0, <1>2 DEF Encloses
    <2>3. CASE MovesUp(mid, time, gone, bad)
      <3>1. Probe(s, time, gone, bad) = [l |-> mid, r |-> s.r, last |-> mid]
        BY <1>2, <2>3, <1>0 DEF Probe, mid
      <3> QED
        BY <3>1, <2>1, <2>3, <1>0, <1>2 DEF Encloses
    <2> QED
      BY <2>2, <2>3
  <1> QED
    BY <1>0, <1>1, <1>2 DEF Encloses

\* The turns of the search.
Turns(f, time, gone, bad) ==
    f = [n \in 0..NInst |-> IF n = 0 THEN [l |-> FirstInst, r |-> chosen, last |-> -1]
                                     ELSE Probe(f[n - 1], time, gone, bad)]

LEMMA TurnsExist ==
  ASSUME CursorTypeOK, NEW time, NEW gone, NEW bad
  PROVE  \E f : Turns(f, time, gone, bad)
  <1> DEFINE S == {s \in [l : 0..NInst, r : 0..NInst, last : -1..NInst] : Encloses(s, time, gone, bad)}
             a == [l |-> FirstInst, r |-> chosen, last |-> -1]
             step == [n \in 1..NInst |-> [s \in S |-> Probe(s, time, gone, bad)]]
  <1>1. a \in S
    BY CursorAssumption DEF Encloses, CursorTypeOK
  <1>2. \A s \in S : Probe(s, time, gone, bad) \in S
    BY ProbeEncloses DEF Encloses
  <1>3. \A n \in 1..NInst : step[n] \in [S -> S]
    BY <1>2
  <1> HIDE DEF S, step, a
  <1>4. PICK f \in [0..NInst -> S] : Iterates(f, NInst, a, step)
    BY <1>1, <1>3, CursorAssumption, IterationExists
  <1>5. \A n \in 1..NInst : step[n][f[n - 1]] = Probe(f[n - 1], time, gone, bad)
    <2> SUFFICES ASSUME NEW n \in 1..NInst PROVE step[n][f[n - 1]] = Probe(f[n - 1], time, gone, bad)
      OBVIOUS
    <2>1. f[n - 1] \in S
      BY <1>4, CursorAssumption
    <2> QED
      BY <2>1 DEF step
  <1>6. Turns(f, time, gone, bad)
    BY <1>4, <1>5, CursorAssumption DEF Iterates, Turns, a
  <1> QED
    BY <1>6

\* Where the search ends: both bounds are the last instance.
LEMMA SearchEnds ==
  ASSUME CursorTypeOK, NEW time, NEW gone, NEW bad
  PROVE  \E s : /\ Encloses(s, time, gone, bad) /\ s.l = s.r
                /\ SearchPoint(time, gone, bad) = IF s.last = -1 THEN FirstInst ELSE s.last
  <1> DEFINE f == CHOOSE g : Turns(g, time, gone, bad)
  <1>1. Turns(f, time, gone, bad)
    BY TurnsExist
  <1>2. SearchPoint(time, gone, bad) = IF f[NInst].last = -1 THEN FirstInst ELSE f[NInst].last
    BY DEF SearchPoint, Turns
  <1> HIDE DEF f
  <1> DEFINE P == {n \in Nat : n <= NInst =>
                     /\ Encloses(f[n], time, gone, bad)
                     /\ f[n].l = f[n].r \/ f[n].r - f[n].l <= NInst - n}
  <1>3. 0 \in P
    <2>1. f[0] = [l |-> FirstInst, r |-> chosen, last |-> -1]
      BY <1>1, CursorAssumption DEF Turns
    <2> QED
      BY <2>1, CursorAssumption DEF Encloses, CursorTypeOK
  <1>4. ASSUME NEW n \in P PROVE n + 1 \in P
    <2> SUFFICES ASSUME n + 1 <= NInst
                 PROVE  /\ Encloses(f[n + 1], time, gone, bad)
                        /\ f[n + 1].l = f[n + 1].r \/ f[n + 1].r - f[n + 1].l <= NInst - (n + 1)
      OBVIOUS
    <2>0. n \in Nat /\ NInst \in Nat /\ n + 1 \in 0..NInst /\ n + 1 # 0 /\ (n + 1) - 1 = n
      BY CursorAssumption
    <2>1. f[n + 1] = Probe(f[n], time, gone, bad)
      BY <1>1, <2>0 DEF Turns
    <2>2. Encloses(f[n], time, gone, bad) /\ (f[n].l = f[n].r \/ f[n].r - f[n].l <= NInst - n)
      BY <2>0
    <2>3. Encloses(f[n + 1], time, gone, bad)
      BY <2>1, <2>2, ProbeEncloses
    <2>4. CASE f[n].l = f[n].r
      BY <2>1, <2>2, <2>4, ProbeEncloses
    <2>5. CASE f[n].l < f[n].r
      <3>1. f[n + 1].r - f[n + 1].l < f[n].r - f[n].l
        BY <2>1, <2>2, <2>5, ProbeEncloses
      <3>2. /\ f[n].l \in Int /\ f[n].r \in Int /\ f[n].r - f[n].l <= NInst - n
            /\ f[n + 1].l \in Int /\ f[n + 1].r \in Int
        BY <2>2, <2>3, <2>5 DEF Encloses
      <3> QED
        BY <2>0, <2>3, <3>1, <3>2
    <2> QED
      BY <2>0, <2>2, <2>4, <2>5 DEF Encloses
  <1>5. NInst \in P
    <2> HIDE DEF P
    <2>1. P \in SUBSET Nat
      BY DEF P
    <2> QED
      BY <1>3, <1>4, <2>1, NatSetInduction, CursorAssumption
  <1>6. Encloses(f[NInst], time, gone, bad) /\ f[NInst].l = f[NInst].r
    BY <1>5, CursorAssumption DEF Encloses
  <1> QED
    BY <1>2, <1>6

LEMMA SearchPointType ==
  ASSUME CursorTypeOK, NEW time, NEW gone, NEW bad
  PROVE  SearchPoint(time, gone, bad) \in FirstInst..NInst
  <1>1. PICK s : /\ Encloses(s, time, gone, bad) /\ s.l = s.r
                 /\ SearchPoint(time, gone, bad) = IF s.last = -1 THEN FirstInst ELSE s.last
    BY SearchEnds
  <1> QED
    BY <1>1, CursorAssumption DEF Encloses, CursorTypeOK

\* Both bounds end at the same instance.  It is the first one, deleted or older;
\* and the next one is none of these.
LEMMA SearchIsClose ==
  ASSUME CursorTypeOK, StampsSorted
  PROVE  ReplayStartsClose
  <1> SUFFICES ASSUME NEW time \in Times, NEW gone \in FirstInst..chosen, NEW bad \in BadReads,
                      NEW i \in gone..(chosen - 1), HasStamp(i)
               PROVE  LET point == SearchPoint(time, gone, bad)
                      IN  /\ FirstInst < i /\ i < point => stamp[i] < time
                          /\ point < i /\ stamp[i] < time =>
                                \E j \in gone..i : point <= j /\ (j \in bad \/ ~HasStamp(j))
    BY DEF ReplayStartsClose
  <1> DEFINE point == SearchPoint(time, gone, bad)
  <1>0. /\ time \in Int /\ chosen \in FirstInst..NInst /\ NInst \in Nat /\ FirstInst \in Nat
        /\ gone \in Int /\ i \in Int /\ FirstInst <= gone /\ gone <= i /\ i < chosen
    BY CursorAssumption DEF CursorTypeOK
  <1>1. PICK s : /\ Encloses(s, time, gone, bad) /\ s.l = s.r
                 /\ point = IF s.last = -1 THEN FirstInst ELSE s.last
    BY SearchEnds
  <1>2. s.l \in Int /\ FirstInst <= s.l /\ s.l <= chosen /\ point \in {s.l, s.l + 1}
    BY <1>0, <1>1 DEF Encloses
  <1> HIDE DEF point
  <1>3. \A j \in Inst : stamp[j] \in Int
    <2>1. Times \cup {NoStamp} \subseteq Int
      BY CursorAssumption DEF NoStamp
    <2> QED
      BY <2>1 DEF CursorTypeOK
  <1>4. ASSUME FirstInst < i, i < point
        PROVE  stamp[i] < time
    <2>1. FirstInst < s.l /\ i <= s.l
      BY <1>0, <1>2, <1>4
    <2>2. s.l < chosen /\ HasStamp(s.l) /\ stamp[s.l] < time
      BY <1>0, <1>1, <1>2, <2>1 DEF Encloses, MovesUp
    <2>3. s.l \in Inst /\ i \in Inst
      BY <1>0, <1>2, <2>2 DEF Inst
    <2>4. stamp[i] <= stamp[s.l]
      BY <1>0, <1>2, <1>3, <2>1, <2>2, <2>3 DEF StampsSorted, Sorted, HasStamp
    <2>5. stamp[i] \in Int /\ stamp[s.l] \in Int
      BY <1>3, <2>3
    <2> QED
      BY <1>0, <2>2, <2>4, <2>5
  <1>5. ASSUME point < i, stamp[i] < time
        PROVE  \E j \in gone..i : point <= j /\ (j \in bad \/ ~HasStamp(j))
    <2> DEFINE j == s.l + 1
    <2>1. j \in Int /\ j <= i /\ point <= j /\ s.l < chosen
      BY <1>0, <1>2, <1>5
    <2>2. ~MovesUp(j, time, gone, bad)
      BY <1>0, <1>1, <2>1 DEF Encloses
    <2>3. j \in Inst /\ j < chosen /\ i \in Inst
      BY <1>0, <1>2, <2>1 DEF Inst
    <2> HIDE DEF j
    <2>4. gone <= j
      BY <1>0, <2>1, <2>2 DEF MovesUp
    <2>5. j \in bad \/ ~HasStamp(j)
      <3> SUFFICES ASSUME j \notin bad, HasStamp(j) PROVE FALSE
        OBVIOUS
      <3>1. ~(stamp[j] < time)
        BY <2>2, <2>3 DEF MovesUp, HasStamp
      <3>2. stamp[j] <= stamp[i]
        BY <1>0, <1>3, <2>1, <2>3 DEF StampsSorted, Sorted, HasStamp
      <3> QED
        BY <1>0, <1>3, <1>5, <2>3, <3>1, <3>2
    <2> QED
      BY <1>0, <2>1, <2>4, <2>5
  <1> QED
    BY <1>4, <1>5 DEF point

-----------------------------------------------------------------------------
\* Types, step by step.
LEMMA CursorInitInv == CursorInit => CursorInv
  <1> SUFFICES ASSUME CursorInit PROVE CursorInv
    OBVIOUS
  <1>1. CursorTypeOK
    BY CursorAssumption DEF CursorInit, CursorTypeOK, NoGet, NoStep, NoneYet, Steps, CursorIDs, Inst
  <1>2. StampsSorted
    BY DEF CursorInit, StampsSorted
  <1>3. StepsAreCovered /\ CursorCoversGiven
    BY CursorAssumption
    DEF CursorInit, StepsAreCovered, CursorCoversGiven, Covered, HasItem, HasStamp, NoGet, NoStep, NoneYet
  <1> QED
    BY <1>1, <1>2, <1>3 DEF CursorInv

\* What a Get that acknowledges acks goes on from.
LEMMA AdjustedIsCovered ==
  ASSUME CursorInv
  PROVE  /\ Adjusted(acks)[1] \in CursorIDs /\ Adjusted(acks)[2] \in CursorIDs
         /\ Covered(Adjusted(acks)[1]) /\ Covered(Adjusted(acks)[2])
  <1>1. /\ prevCur \in CursorIDs /\ acks \in CursorIDs
        /\ Covered(prevCur) /\ Covered(acks)
        /\ \A c \in CursorIDs : c \in Int
    BY CursorAssumption DEF CursorInv, CursorTypeOK, StepsAreCovered, CursorCoversGiven, CursorIDs, NoneYet
  <1>2. Max({prevCur, acks}) \in {prevCur, acks}
    BY <1>1, MaxOfTwo
  <1> QED
    BY <1>1, <1>2 DEF Adjusted

\* The steps of a Get.
\* The first items after an instance: none of the log, none left out before one.
LEMMA ItemsAfterType ==
  ASSUME CursorTypeOK, NEW from \in Int, from >= -1
  PROVE  /\ ItemsAfter(from) \subseteq (from + 1)..(chosen - 1)
         /\ ItemsAfter(from) \subseteq Inst
         /\ \A k \in ItemsAfter(from) : \A i \in (from + 1)..k :
               HasItem(i) => i \in ItemsAfter(from)
  <1> DEFINE ahead == {i \in (from + 1)..(chosen - 1) : HasItem(i)}
             before(i) == {j \in ahead : j < i}
  <1>1. chosen \in Nat /\ chosen <= NInst /\ NInst \in Nat
    BY CursorAssumption DEF CursorTypeOK
  <1>2. ItemsAfter(from) = {i \in ahead : Cardinality(before(i)) < CursorLimit}
    BY DEF ItemsAfter
  <1>3. ASSUME NEW k \in ItemsAfter(from), NEW i \in (from + 1)..k, HasItem(i)
        PROVE  i \in ItemsAfter(from)
    <2>1. k \in ahead /\ k \in Int /\ k <= chosen - 1 /\ Cardinality(before(k)) < CursorLimit
      BY <1>1, <1>2
    <2>2. i \in ahead /\ i <= k
      BY <1>1, <1>3, <2>1
    <2>3. before(i) \subseteq before(k)
      BY <1>1, <2>1, <2>2
    <2>4. IsFiniteSet(before(k))
      <3>1. before(k) \subseteq (from + 1)..(chosen - 1) /\ from + 1 \in Int /\ chosen - 1 \in Int
        BY <1>1
      <3> QED
        BY <3>1, FS_Interval, FS_Subset
    <2> HIDE DEF before, ahead
    <2>5. Cardinality(before(i)) <= Cardinality(before(k)) /\ IsFiniteSet(before(i))
      BY <2>3, <2>4, FS_Subset
    <2>6. Cardinality(before(i)) \in Nat /\ Cardinality(before(k)) \in Nat
      BY <2>4, <2>5, FS_CardinalityType
    <2> QED
      BY <1>2, <2>1, <2>2, <2>5, <2>6, CursorAssumption
  <1>4. ItemsAfter(from) \subseteq (from + 1)..(chosen - 1)
    BY <1>2
  <1> QED
    BY <1>1, <1>3, <1>4 DEF Inst

LEMMA StartGetInv ==
  ASSUME CursorInv, NEW t \in GetThread, StartGet(t)
  PROVE  CursorInv'
  <1> DEFINE adj == Adjusted(acks)
             from == Max({adj[1], adj[2], FirstInst - 1})
             found == ItemsAfter(from)
             last == IF found # {} THEN Max(found) ELSE from
             stay == IF found # {} THEN last ELSE Max({adj[1], adj[2]})
             walked == WalkedOver(last, Cardinality(found))
  <1>1. /\ adj[1] \in CursorIDs /\ adj[2] \in CursorIDs /\ Covered(adj[1]) /\ Covered(adj[2])
    BY AdjustedIsCovered
  <1>2. PICK next \in {stay} \cup walked :
        /\ serving' = [serving EXCEPT ![t] =
              [at |-> "prev", prev |-> adj[1], next |-> next, items |-> found]]
        /\ waiting' = t
        /\ UNCHANGED <<stamp, chosen, prevCur, nextCur, acks, syncing, replaying,
                       given, jumped, late>>
    BY DEF StartGet
  <1> HIDE DEF adj
  <1>3. /\ adj[1] \in Int /\ adj[2] \in Int /\ adj[1] >= -1 /\ adj[2] >= -1
        /\ adj[1] <= NInst /\ adj[2] <= NInst
        /\ FirstInst \in Nat /\ NInst \in Nat /\ CursorLimit \in Nat /\ chosen \in 0..NInst
    BY <1>1, CursorAssumption DEF CursorIDs, NoneYet, CursorInv, CursorTypeOK
  <1>4. from \in {adj[1], adj[2], FirstInst - 1} /\ from \in Int /\ from >= -1
    <2>1. FirstInst - 1 \in Int
      BY <1>3
    <2>2. from \in {adj[1], adj[2], FirstInst - 1}
      BY ONLY <1>3, <2>1, MaxOfThree, Zenon
    <2> QED
      BY <1>3, <2>2
  <1> HIDE DEF from
  <1>5. /\ found \subseteq (from + 1)..(chosen - 1) /\ found \subseteq Inst
        /\ \A k \in found : \A i \in (from + 1)..k : HasItem(i) => i \in found
    BY <1>4, ItemsAfterType DEF CursorInv
  <1> HIDE DEF found
  <1>a. found # {} => Max(found) \in found
    <2> SUFFICES ASSUME found # {} PROVE \E x \in found : \A y \in found : x >= y
      BY DEF Max
    <2>1. found \in SUBSET Int /\ \A y \in found : y <= NInst
      BY <1>3, <1>4, <1>5
    <2> DEFINE D == {NInst - y : y \in found}
    <2>2. D \in SUBSET Nat
      BY <1>3, <2>1
    <2>3. D # {}
      OBVIOUS
    <2> HIDE DEF D
    <2>4. PICK d \in D : \A e \in D : d <= e
      BY <2>2, <2>3, LeastNat
    <2>5. PICK x \in found : d = NInst - x
      BY <2>4 DEF D
    <2>6. \A y \in found : NInst - y \in D
      BY DEF D
    <2> QED
      BY <1>3, <2>1, <2>4, <2>5, <2>6
  <1>b. Max({adj[1], adj[2]}) \in {adj[1], adj[2]}
    BY <1>3, MaxOfTwo
  <1>c. last \in Int /\ (last \in found \/ last = from)
    <2>1. last \in found \/ last = from
      BY <1>a
    <2>2. found \subseteq Int
      BY <1>3, <1>5 DEF Inst
    <2> HIDE DEF last
    <2> QED
      BY <2>1, <2>2, <1>4
  <1>d. stay \in found \cup {adj[1], adj[2]}
    BY <1>a, <1>b
  <1>e. \A i \in Int : i <= last /\ 0 <= i /\ HasItem(i) => i \in given \/ i <= jumped \/ i \in found
    <2>1. Covered(from)
      BY <1>1, <1>3, <1>4 DEF Covered, CursorInv, StepsAreCovered
    <2> HIDE DEF last
    <2> QED
      BY <2>1, <1>4, <1>5, <1>c DEF Covered
  <1>6. next \in CursorIDs
    <2>1. found \subseteq CursorIDs
      BY <1>3, <1>5 DEF CursorIDs, NoneYet, Inst
    <2>2. walked \subseteq (last + 1)..(chosen - 1) /\ last >= -1
      BY <1>3, <1>4, <1>5, <1>c DEF WalkedOver, Inst
    <2> HIDE DEF last, stay, walked
    <2>3. walked \subseteq CursorIDs
      BY <1>3, <1>c, <2>2 DEF CursorIDs, NoneYet
    <2> QED
      BY <1>1, <1>2, <1>d, <2>1, <2>3
  <1>7. found \subseteq Inst /\ found \subseteq 0..(chosen - 1)
    BY <1>3, <1>4, <1>5 DEF Inst
  <1>9. \A i \in 0..next : HasItem(i) => i \in given \/ i <= jumped \/ i \in found
    <2>1. CASE next \in walked
      <3> HIDE DEF last
      <3>1. next \in Int /\ \A i \in (last + 1)..next : ~HasItem(i)
        BY <2>1, <1>3, <1>c DEF WalkedOver
      <3> QED
        BY <3>1, <1>c, <1>e
    <2>2. CASE next = stay
      <3>1. CASE found # {}
        BY <3>1, <2>2, <1>c, <1>e
      <3>2. CASE found = {}
        BY <3>2, <2>2, <1>1, <1>b DEF Covered
      <3> QED
        BY <3>1, <3>2
    <2> QED
      BY <1>2, <2>1, <2>2
  <1> HIDE DEF last, stay, walked
  <1>10. CursorTypeOK'
    <2>1. [at |-> "prev", prev |-> adj[1], next |-> next, items |-> found]
             \in [at : Steps, prev : CursorIDs, next : CursorIDs, items : SUBSET Inst]
      BY <1>1, <1>6, <1>7 DEF Steps
    <2> QED
      BY <2>1, <1>2 DEF CursorInv, CursorTypeOK
  <1>11. StepsAreCovered'
    BY <1>1, <1>2, <1>7, <1>9 DEF CursorInv, StepsAreCovered, Covered, CursorTypeOK, HasItem, HasStamp
  <1> QED
    BY <1>2, <1>10, <1>11 DEF CursorInv, StampsSorted, CursorCoversGiven, Covered, HasItem, HasStamp

LEMMA UpdatePrevInv ==
  ASSUME CursorInv, NEW t \in GetThread, UpdatePrev(t)
  PROVE  CursorInv'
  <1> USE DEF CursorInv, UpdatePrev
  <1>1. CursorTypeOK'
    BY DEF CursorTypeOK, AckBefore, Steps
  <1>2. StepsAreCovered'
    BY DEF StepsAreCovered, Covered, HasItem, HasStamp, CursorTypeOK
  <1>3. CursorCoversGiven'
    BY DEF StepsAreCovered, CursorCoversGiven, Covered, HasItem, HasStamp, AckBefore
  <1> QED
    BY <1>1, <1>2, <1>3 DEF StampsSorted

LEMMA UpdateNextInv ==
  ASSUME CursorInv, NEW t \in GetThread, UpdateNext(t)
  PROVE  CursorInv'
  <1> USE DEF CursorInv, UpdateNext
  <1>1. CursorTypeOK'
    BY CursorAssumption DEF CursorTypeOK, NoGet, NoneYet, Steps, CursorIDs
  <1>2. given \subseteq given' /\ jumped' = jumped
    OBVIOUS
  <1>3. Covered(acks)'
    BY DEF StepsAreCovered, Covered, HasItem, HasStamp, CursorTypeOK
  <1>4. StepsAreCovered'
    <2>1. (0..(FirstInst - 1) \subseteq given /\ given \subseteq 0..(chosen - 1))'
      BY DEF StepsAreCovered
    <2>2. /\ (syncing.at = "prev" => Covered(syncing.to))'
          /\ (replaying.at = "prev" => Covered(replaying.to))'
      BY <1>2 DEF StepsAreCovered, Covered, HasItem, HasStamp
    <2>3. ASSUME NEW u \in GetThread
          PROVE  /\ (serving[u].items \subseteq 0..(chosen - 1))'
                 /\ (serving[u].at = "prev" => Covered(serving[u].prev))'
                 /\ (serving[u].at # "free" => \A i \in 0..serving[u].next :
                       HasItem(i) => i \in given \/ i <= jumped \/ i \in serving[u].items)'
      <3>1. CASE u = t
        BY <3>1 DEF CursorTypeOK, NoGet
      <3>2. CASE u # t
        <4>1. serving'[u] = serving[u] /\ chosen' = chosen
          BY <3>2 DEF CursorTypeOK
        <4> QED
          BY <4>1, <1>2 DEF StepsAreCovered, Covered, HasItem, HasStamp
      <3> QED
        BY <3>1, <3>2
    <2> QED
      BY <1>3, <2>1, <2>2, <2>3 DEF StepsAreCovered
  <1>5. CursorCoversGiven'
    BY <1>2 DEF CursorCoversGiven, Covered, HasItem, HasStamp
  <1> QED
    BY <1>1, <1>4, <1>5 DEF StampsSorted

-----------------------------------------------------------------------------
\* The steps of the other threads, and of the consumer.
LEMMA ConsumerInv ==
  ASSUME CursorInv, AddItem \/ GivenElsewhere \/ \E fresh \in BOOLEAN : GiveUp(fresh)
  PROVE  CursorInv'
  <1> USE DEF CursorInv
  <1>1. CASE AddItem
    <2>1. CursorTypeOK'
      BY <1>1, CursorAssumption DEF AddItem, CursorTypeOK
    <2>2. chosen \in Int /\ chosen' = chosen + 1
      BY <1>1, CursorAssumption DEF AddItem, CursorTypeOK
    <2>3. 0..(chosen - 1) \subseteq 0..(chosen' - 1)
      BY <2>2
    <2>4. StepsAreCovered'
      BY <1>1, <2>3 DEF AddItem, StepsAreCovered, Covered, HasItem, HasStamp
    <2> QED
      BY <1>1, <2>1, <2>4 DEF AddItem, StampsSorted, CursorCoversGiven, Covered, HasItem, HasStamp
  <1>2. CASE GivenElsewhere
    <2> DEFINE left == {i \in 0..(chosen - 1) : HasItem(i) /\ i \notin given}
               m == Min(left)
    <2>1. m \in left
      <3>1. left \in SUBSET Nat
        BY CursorAssumption DEF CursorTypeOK
      <3>2. left # {}
        BY <1>2 DEF GivenElsewhere, StepsAreCovered
      <3> HIDE DEF left
      <3>3. \E x \in left : \A y \in left : x <= y
        BY <3>1, <3>2, LeastNat
      <3> QED
        BY <3>3 DEF Min
    <2>2. given' = given \cup {m}
      BY <1>2 DEF GivenElsewhere
    <2> HIDE DEF m
    <2>5. m \in Inst
      BY <2>1, CursorAssumption DEF CursorTypeOK, Inst
    <2>3. CursorTypeOK'
      <3>1. late' \in 0..MaxLate
        BY <1>2, CursorAssumption DEF GivenElsewhere, CursorTypeOK, Late
      <3> QED
        BY <1>2, <2>2, <2>5, <3>1 DEF GivenElsewhere, CursorTypeOK
    <2>4. StepsAreCovered'
      BY <1>2, <2>1, <2>2 DEF GivenElsewhere, StepsAreCovered, Covered, HasItem, HasStamp
    <2> QED
      BY <1>2, <2>2, <2>3, <2>4 DEF GivenElsewhere, StampsSorted, CursorCoversGiven, Covered, HasItem, HasStamp
  <1>3. ASSUME NEW fresh \in BOOLEAN, GiveUp(fresh) PROVE CursorInv'
    <2>1. CursorTypeOK'
      BY <1>3, CursorAssumption DEF GiveUp, CursorTypeOK, Late, NoneYet, CursorIDs
    <2>2. StepsAreCovered'
      BY <1>3 DEF GiveUp, StepsAreCovered, Covered, HasItem, HasStamp, NoneYet
    <2> QED
      BY <1>3, <2>1, <2>2 DEF GiveUp, StampsSorted, CursorCoversGiven, Covered, HasItem, HasStamp
  <1> QED
    BY <1>1, <1>2, <1>3

LEMMA SyncInv ==
  ASSUME CursorInv, ApplySyncStep \/ \E c \in Inst : CompareSync(c)
  PROVE  CursorInv'
  <1> USE DEF CursorInv
  <1>1. ASSUME NEW c \in Inst, CompareSync(c) PROVE CursorInv'
    <2>1. CursorTypeOK'
      BY <1>1, CursorAssumption DEF CompareSync, CursorTypeOK, Steps, CursorIDs, NoneYet, Inst
    <2>2. StepsAreCovered'
      BY <1>1 DEF CompareSync, StepsAreCovered, Covered, HasItem, HasStamp
    <2> QED
      BY <1>1, <2>1, <2>2 DEF CompareSync, StampsSorted, CursorCoversGiven, Covered, HasItem, HasStamp
  <1>2. CASE ApplySyncStep
    <2>1. CursorTypeOK'
      BY <1>2, CursorAssumption
      DEF ApplySyncStep, StepTo, AfterStep, NoStep, CursorTypeOK, Steps, CursorIDs, NoneYet
    <2>2. StepsAreCovered'
      BY <1>2 DEF ApplySyncStep, AfterStep, NoStep, StepsAreCovered, Covered, HasItem, HasStamp, CursorTypeOK
    <2>3. CursorCoversGiven'
      BY <1>2 DEF ApplySyncStep, StepTo, StepsAreCovered, CursorCoversGiven, Covered, HasItem, HasStamp
    <2> QED
      BY <1>2, <2>1, <2>2, <2>3 DEF ApplySyncStep, StampsSorted
  <1> QED
    BY <1>1, <1>2

LEMMA ReplayInv ==
  ASSUME CursorInv, ReplayStep \/ ClearCursorID \/ \E info \in ReplayInfos, gone \in FirstInst..chosen, bad \in BadReads :
                      StartReplay(info, gone, bad)
  PROVE  CursorInv'
  <1> USE DEF CursorInv
  <1>1. ASSUME NEW info \in ReplayInfos, NEW gone, NEW bad, StartReplay(info, gone, bad) PROVE CursorInv'
    <2> DEFINE to == ReplayPoint(info, gone, bad)
    <2>0. /\ info.cursor \in Int /\ info.cursor <= NInst /\ NInst \in Nat /\ FirstInst \in 0..NInst
          /\ chosen \in 0..NInst
      BY <1>1, CursorAssumption DEF StartReplay, CursorTypeOK
    <2>1. to \in 0..NInst
      <3>1. CASE info.cursor # -1
        <4>0. FirstInst \in Int
          BY <2>0
        <4>1. Max({FirstInst, info.cursor}) \in {FirstInst, info.cursor}
              /\ Max({FirstInst, info.cursor}) >= FirstInst
          BY <2>0, <4>0, MaxOfTwo, Zenon
        <4> QED
          BY <2>0, <3>1, <4>1 DEF ReplayPoint
      <3>2. CASE info.cursor = -1
        BY <3>2, <2>0, SearchPointType DEF ReplayPoint
      <3> QED
        BY <3>1, <3>2
    <2>2. /\ replaying' = [at |-> "prev", to |-> to]
          /\ jumped' = IF to > prevCur THEN Max({jumped, to}) ELSE jumped
          /\ UNCHANGED <<stamp, chosen, prevCur, nextCur, acks, serving, waiting, syncing, given>>
      BY <1>1 DEF StartReplay
    <2> HIDE DEF to
    <2>3. prevCur \in Int /\ jumped \in Int /\ jumped \in CursorIDs /\ to \in CursorIDs
      BY <2>0, <2>1 DEF CursorTypeOK, CursorIDs, NoneYet
    <2>4. /\ jumped' \in CursorIDs /\ jumped' \in Int /\ jumped' >= jumped
          /\ to > prevCur => jumped' >= to
      BY <2>1, <2>2, <2>3, MaxOfTwo
    <2>5. CursorTypeOK'
      BY <1>1, <2>2, <2>3, <2>4, CursorAssumption DEF CursorTypeOK, StartReplay, Late, Steps
    <2>6. \A i \in Int : i <= jumped => i <= jumped'
      BY <2>3, <2>4
    <2>7. \A i \in 0..to : HasItem(i) => i \in given \/ i <= jumped'
      <3> SUFFICES ASSUME NEW i \in 0..to, HasItem(i) PROVE i \in given \/ i <= jumped'
        OBVIOUS
      <3>1. CASE to > prevCur
        BY <3>1, <2>1, <2>4
      <3>2. CASE ~(to > prevCur)
        BY <3>2, <2>1, <2>3, <2>6 DEF CursorCoversGiven, Covered, HasItem, HasStamp
      <3> QED
        BY <3>1, <3>2
    <2>8. ASSUME NEW c, Covered(c) PROVE \A i \in 0..c : HasItem(i) => i \in given \/ i <= jumped'
      BY <2>6, <2>8 DEF Covered, HasItem, HasStamp
    <2>9. StepsAreCovered'
      <3>1. Covered(acks)' /\ (syncing.at = "prev" => Covered(syncing.to))'
        BY <2>2, <2>8 DEF StepsAreCovered, Covered, HasItem, HasStamp
      <3>2. (replaying.at = "prev" => Covered(replaying.to))'
        BY <2>2, <2>7 DEF Covered, HasItem, HasStamp
      <3>3. ASSUME NEW t \in GetThread
            PROVE  /\ serving[t].items \subseteq 0..(chosen - 1)
                   /\ serving[t].at = "prev" =>
                        \A i \in 0..serving[t].prev : HasItem(i) => i \in given \/ i <= jumped'
                   /\ serving[t].at # "free" => \A i \in 0..serving[t].next :
                         HasItem(i) => i \in given \/ i <= jumped' \/ i \in serving[t].items
        BY <2>6, <2>8 DEF StepsAreCovered
      <3> QED
        BY <2>2, <3>1, <3>2, <3>3 DEF StepsAreCovered, Covered, HasItem, HasStamp
    <2> QED
      BY <2>2, <2>5, <2>8, <2>9 DEF StampsSorted, CursorCoversGiven, Covered, HasItem, HasStamp
  <1>2. CASE ReplayStep
    <2>1. CursorTypeOK'
      BY <1>2, CursorAssumption
      DEF ReplayStep, StepTo, AfterStep, NoStep, CursorTypeOK, Steps, CursorIDs, NoneYet
    <2>2. StepsAreCovered'
      BY <1>2 DEF ReplayStep, AfterStep, NoStep, StepsAreCovered, Covered, HasItem, HasStamp, CursorTypeOK
    <2>3. CursorCoversGiven'
      BY <1>2 DEF ReplayStep, StepTo, StepsAreCovered, CursorCoversGiven, Covered, HasItem, HasStamp
    <2> QED
      BY <1>2, <2>1, <2>2, <2>3 DEF ReplayStep, StampsSorted
  <1>3. CASE ClearCursorID
    <2>1. CursorTypeOK'
      BY <1>3, CursorAssumption DEF ClearCursorID, CursorTypeOK, Late, CursorIDs, NoneYet
    <2>2. StepsAreCovered' /\ CursorCoversGiven'
      BY <1>3 DEF ClearCursorID, StepsAreCovered, CursorCoversGiven, Covered, HasItem, HasStamp, NoneYet
    <2> QED
      BY <1>3, <2>1, <2>2 DEF ClearCursorID, StampsSorted
  <1> QED
    BY <1>1, <1>2, <1>3

-----------------------------------------------------------------------------
\* What Gets, synchronised cursors, replays and clearing are about to store is
\* covered in every reachable state (SyncCtrl, KeepSyncThread).
THEOREM StoredCursorsAreCovered == CursorSpec => []CursorInv
  <1>1. CursorInv /\ [CursorNext]_cursorVars => CursorInv'
    <2> SUFFICES ASSUME CursorInv, [CursorNext]_cursorVars PROVE CursorInv'
      OBVIOUS
    <2>1. CASE UNCHANGED cursorVars
      BY <2>1 DEF cursorVars, CursorInv, CursorTypeOK, StampsSorted, StepsAreCovered,
                  CursorCoversGiven, Covered, HasItem, HasStamp
    <2>2. ASSUME NEW t \in GetThread, StartGet(t) \/ UpdatePrev(t) \/ UpdateNext(t)
          PROVE  CursorInv'
      BY <2>2, StartGetInv, UpdatePrevInv, UpdateNextInv
    <2> QED
      BY <2>1, <2>2, ConsumerInv, SyncInv, ReplayInv DEF CursorNext
  <1> QED
    BY <1>1, CursorInitInv, PTL DEF CursorSpec

\* The acknowledged cursor covers only items that the group was given, or that
\* a replay was told to pass over, for any number of threads and instances and
\* any interleaving between the locks of SyncCtrl.
THEOREM AcknowledgedWasGiven == CursorSpec => []CursorCoversGiven
  <1>1. CursorInv => CursorCoversGiven
    BY DEF CursorInv
  <1> QED
    BY <1>1, StoredCursorsAreCovered, PTL

\* The binary search of Replay passes over no item that is not older than the
\* timestamp, but for the first of the log and the one where it ends, and stops
\* short of older items only behind an instance that it could not read or that
\* holds no StorePaxosArgs: for any log in which timestamps do not go back,
\* whatever is deleted and whichever reads fail meanwhile (KeepSyncThread::Replay).
THEOREM ReplayFindsTime == CursorSpec => []ReplayStartsClose
  <1>1. CursorInv => ReplayStartsClose
    BY SearchIsClose DEF CursorInv
  <1> QED
    BY <1>1, StoredCursorsAreCovered, PTL
=============================================================================
