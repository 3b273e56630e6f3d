----------------------------- MODULE Induction -----------------------------
(***************************************************************************)
(* Induction for the proofs: the least-number principle, stated for a set  *)
(* instead of a predicate, which is how the provers can use it.            *)
(***************************************************************************)
EXTENDS Integers, Ordered, WellFoundedInduction, FiniteSetTheorems, TLAPS

\* A set of natural numbers that is not empty has a least element.
LEMMA LeastNat ==
  ASSUME NEW T \in SUBSET Nat, T # {}
  PROVE  \E m \in T : \A n \in T : m <= n
  <1> DEFINE R == {ss \in Nat \X Nat : ss[1] < ss[2]}
  <1>1. IsWellFoundedOn(R, Nat)
    BY NatLessThanWellFounded DEF OpToRel
  <1> HIDE DEF R
  <1>2. PICK m \in T : \A n \in T : ~(<<n, m>> \in R)
    BY <1>1, WFMin
  <1>3. \A n \in T : n < m => <<n, m>> \in R
    BY DEF R
  <1>4. \A n \in T : ~(n < m)
    BY <1>2, <1>3
  <1>5. \A n \in T : n \in Nat /\ m \in Nat
    OBVIOUS
  <1>6. \A n \in T : m <= n
    BY <1>4, <1>5
  <1> QED
    BY <1>6

\* Induction: a set of numbers with 0 and the successors of its elements.
LEMMA NatSetInduction ==
  ASSUME NEW P \in SUBSET Nat, 0 \in P, \A n \in P : n + 1 \in P
  PROVE  P = Nat
  <1> SUFFICES ASSUME Nat \ P # {} PROVE FALSE
    OBVIOUS
  <1>1. PICK m \in Nat \ P : \A n \in Nat \ P : m <= n
    <2>1. (Nat \ P) \in SUBSET Nat
      OBVIOUS
    <2> QED
      BY <2>1, LeastNat
  <1>2. m # 0 /\ m - 1 \in Nat
    OBVIOUS
  <1>3. m - 1 \in P
    BY <1>1, <1>2
  <1>4. (m - 1) + 1 = m
    OBVIOUS
  <1> QED
    BY <1>3, <1>4

\* A sequence of N steps from a, the n-th of which is step[n].
Iterates(f, N, a, step) ==
    f = [n \in 0..N |-> IF n = 0 THEN a ELSE step[n][f[n - 1]]]

\* There is one, as long as the steps stay in a set S.
LEMMA IterationExists ==
  ASSUME NEW N \in Nat, NEW S, NEW a \in S, NEW step,
         \A n \in 1..N : step[n] \in [S -> S]
  PROVE  \E f \in [0..N -> S] : Iterates(f, N, a, step)
  <1> DEFINE P == {n \in Nat : n <= N => \E f \in [0..n -> S] : Iterates(f, n, a, step)}
  <1>1. 0 \in P
    <2>1. [n \in 0..0 |-> a] \in [0..0 -> S] /\ Iterates([n \in 0..0 |-> a], 0, a, step)
      BY DEF Iterates
    <2> QED
      BY <2>1
  <1>2. ASSUME NEW n \in P PROVE n + 1 \in P
    <2> SUFFICES ASSUME n + 1 <= N
                 PROVE  \E g \in [0..(n + 1) -> S] : Iterates(g, n + 1, a, step)
      OBVIOUS
    <2>1. PICK f \in [0..n -> S] : Iterates(f, n, a, step)
      OBVIOUS
    <2> DEFINE g == [k \in 0..(n + 1) |-> IF k <= n THEN f[k] ELSE step[n + 1][f[n]]]
    <2>2. n \in Nat /\ f[n] \in S /\ n + 1 \in 1..N /\ step[n + 1][f[n]] \in S
      OBVIOUS
    <2>3. g \in [0..(n + 1) -> S]
      BY <2>2
    <2>4. \A k \in 0..(n + 1) : g[k] = IF k = 0 THEN a ELSE step[k][g[k - 1]]
      <3> SUFFICES ASSUME NEW k \in 0..(n + 1)
                   PROVE  g[k] = IF k = 0 THEN a ELSE step[k][g[k - 1]]
        OBVIOUS
      <3>1. CASE k <= n
        <4>1. f[k] = IF k = 0 THEN a ELSE step[k][f[k - 1]]
          BY <3>1, <2>1, <2>2 DEF Iterates
        <4>2. k # 0 => k - 1 \in 0..(n + 1) /\ k - 1 <= n
          BY <3>1, <2>2
        <4> QED
          BY <3>1, <4>1, <4>2
      <3>2. CASE k = n + 1
        BY <3>2, <2>2
      <3> QED
        BY <3>1, <3>2, <2>2
    <2>5. Iterates(g, n + 1, a, step)
      <3> HIDE DEF g
      <3> QED
        BY <2>3, <2>4 DEF Iterates
    <2> QED
      BY <2>3, <2>5
  <1>3. P = Nat
    <2> HIDE DEF P
    <2>1. P \in SUBSET Nat
      BY DEF P
    <2> QED
      BY <1>1, <1>2, <2>1, NatSetInduction
  <1> QED
    BY <1>3

\* Products and quotients of natural numbers.
LEMMA ProductType ==
  /\ \A a, b \in Nat : a * b \in Nat
  /\ \A a, b \in Nat \ {0} : a * b \in Nat \ {0}
  OBVIOUS

LEMMA QuotientType == ASSUME NEW a \in Nat, NEW b \in Nat \ {0} PROVE a \div b \in Nat
  OBVIOUS

\* A quotient is at least k when the dividend is k times the divisor or more.
LEMMA QuotientAtLeast ==
  ASSUME NEW a \in Nat, NEW b \in Nat \ {0}, NEW k \in Nat, k * b <= a
  PROVE  k <= a \div b
  OBVIOUS

LEMMA ProductOrder ==
  ASSUME NEW a \in Nat, NEW b \in Nat, NEW c \in Nat, b <= c
  PROVE  a * b <= a * c
  OBVIOUS

\* The partial sums of a loop over numbers.
PartialSums(t, N, f) == t = [n \in 0..N |-> IF n = 0 THEN 0 ELSE t[n - 1] + f[n]]

\* They are natural numbers, each made from the one before; the last is the sum.
Sums(t, N, f) ==
    /\ \A n \in 0..N : t[n] \in Nat
    /\ t[0] = 0 /\ \A n \in 1..N : t[n] = t[n - 1] + f[n]
    /\ SumUpTo(N, f) = t[N]

LEMMA SumsExist ==
  ASSUME NEW N \in Nat, NEW f \in [1..N -> Nat]
  PROVE  \E t : Sums(t, N, f)
  <1> DEFINE step == [n \in 1..N |-> [a \in Nat |-> a + f[n]]]
  <1>1. \A n \in 1..N : step[n] \in [Nat -> Nat]
    OBVIOUS
  <1>2. \A n \in 1..N : \A a \in Nat : step[n][a] = a + f[n]
    OBVIOUS
  <1> HIDE DEF step
  <1>3. PICK u \in [0..N -> Nat] : Iterates(u, N, 0, step)
    <2>1. 0 \in Nat
      OBVIOUS
    <2> QED
      BY <1>1, <2>1, IterationExists
  <1>4. \A n \in 1..N : step[n][u[n - 1]] = u[n - 1] + f[n]
    <2> SUFFICES ASSUME NEW n \in 1..N PROVE step[n][u[n - 1]] = u[n - 1] + f[n]
      OBVIOUS
    <2>1. u[n - 1] \in Nat
      OBVIOUS
    <2> QED
      BY <2>1, <1>2
  <1>5. PartialSums(u, N, f)
    BY <1>3, <1>4 DEF Iterates, PartialSums
  <1> DEFINE t == CHOOSE x : PartialSums(x, N, f)
  <1>6. PartialSums(t, N, f)
    BY <1>5
  <1>7. SumUpTo(N, f) = t[N]
    BY DEF SumUpTo, PartialSums
  <1> HIDE DEF t
  <1> DEFINE P == {n \in Nat : n <= N => t[n] \in Nat}
  <1>8. 0 \in P
    BY <1>6 DEF PartialSums
  <1>9. ASSUME NEW n \in P PROVE n + 1 \in P
    <2> SUFFICES ASSUME n + 1 <= N PROVE t[n + 1] \in Nat
      OBVIOUS
    <2>0. n \in Nat /\ n + 1 \in 0..N /\ n + 1 # 0 /\ (n + 1) - 1 = n /\ n + 1 \in 1..N
      OBVIOUS
    <2>1. t[n] \in Nat /\ f[n + 1] \in Nat
      BY <2>0
    <2>2. t[n + 1] = t[n] + f[n + 1]
      BY <1>6, <2>0 DEF PartialSums
    <2> QED
      BY <2>1, <2>2
  <1>10. P = Nat
    <2> HIDE DEF P
    <2>1. P \in SUBSET Nat
      BY DEF P
    <2> QED
      BY <1>8, <1>9, <2>1, NatSetInduction
  <1>11. \A n \in 0..N : t[n] \in Nat
    BY <1>10
  <1>12. t[0] = 0 /\ \A n \in 1..N : t[n] = t[n - 1] + f[n]
    BY <1>6 DEF PartialSums
  <1> QED
    BY <1>7, <1>11, <1>12 DEF Sums

LEMMA SumUpToType ==
  ASSUME NEW N \in Nat, NEW f \in [1..N -> Nat]
  PROVE  SumUpTo(N, f) \in Nat
  <1>1. PICK t : Sums(t, N, f)
    BY SumsExist
  <1> QED
    BY <1>1 DEF Sums

\* A sum is at least k for each index whose number is at least k.
LEMMA SumAtLeast ==
  ASSUME NEW N \in Nat, NEW f \in [1..N -> Nat], NEW k \in Nat,
         NEW S \in SUBSET (1..N), \A n \in S : k <= f[n]
  PROVE  IsFiniteSet(S) /\ k * Cardinality(S) <= SumUpTo(N, f)
  <1>1. PICK t : Sums(t, N, f)
    BY SumsExist
  <1> DEFINE Upto(n) == S \cap (1..n)
             P == {n \in Nat : n <= N => /\ IsFiniteSet(Upto(n))
                                         /\ k * Cardinality(Upto(n)) <= t[n]}
  <1>2. 0 \in P
    <2>1. Upto(0) = {}
      OBVIOUS
    <2>2. k * 0 = 0 /\ 0 \in Nat
      OBVIOUS
    <2>3. t[0] = 0
      BY <1>1 DEF Sums
    <2>4. IsFiniteSet(Upto(0)) /\ Cardinality(Upto(0)) = 0
      BY <2>1, FS_EmptySet
    <2> HIDE DEF Upto
    <2> QED
      BY <2>2, <2>3, <2>4
  <1>3. ASSUME NEW n \in P PROVE n + 1 \in P
    <2> SUFFICES ASSUME n + 1 <= N
                 PROVE  /\ IsFiniteSet(Upto(n + 1))
                        /\ k * Cardinality(Upto(n + 1)) <= t[n + 1]
      OBVIOUS
    <2>1. n \in Nat /\ n \in 0..N /\ n + 1 \in 1..N /\ (n + 1) - 1 = n
      OBVIOUS
    <2>2. IsFiniteSet(Upto(n)) /\ k * Cardinality(Upto(n)) <= t[n]
      OBVIOUS
    <2>3. t[n + 1] = t[n] + f[n + 1] /\ t[n] \in Nat /\ f[n + 1] \in Nat
      BY <1>1, <2>1 DEF Sums
    <2>4. Cardinality(Upto(n)) \in Nat
      BY <2>2, FS_CardinalityType
    <2>5. CASE n + 1 \in S
      <3>1. Upto(n + 1) = Upto(n) \cup {n + 1} /\ n + 1 \notin Upto(n)
        BY <2>1, <2>5
      <3> HIDE DEF Upto
      <3>2. IsFiniteSet(Upto(n + 1)) /\ Cardinality(Upto(n + 1)) = Cardinality(Upto(n)) + 1
        BY <2>2, <3>1, FS_AddElement
      <3>3. k * (Cardinality(Upto(n)) + 1) = k * Cardinality(Upto(n)) + k
        BY <2>4
      <3>4. k * Cardinality(Upto(n)) \in Nat
        BY <2>4, ProductType
      <3>5. k <= f[n + 1]
        BY <2>5
      <3>6. k * Cardinality(Upto(n)) + k <= t[n + 1]
        BY <2>2, <2>3, <3>4, <3>5
      <3> QED
        BY <3>2, <3>3, <3>6
    <2>6. CASE n + 1 \notin S
      <3>1. Upto(n + 1) = Upto(n)
        BY <2>1, <2>6
      <3> HIDE DEF Upto
      <3>2. k * Cardinality(Upto(n)) \in Nat
        BY <2>4, ProductType
      <3> QED
        BY <2>2, <2>3, <3>1, <3>2
    <2> QED
      BY <2>5, <2>6
  <1>4. P = Nat
    <2> HIDE DEF P
    <2>1. P \in SUBSET Nat
      BY DEF P
    <2> QED
      BY <1>2, <1>3, <2>1, NatSetInduction
  <1>5. Upto(N) = S
    OBVIOUS
  <1>6. IsFiniteSet(Upto(N)) /\ k * Cardinality(Upto(N)) <= t[N]
    <2> HIDE DEF Upto
    <2> QED
      BY <1>4
  <1>7. SumUpTo(N, f) = t[N]
    BY <1>1 DEF Sums
  <1> HIDE DEF Upto
  <1> QED
    BY <1>5, <1>6, <1>7

\* The numbers of a bounded set can be counted in their order.
LEMMA OrderExists ==
  ASSUME NEW N \in Nat, NEW S \in SUBSET (1..N)
  PROVE  \E k \in Nat : \E s \in [1..k -> S] : Rises(s) /\ \A x \in S : \E i \in 1..k : s[i] = x
  <1> DEFINE Counted(T) == \E k \in Nat : \E s \in [1..k -> T] :
                              Rises(s) /\ \A x \in T : \E i \in 1..k : s[i] = x
             P == {n \in Nat : \A T \in SUBSET (1..n) : Counted(T)}
  <1>1. 0 \in P
    <2> SUFFICES ASSUME NEW T \in SUBSET (1..0) PROVE Counted(T)
      OBVIOUS
    <2>1. T = {}
      OBVIOUS
    <2>2. << >> \in [1..0 -> T] /\ Rises(<< >>)
      BY DEF Rises
    <2> QED
      BY <2>1, <2>2
  <1>2. ASSUME NEW n \in P PROVE n + 1 \in P
    <2> SUFFICES ASSUME NEW T \in SUBSET (1..(n + 1)) PROVE Counted(T)
      OBVIOUS
    <2>1. n \in Nat /\ T \ {n + 1} \in SUBSET (1..n)
      OBVIOUS
    <2>2. PICK k \in Nat : \E s \in [1..k -> T \ {n + 1}] :
             Rises(s) /\ \A x \in T \ {n + 1} : \E i \in 1..k : s[i] = x
      BY <2>1
    <2>3. PICK s \in [1..k -> T \ {n + 1}] :
             Rises(s) /\ \A x \in T \ {n + 1} : \E i \in 1..k : s[i] = x
      BY <2>2
    <2>4. CASE n + 1 \notin T
      BY <2>3, <2>4
    <2>5. CASE n + 1 \in T
      <3> DEFINE g == [i \in 1..(k + 1) |-> IF i = k + 1 THEN n + 1 ELSE s[i]]
      <3>1. g \in [1..(k + 1) -> T]
        BY <2>5
      <3>2. Rises(g)
        <4> SUFFICES ASSUME NEW i \in 1..(k + 1), NEW j \in 1..(k + 1), i < j
                     PROVE  g[i] < g[j]
          BY DEF Rises
        <4>0. i \in 1..k /\ i # k + 1
          OBVIOUS
        <4>1. i \in 1..k /\ g[i] = s[i] /\ s[i] \in 1..n
          <5>1. s[i] \in T \ {n + 1}
            BY <4>0
          <5> QED
            BY <4>0, <5>1, <2>1
        <4>2. CASE j = k + 1
          BY <4>1, <4>2, <2>1
        <4>3. CASE j # k + 1
          BY <4>1, <4>3, <2>3 DEF Rises
        <4> QED
          BY <4>2, <4>3
      <3>3. \A x \in T : \E i \in 1..(k + 1) : g[i] = x
        <4> TAKE x \in T
        <4>1. CASE x = n + 1
          <5>1. k + 1 \in 1..(k + 1) /\ g[k + 1] = x
            BY <4>1
          <5> QED
            BY <5>1
        <4>2. CASE x # n + 1
          <5>1. PICK i \in 1..k : s[i] = x
            BY <2>3, <4>2
          <5>2. i \in 1..(k + 1) /\ g[i] = x
            BY <5>1
          <5> QED
            BY <5>2
        <4> QED
          BY <4>1, <4>2
      <3>4. k + 1 \in Nat
        OBVIOUS
      <3> QED
        <4> HIDE DEF g
        <4> QED
          BY <3>1, <3>2, <3>3, <3>4
    <2> QED
      BY <2>4, <2>5
  <1>3. P = Nat
    <2> HIDE DEF P
    <2>1. P \in SUBSET Nat
      BY DEF P
    <2> QED
      BY <1>1, <1>2, <2>1, NatSetInduction
  <1>4. Counted(S)
    <2>1. N \in P
      BY <1>3
    <2> QED
      BY <2>1
  <1> QED
    BY <1>4

\* InOrder gives every number of the set once, and in its order.
LEMMA InOrderIsOrder ==
  ASSUME NEW N \in Nat, NEW S \in SUBSET (1..N)
  PROVE  /\ IsFiniteSet(S) /\ Cardinality(S) \in Nat
         /\ InOrder(S) \in [1..Cardinality(S) -> S] /\ Rises(InOrder(S))
         /\ \A x \in S : \E i \in 1..Cardinality(S) : InOrder(S)[i] = x
  <1>0. N \in Nat /\ S \in SUBSET (1..N) /\ S \subseteq Nat
    OBVIOUS
  <1>1. IsFiniteSet(S) /\ Cardinality(S) \in Nat
    <2>1. IsFiniteSet(1..N)
      BY FS_Interval
    <2>2. IsFiniteSet(S)
      BY <2>1, FS_Subset
    <2> QED
      BY <2>2, FS_CardinalityType
  <1>2. PICK k \in Nat : \E s \in [1..k -> S] :
           Rises(s) /\ \A x \in S : \E i \in 1..k : s[i] = x
    BY <1>0, OrderExists
  <1>3. PICK s \in [1..k -> S] : Rises(s) /\ \A x \in S : \E i \in 1..k : s[i] = x
    BY <1>2
  \* A sequence that rises has no number twice, so it counts what it covers.
  <1>4. ASSUME NEW m \in Nat, NEW r \in [1..m -> S], Rises(r)
        PROVE  Cardinality({r[i] : i \in 1..m}) = m
    <2>1. \A i, j \in 1..m : r[i] = r[j] => i = j
      <3> SUFFICES ASSUME NEW i \in 1..m, NEW j \in 1..m, r[i] = r[j], i # j PROVE FALSE
        OBVIOUS
      <3>1. r[i] \in Nat /\ r[j] \in Nat
        <4>1. r[i] \in S /\ r[j] \in S
          OBVIOUS
        <4> QED
          BY <4>1, <1>0
      <3>2. r[i] < r[j] \/ r[j] < r[i]
        BY <1>4 DEF Rises
      <3> QED
        BY <3>1, <3>2
    <2> DEFINE I == {r[i] : i \in 1..m}
    <2>2. r \in Bijection(1..m, I)
      BY <2>1 DEF Bijection, Injection, Surjection, IsInjective
    <2>3. ExistsBijection(1..m, I)
      BY <2>2 DEF ExistsBijection
    <2> QED
      BY <2>3, FS_CountingElements
  <1>5. k = Cardinality(S)
    <2>1. S = {s[i] : i \in 1..k}
      BY <1>3
    <2>2. Cardinality({s[i] : i \in 1..k}) = k
      BY <1>3, <1>4
    <2> QED
      BY <2>1, <2>2
  <1>6. InOrder(S) \in [1..Cardinality(S) -> S] /\ Rises(InOrder(S))
    BY <1>3, <1>5 DEF InOrder
  <1>7. \A x \in S : \E i \in 1..Cardinality(S) : InOrder(S)[i] = x
    <2> DEFINE c == Cardinality(S)
               r == InOrder(S)
               I == {r[i] : i \in 1..c}
    <2> HIDE DEF c, r
    <2>1. c \in Nat /\ r \in [1..c -> S] /\ Rises(r)
      BY <1>1, <1>6 DEF c, r
    <2>2. Cardinality(I) = c
      BY <2>1, <1>4
    <2>3. I \subseteq S
      BY <2>1
    <2>4. I = S
      <3> HIDE DEF I
      <3> QED
        BY <2>2, <2>3, <1>1, FS_Subset DEF c
    <2> QED
      BY <2>4 DEF c, r
  <1> QED
    BY <1>1, <1>6, <1>7
=============================================================================
