------------------------------ MODULE Ordered ------------------------------
(* The elements of a set of numbers one after the other, as loops over an    *)
(* index, a std::set or a sorted vector meet them.  (SetToSortSeq gives the  *)
(* same sequence; this definition can be reasoned about.)  And the sum that  *)
(* such a loop makes of a number per index.                                  *)
EXTENDS Naturals, Sequences, FiniteSets

\* A sequence of numbers that goes up.
Rises(s) == \A i, j \in DOMAIN s : i < j => s[i] < s[j]

InOrder(S) == CHOOSE s \in [1..Cardinality(S) -> S] : Rises(s)

SumUpTo(n, f) ==
    LET sum[k \in 0..n] == IF k = 0 THEN 0 ELSE sum[k - 1] + f[k] IN sum[n]
=============================================================================
