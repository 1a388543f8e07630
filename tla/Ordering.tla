------------------------------ MODULE Ordering ------------------------------
(***************************************************************************)
(* Sorting a finite set, filtering and adding up a sequence, in forms that *)
(* TLC evaluates and that can be reasoned about: sorting counts what comes *)
(* before an element, the others are recursive functions over positions.   *)
(***************************************************************************)
EXTENDS Integers, Sequences, FiniteSets

\* The elements of a finite set S, each after the elements of before[i].
Listed(S, before) ==
  [k \in 1..Cardinality(S) |-> CHOOSE i \in S : Cardinality(before[i]) = k - 1]

\* before[i] is what comes before i in a strict total order on S.
IsTotalOrder(S, before) ==
  /\ before \in [S -> SUBSET S]
  /\ \A i \in S : i \notin before[i]
  /\ \A i, j \in S : i \in before[j] => before[i] \subseteq before[j]
  /\ \A i, j \in S : i # j => i \in before[j] \/ j \in before[i]

\* The numbers from 1 to n.
Identity(n) == [k \in 1..n |-> k]

\* What of the first n elements of s is in T, in the order of s.
KeptOf(s, T) ==
  LET kept[n \in 0..Len(s)] ==
        IF n = 0 THEN <<>>
        ELSE IF s[n] \in T THEN Append(kept[n - 1], s[n]) ELSE kept[n - 1]
  IN  kept

Kept(s, T) == KeptOf(s, T)[Len(s)]

\* The sum of the first n of a sequence of numbers.
SumOf(s) ==
  LET sum[n \in 0..Len(s)] == IF n = 0 THEN 0 ELSE sum[n - 1] + s[n]
  IN  sum

Total(s) == SumOf(s)[Len(s)]
=============================================================================
