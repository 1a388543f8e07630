--------------------------- MODULE OrderingProofs ---------------------------
(***************************************************************************)
(* What the operators of Ordering return, for every finite set and every   *)
(* sequence.                                                               *)
(***************************************************************************)
EXTENDS Ordering, FiniteSetTheorems, SequenceTheorems, TLAPS

\* Three sequences, one behind the other.
MayRegroup(a, b, c) == (a \o b) \o c = a \o (b \o c)

LEMMA ThreeBehind ==
  \A S : \A a, b, c \in Seq(S) : MayRegroup(a, b, c)
  BY ConcatAssociative DEF MayRegroup

\* Behind a sequence, one with one more element is both with that element.
LEMMA AppendBehind ==
  ASSUME NEW S, NEW s \in Seq(S), NEW t \in Seq(S), NEW x \in S
  PROVE  s \o Append(t, x) = Append(s \o t, x)
<1> DEFINE one == <<x>>
<1>1. one \in Seq(S)
  OBVIOUS
<1>2. Append(t, x) = t \o one
  BY AppendIsConcat
<1>3. s \o t \in Seq(S)
  BY ConcatProperties
<1>4. Append(s \o t, x) = (s \o t) \o one
  BY <1>3, AppendIsConcat
<1> HIDE DEF one
<1>5. (s \o t) \o one = s \o (t \o one)
  BY <1>1, ConcatAssociative
<1> QED BY <1>2, <1>4, <1>5

\* In a strict total order an element comes before another exactly when fewer
\* elements come before it.
LEMMA FewerBefore ==
  ASSUME NEW S, IsFiniteSet(S), NEW before, IsTotalOrder(S, before),
         NEW i \in S, NEW j \in S
  PROVE  /\ IsFiniteSet(before[i]) /\ IsFiniteSet(before[j])
         /\ Cardinality(before[i]) \in 0..(Cardinality(S) - 1)
         /\ i \in before[j] <=> Cardinality(before[i]) < Cardinality(before[j])
<1> USE DEF IsTotalOrder
<1>1. ASSUME NEW x \in S
      PROVE /\ IsFiniteSet(before[x])
            /\ Cardinality(before[x]) \in 0..(Cardinality(S) - 1)
  <2>1. /\ IsFiniteSet(S \ {x}) /\ Cardinality(S \ {x}) = Cardinality(S) - 1
    BY FS_RemoveElement
  <2>2. before[x] \in SUBSET (S \ {x})
    OBVIOUS
  <2>3. IsFiniteSet(before[x]) /\ Cardinality(before[x]) <= Cardinality(S \ {x})
    BY <2>1, <2>2, FS_Subset
  <2>4. Cardinality(before[x]) \in Nat /\ Cardinality(S) \in Nat
    BY <2>3, FS_CardinalityType
  <2> QED
    BY <2>1, <2>3, <2>4
<1>2. ASSUME NEW x \in S, NEW y \in S, x \in before[y]
      PROVE Cardinality(before[x]) < Cardinality(before[y])
  <2>1. before[x] \in SUBSET before[y] /\ before[x] # before[y]
    BY <1>2
  <2>2. /\ Cardinality(before[x]) <= Cardinality(before[y])
        /\ Cardinality(before[x]) # Cardinality(before[y])
    BY <1>1, <2>1, FS_Subset
  <2> QED
    BY <1>1, <2>2
<1>3. CASE i \in before[j]
  BY <1>1, <1>2, <1>3
<1>4. CASE j \in before[i]
  BY <1>1, <1>2, <1>4
<1>5. CASE i = j
  BY <1>1, <1>5
<1> QED
  BY <1>3, <1>4, <1>5

\* Listing a finite set in a strict total order gives each element one place,
\* and the places follow the order.
LEMMA ListedInOrder ==
  ASSUME NEW S, IsFiniteSet(S), NEW before, IsTotalOrder(S, before)
  PROVE  /\ Cardinality(S) \in Nat
         /\ Listed(S, before) \in [1..Cardinality(S) -> S]
         /\ \A i \in S : \E k \in 1..Cardinality(S) : Listed(S, before)[k] = i
         /\ \A k, l \in 1..Cardinality(S) :
              k < l <=> Listed(S, before)[k] \in before[Listed(S, before)[l]]
<1> DEFINE n == Cardinality(S)
           count == [i \in S |-> Cardinality(before[i])]
           L == Listed(S, before)
<1>1. n \in Nat /\ IsFiniteSet(0..(n - 1)) /\ Cardinality(0..(n - 1)) = n
  <2>1. n \in Nat
    BY FS_CardinalityType
  <2> HIDE DEF n
  <2>2. 0 \in Int /\ n - 1 \in Int
    BY <2>1
  <2>3. /\ IsFiniteSet(0..(n - 1))
        /\ Cardinality(0..(n - 1)) = IF 0 > n - 1 THEN 0 ELSE n - 1 - 0 + 1
    BY <2>2, FS_Interval
  <2> QED
    BY <2>1, <2>3
<1>2. count \in [S -> 0..(n - 1)]
  BY FewerBefore
<1>3. \A i, j \in S : count[i] = count[j] => i = j
  <2> SUFFICES ASSUME NEW i \in S, NEW j \in S, i # j PROVE count[i] # count[j]
    OBVIOUS
  <2>1. i \in before[j] \/ j \in before[i]
    BY DEF IsTotalOrder
  <2> QED
    BY <1>2, <2>1, FewerBefore
<1>4. count \in Injection(S, 0..(n - 1))
  BY <1>2, <1>3 DEF Injection, IsInjective
<1>5. count \in Surjection(S, 0..(n - 1))
  BY <1>1, <1>4, FS_Injection
<1>6. \A k \in 1..n : L[k] \in S /\ count[L[k]] = k - 1
  <2> SUFFICES ASSUME NEW k \in 1..n PROVE L[k] \in S /\ count[L[k]] = k - 1
    OBVIOUS
  <2>1. k - 1 \in 0..(n - 1)
    BY <1>1
  <2>2. \E i \in S : count[i] = k - 1
    BY <1>5, <2>1 DEF Surjection
  <2>3. L[k] = CHOOSE i \in S : Cardinality(before[i]) = k - 1
    BY DEF Listed
  <2> QED
    BY <2>2, <2>3
<1>7. \A i \in S : \E k \in 1..n : L[k] = i
  <2> SUFFICES ASSUME NEW i \in S PROVE \E k \in 1..n : L[k] = i
    OBVIOUS
  <2>1. count[i] + 1 \in 1..n /\ count[i] \in Int
    BY <1>1, <1>2
  <2>2. count[L[count[i] + 1]] = count[i] /\ L[count[i] + 1] \in S
    BY <1>6, <2>1
  <2> QED
    BY <1>3, <2>1, <2>2
<1>8. \A k, l \in 1..n : k < l <=> L[k] \in before[L[l]]
  <2> SUFFICES ASSUME NEW k \in 1..n, NEW l \in 1..n
               PROVE k < l <=> L[k] \in before[L[l]]
    OBVIOUS
  <2>1. L[k] \in before[L[l]] <=> count[L[k]] < count[L[l]]
    BY <1>6, FewerBefore
  <2> QED
    BY <1>1, <1>6, <2>1
<1>9. L \in [1..n -> S]
  BY <1>6 DEF Listed
<1> QED
  BY <1>1, <1>7, <1>8, <1>9

----------------------------------------------------------------------------
(* Induction and recursion up to a bound, for sets and functions. *)

\* A set of numbers that has 0 and with each number the next has all of them.
LEMMA InductionUpTo ==
  ASSUME NEW n \in Nat, NEW T, 0 \in T,
         \A k \in 1..n : k - 1 \in T => k \in T
  PROVE  \A k \in 0..n : k \in T
<1> DEFINE R == {ss \in Nat \X Nat : ss[1] < ss[2]}
           U == {k \in 0..n : k \notin T}
<1> SUFFICES ASSUME U # {} PROVE FALSE
  OBVIOUS
<1>1. IsWellFoundedOn(R, Nat)
  BY NatLessThanWellFounded DEF OpToRel
<1>2. U \subseteq Nat
  OBVIOUS
<1>3. \A x \in Nat, y \in Nat : x < y => <<x, y>> \in R
  <2> SUFFICES ASSUME NEW x \in Nat, NEW y \in Nat, x < y PROVE <<x, y>> \in R
    OBVIOUS
  <2>1. <<x, y>>[1] = x /\ <<x, y>>[2] = y
    OBVIOUS
  <2> QED
    BY <2>1
<1> HIDE DEF R, U
<1>4. PICK k \in U : \A j \in U : <<j, k>> \notin R
  BY <1>1, <1>2, WFMin
<1> USE DEF U
<1>5. k \in 1..n
  BY <1>4
<1>6. k - 1 \in 0..n /\ k - 1 < k
  BY <1>5
<1>7. k - 1 \notin U
  BY <1>2, <1>3, <1>4, <1>6
<1> QED
  BY <1>4, <1>5, <1>6, <1>7

\* Among some numbers there is a least one.
LEMMA HasLeast ==
  ASSUME NEW T, T \subseteq Nat, T # {}
  PROVE  \E k \in T : \A j \in T : k <= j
<1> DEFINE R == {ss \in Nat \X Nat : ss[1] < ss[2]}
<1>1. IsWellFoundedOn(R, Nat)
  BY NatLessThanWellFounded DEF OpToRel
<1>2. \A x \in Nat, y \in Nat : x < y => <<x, y>> \in R
  <2> SUFFICES ASSUME NEW x \in Nat, NEW y \in Nat, x < y PROVE <<x, y>> \in R
    OBVIOUS
  <2>1. <<x, y>>[1] = x /\ <<x, y>>[2] = y
    OBVIOUS
  <2> QED
    BY <2>1
<1> HIDE DEF R
<1>3. PICK k \in T : \A j \in T : <<j, k>> \notin R
  BY <1>1, WFMin
<1>4. ASSUME NEW j \in T PROVE k <= j
  <2>1. j \in Nat /\ k \in Nat /\ ~(j < k)
    BY <1>2, <1>3
  <2> QED
    BY <2>1
<1> QED
  BY <1>4

\* f is defined at 0, and at each later number up to n from its value before.
IsRecursive(f, n, A, base, step) ==
  /\ f \in [0..n -> A]
  /\ f[0] = base
  /\ \A k \in 1..n : f[k] = step[k][f[k - 1]]

\* There is such a function.
LEMMA RecursionUpTo ==
  ASSUME NEW n \in Nat, NEW A, NEW base \in A, NEW step \in [1..n -> [A -> A]]
  PROVE  \E f : IsRecursive(f, n, A, base, step)
<1> DEFINE Good(f, k) == IsRecursive(f, k, A, base, step)
           T == {k \in 0..n : \E f : Good(f, k)}
<1>1. 0 \in T
  <2>1. Good([k \in 0..0 |-> base], 0)
    BY DEF IsRecursive
  <2>2. \E f : Good(f, 0)
    <3> HIDE DEF Good
    <3> QED BY <2>1
  <2> QED
    BY <2>2
<1>2. ASSUME NEW k \in 1..n, k - 1 \in T PROVE k \in T
  <2>1. PICK f : Good(f, k - 1)
    BY <1>2
  <2> DEFINE g == [j \in 0..k |-> IF j = k THEN step[k][f[k - 1]] ELSE f[j]]
  <2>2. k - 1 \in 0..(k - 1) /\ f[k - 1] \in A
    BY <2>1 DEF IsRecursive
  <2>3. step[k][f[k - 1]] \in A
    BY <2>2
  <2>4. g \in [0..k -> A]
    BY <2>1, <2>3 DEF IsRecursive
  <2>5. g[0] = base
    BY <2>1 DEF IsRecursive
  <2>6. ASSUME NEW j \in 1..k PROVE g[j] = step[j][g[j - 1]]
    <3>1. j - 1 \in 0..k /\ j - 1 # k /\ g[j - 1] = f[j - 1]
      OBVIOUS
    <3>2. CASE j = k
      BY <3>1, <3>2
    <3>3. CASE j # k
      <4>1. j \in 1..(k - 1) /\ g[j] = f[j]
        BY <3>3
      <4> QED
        BY <2>1, <3>1, <4>1 DEF IsRecursive
    <3> QED
      BY <3>2, <3>3
  <2>7. Good(g, k)
    BY <2>4, <2>5, <2>6 DEF IsRecursive
  <2>8. \E h : Good(h, k)
    <3> HIDE DEF Good, g
    <3> QED BY <2>7
  <2> QED
    BY <2>8
<1> HIDE DEF T
<1>3. \A k \in 0..n : k \in T
  BY <1>1, <1>2, InductionUpTo
<1>4. n \in T
  BY <1>3
<1> QED
  BY <1>4 DEF T
----------------------------------------------------------------------------
(* Filtering *)

\* KeptOf is what its recursion says.
LEMMA KeptOfUnfold ==
  ASSUME NEW S, NEW s \in Seq(S), NEW T
  PROVE  /\ KeptOf(s, T)[0] = <<>>
         /\ \A n \in 1..Len(s) :
              KeptOf(s, T)[n] = IF s[n] \in T THEN Append(KeptOf(s, T)[n - 1], s[n])
                                ELSE KeptOf(s, T)[n - 1]
<1> DEFINE Body(g) == [n \in 0..Len(s) |->
                         IF n = 0 THEN <<>>
                         ELSE IF s[n] \in T THEN Append(g[n - 1], s[n]) ELSE g[n - 1]]
           step == [n \in 1..Len(s) |->
                      [a \in Seq(S) |-> IF s[n] \in T THEN Append(a, s[n]) ELSE a]]
<1>1. KeptOf(s, T) = CHOOSE g : g = Body(g)
  BY Zenon DEF KeptOf
<1>2. step \in [1..Len(s) -> [Seq(S) -> Seq(S)]]
  <2>1. \A n \in 1..Len(s) : s[n] \in S
    OBVIOUS
  <2>2. \A n \in 1..Len(s), a \in Seq(S) :
          (IF s[n] \in T THEN Append(a, s[n]) ELSE a) \in Seq(S)
    BY <2>1
  <2> QED
    BY <2>2
<1>3. \A n \in 1..Len(s), a \in Seq(S) :
        step[n][a] = IF s[n] \in T THEN Append(a, s[n]) ELSE a
  OBVIOUS
<1>4. Len(s) \in Nat /\ <<>> \in Seq(S)
  OBVIOUS
<1> HIDE DEF step
<1>5. PICK f \in [0..Len(s) -> Seq(S)] :
        /\ f[0] = <<>>
        /\ \A n \in 1..Len(s) : f[n] = step[n][f[n - 1]]
  <2> DEFINE m == Len(s)
             A == Seq(S)
             base == <<>>
  <2>1. m \in Nat /\ base \in A /\ step \in [1..m -> [A -> A]]
    BY <1>2, <1>4
  <2> HIDE DEF m, A, base
  <2>2. \E f : IsRecursive(f, m, A, base, step)
    BY <2>1, RecursionUpTo
  <2> QED
    BY <2>2 DEF m, A, base, IsRecursive
<1>6. f = Body(f)
  <2>1. ASSUME NEW n \in 1..Len(s)
        PROVE f[n] = IF s[n] \in T THEN Append(f[n - 1], s[n]) ELSE f[n - 1]
    <3>1. n - 1 \in 0..Len(s)
      BY <1>4
    <3> QED
      BY <1>3, <1>5, <3>1
  <2>2. \A n \in 0..Len(s) : n = 0 \/ n \in 1..Len(s)
    BY <1>4
  <2>3. \A n \in 0..Len(s) :
          f[n] = IF n = 0 THEN <<>>
                 ELSE IF s[n] \in T THEN Append(f[n - 1], s[n]) ELSE f[n - 1]
    BY <1>5, <2>1, <2>2
  <2> QED
    BY <2>3
<1>7. KeptOf(s, T) = Body(KeptOf(s, T))
  <2> HIDE DEF Body
  <2> QED
    BY <1>1, <1>6
<1>8. /\ 0 \in 0..Len(s)
      /\ \A n \in 1..Len(s) : n \in 0..Len(s) /\ n # 0
  BY <1>4
<1> DEFINE K == KeptOf(s, T)
<1> HIDE DEF K
<1>9. K = Body(K)
  BY <1>7 DEF K
<1>10. K[0] = <<>>
  BY <1>8, <1>9
<1>11. ASSUME NEW n \in 1..Len(s)
       PROVE K[n] = IF s[n] \in T THEN Append(K[n - 1], s[n]) ELSE K[n - 1]
  BY <1>8, <1>9
<1> QED
  BY <1>10, <1>11 DEF K

\* r holds the elements of s that are in T: r[k] is the one at place at[k].
IsKept(at, r, s, T) ==
  /\ at \in [1..Len(r) -> 1..Len(s)]
  /\ \A k \in 1..Len(r) : r[k] = s[at[k]] /\ s[at[k]] \in T
  /\ \A k, l \in 1..Len(r) : k < l <=> at[k] < at[l]
  /\ \A i \in 1..Len(s) : s[i] \in T => \E k \in 1..Len(r) : at[k] = i

\* What is kept of a sequence: the elements that are in T, each from a place of
\* its own, in the order they had.
LEMMA KeptFacts ==
  ASSUME NEW S, NEW s \in Seq(S), NEW T
  PROVE  /\ Kept(s, T) \in Seq(S)
         /\ \E at : IsKept(at, Kept(s, T), s, T)
<1> DEFINE K == KeptOf(s, T)
           From(at, n) ==
             /\ at \in [1..Len(K[n]) -> 1..n]
             /\ \A k \in 1..Len(K[n]) : K[n][k] = s[at[k]] /\ s[at[k]] \in T
             /\ \A k, l \in 1..Len(K[n]) : k < l <=> at[k] < at[l]
             /\ \A i \in 1..n : s[i] \in T => \E k \in 1..Len(K[n]) : at[k] = i
           I == {n \in 0..Len(s) : K[n] \in Seq(S) /\ \E at : From(at, n)}
<1>1. Len(s) \in Nat /\ \A n \in 1..Len(s) : s[n] \in S
  OBVIOUS
<1>2. /\ K[0] = <<>>
      /\ \A n \in 1..Len(s) :
           K[n] = IF s[n] \in T THEN Append(K[n - 1], s[n]) ELSE K[n - 1]
  BY KeptOfUnfold
<1> HIDE DEF K
<1>3. 0 \in I
  <2>1. From([k \in 1..0 |-> 0], 0) /\ K[0] \in Seq(S)
    BY <1>2
  <2> QED
    BY <1>1, <2>1
<1>4. ASSUME NEW n \in 1..Len(s), n - 1 \in I PROVE n \in I
  <2>1. PICK at : From(at, n - 1)
    BY <1>4
  <2>2. K[n - 1] \in Seq(S) /\ s[n] \in S /\ n \in Nat /\ n - 1 \in Nat
    BY <1>1, <1>4
  <2> DEFINE m == Len(K[n - 1])
  <2>3. m \in Nat
    BY <2>2
  <2>4. CASE s[n] \in T
    <3> DEFINE b == [k \in 1..(m + 1) |-> IF k = m + 1 THEN n ELSE at[k]]
    <3>1. K[n] = Append(K[n - 1], s[n])
      BY <1>2, <2>4
    <3>2. /\ K[n] \in Seq(S) /\ Len(K[n]) = m + 1 /\ K[n][m + 1] = s[n]
          /\ \A k \in 1..m : K[n][k] = K[n - 1][k]
      BY <2>2, <3>1, AppendProperties
    <3> HIDE DEF m
    <3>a. /\ at \in [1..m -> 1..(n - 1)]
          /\ \A k, l \in 1..m : k < l <=> at[k] < at[l]
      BY <2>1 DEF m
    <3>3. ASSUME NEW k \in 1..m PROVE at[k] \in 1..(n - 1) /\ b[k] = at[k]
      BY <2>3, <3>a
    <3>4. b[m + 1] = n
      BY <2>3
    <3>5. \A k \in 1..(m + 1) : k \in 1..m \/ k = m + 1
      BY <2>3
    <3>6. b \in [1..(m + 1) -> 1..n]
      BY <2>2, <3>3, <3>4, <3>5
    <3>7. \A k \in 1..(m + 1) : K[n][k] = s[b[k]] /\ s[b[k]] \in T
      BY <2>1, <2>4, <3>2, <3>3, <3>4, <3>5 DEF m
    <3> HIDE DEF b
    <3>8. ASSUME NEW k \in 1..(m + 1), NEW l \in 1..(m + 1) PROVE k < l <=> b[k] < b[l]
      <4>1. CASE k \in 1..m /\ l \in 1..m
        BY <3>a, <3>3, <4>1
      <4>2. CASE k \in 1..m /\ l = m + 1
        <5>1. b[k] \in 1..(n - 1) /\ b[l] = n /\ k < l
          BY <2>3, <3>3, <3>4, <4>2
        <5> QED
          BY <2>2, <5>1
      <4>3. CASE k = m + 1
        <5>1. b[k] = n /\ b[l] \in 1..n /\ ~(k < l)
          BY <2>3, <3>4, <3>6, <4>3
        <5> QED
          BY <2>2, <5>1
      <4> QED
        BY <3>5, <4>1, <4>2, <4>3
    <3>9. ASSUME NEW i \in 1..n, s[i] \in T PROVE \E k \in 1..(m + 1) : b[k] = i
      <4>1. CASE i = n
        BY <2>3, <3>4, <4>1
      <4>2. CASE i # n
        <5>1. i \in 1..(n - 1)
          BY <2>2, <4>2
        <5>2. PICK k \in 1..m : at[k] = i
          BY <2>1, <3>9, <5>1 DEF m
        <5> QED
          BY <2>3, <3>3, <5>2
      <4> QED
        BY <4>1, <4>2
    <3>10. From(b, n)
      BY <3>2, <3>6, <3>7, <3>8, <3>9
    <3>11. n \in 0..Len(s)
      BY <1>1
    <3> HIDE DEF From
    <3> QED
      BY <3>2, <3>10, <3>11
  <2>5. CASE s[n] \notin T
    <3>1. K[n] = K[n - 1]
      BY <1>2, <2>5
    <3>2. \A i \in 1..n : s[i] \in T => i \in 1..(n - 1)
      BY <2>2, <2>5
    <3>3. at \in [1..m -> 1..n]
      BY <2>1, <2>2
    <3>4. From(at, n)
      BY <2>1, <3>1, <3>2, <3>3
    <3>5. K[n] \in Seq(S) /\ n \in 0..Len(s)
      BY <1>1, <2>2, <3>1
    <3> HIDE DEF From
    <3> QED
      BY <3>4, <3>5
  <2> QED
    BY <2>4, <2>5
<1> HIDE DEF I
<1>5. \A n \in 0..Len(s) : n \in I
  BY <1>1, <1>3, <1>4, InductionUpTo
<1>6. Len(s) \in I
  BY <1>1, <1>5
<1>7. Kept(s, T) = K[Len(s)]
  BY DEF Kept, K
<1>8. PICK at : From(at, Len(s))
  BY <1>6 DEF I
<1>9. IsKept(at, Kept(s, T), s, T)
  BY <1>7, <1>8 DEF IsKept
<1> QED
  BY <1>6, <1>7, <1>9 DEF I

\* Nothing is kept more often than it was there, and the list gets shorter when
\* something is left out.
LEMMA KeptShrinks ==
  ASSUME NEW S, NEW s \in Seq(S), NEW T
  PROVE  /\ Len(Kept(s, T)) <= Len(s)
         /\ (\E i \in 1..Len(s) : s[i] \notin T) => Len(Kept(s, T)) < Len(s)
<1> DEFINE n == Len(Kept(s, T))
           m == Len(s)
<1>1. PICK at \in [1..n -> 1..m] :
        /\ \A k \in 1..n : s[at[k]] \in T
        /\ \A k, l \in 1..n : k < l <=> at[k] < at[l]
  BY KeptFacts DEF IsKept
<1>2. n \in Nat /\ m \in Nat
  BY KeptFacts
<1> HIDE DEF n, m
<1>3. at \in Injection(1..n, 1..m)
  <2>1. ASSUME NEW k \in 1..n, NEW l \in 1..n, at[k] = at[l] PROVE k = l
    <3>1. at[k] \in Int /\ at[l] \in Int /\ k \in Int /\ l \in Int
      BY <1>1, <1>2
    <3> QED
      BY <1>1, <2>1, <3>1
  <2> QED
    BY <1>1, <2>1 DEF Injection, IsInjective
<1>4. /\ IsFiniteSet(1..m)
      /\ Cardinality(1..n) = IF 1 > n THEN 0 ELSE n - 1 + 1
      /\ Cardinality(1..m) = IF 1 > m THEN 0 ELSE m - 1 + 1
  BY <1>2, FS_Interval
<1>5. /\ Cardinality(1..n) <= Cardinality(1..m)
      /\ Cardinality(1..n) = Cardinality(1..m) => at \in Surjection(1..n, 1..m)
  BY <1>3, <1>4, FS_Injection
<1>6. n <= m /\ (n = m => at \in Surjection(1..n, 1..m))
  BY <1>2, <1>4, <1>5
<1>7. ASSUME NEW i \in 1..m, s[i] \notin T PROVE n # m
  BY <1>1, <1>6, <1>7 DEF Surjection
<1> QED
  BY <1>2, <1>6, <1>7 DEF m, n

----------------------------------------------------------------------------
(* Filtering by place *)

\* K lists the numbers of 1..n that are in T, in order.
IsListOf(K, n, T) ==
  /\ K \in Seq(1..n)
  /\ \A k \in 1..Len(K) : K[k] \in T
  /\ \A k, l \in 1..Len(K) : k < l <=> K[k] < K[l]
  /\ \A i \in 1..n : i \in T => \E k \in 1..Len(K) : K[k] = i

\* Filtering the numbers lists those that are kept.
LEMMA KeptIdentity ==
  ASSUME NEW n \in Nat, NEW T
  PROVE  IsListOf(Kept(Identity(n), T), n, T)
<1> DEFINE I == Identity(n)
           K == Kept(I, T)
<1>1. I \in Seq(1..n) /\ Len(I) = n /\ \A k \in 1..n : I[k] = k
  BY DEF Identity
<1> HIDE DEF I
<1>2. K \in Seq(1..n) /\ \E at : IsKept(at, K, I, T)
  BY <1>1, KeptFacts
<1> HIDE DEF K
<1>3. PICK at : IsKept(at, K, I, T)
  BY <1>2
<1>4. /\ at \in [1..Len(K) -> 1..n]
      /\ \A k \in 1..Len(K) : K[k] = at[k] /\ at[k] \in T
      /\ \A k, l \in 1..Len(K) : k < l <=> at[k] < at[l]
      /\ \A i \in 1..n : i \in T => \E k \in 1..Len(K) : at[k] = i
  BY <1>1, <1>3 DEF IsKept
<1> QED
  BY <1>2, <1>4 DEF IsListOf, K, I

\* A list of numbers in order has each once, and the least comes first.
LEMMA ListOfFacts ==
  ASSUME NEW n \in Nat, NEW T, NEW K, IsListOf(K, n, T)
  PROVE  /\ Len(K) \in Nat /\ K \in [1..Len(K) -> 1..n]
         /\ \A k, l \in 1..Len(K) : K[k] = K[l] => k = l
         /\ n > 0 /\ 1 \in T => Len(K) >= 1 /\ K[1] = 1
<1>1. Len(K) \in Nat /\ K \in [1..Len(K) -> 1..n]
  BY DEF IsListOf
<1>2. ASSUME NEW k \in 1..Len(K), NEW l \in 1..Len(K), K[k] = K[l] PROVE k = l
  <2>1. K[k] \in Int /\ k \in Int /\ l \in Int
    BY <1>1
  <2> QED
    BY <1>2, <2>1 DEF IsListOf
<1>3. ASSUME n > 0, 1 \in T PROVE Len(K) >= 1 /\ K[1] = 1
  <2>1. PICK k \in 1..Len(K) : K[k] = 1
    BY <1>3 DEF IsListOf
  <2>2. 1 \in 1..Len(K) /\ K[1] \in 1..n
    BY <1>1
  <2>3. ~(1 < k)
    BY <2>1, <2>2 DEF IsListOf
  <2> QED
    BY <1>1, <2>1, <2>3
<1> QED
  BY <1>1, <1>2, <1>3

\* The elements of s at the places that order lists.
InOrder(s, order) == [k \in 1..Len(order) |-> s[order[k]]]

\* The places of s that have an element of T.
PlacesOf(s, T) == {i \in 1..Len(s) : s[i] \in T}

\* What is kept of a sequence is what stands at the places of it that are kept.
LEMMA KeptAtPlaces ==
  ASSUME NEW S, NEW s \in Seq(S), NEW T
  PROVE  Kept(s, T) = InOrder(s, Kept(Identity(Len(s)), PlacesOf(s, T)))
<1> DEFINE n == Len(s)
           P == PlacesOf(s, T)
           K == Kept(Identity(n), P)
           f == KeptOf(s, T)
           g == KeptOf(Identity(n), P)
           I == {t \in 0..n : /\ g[t] \in Seq(1..n)
                              /\ f[t] = [k \in 1..Len(g[t]) |-> s[g[t][k]]]}
<1>1. n \in Nat
  OBVIOUS
<1>2. Identity(n) \in Seq(1..n) /\ Len(Identity(n)) = n /\ \A t \in 1..n : Identity(n)[t] = t
  BY DEF Identity
<1>3. /\ f[0] = <<>>
      /\ \A t \in 1..n : f[t] = IF s[t] \in T THEN Append(f[t - 1], s[t]) ELSE f[t - 1]
  BY KeptOfUnfold
<1>4. /\ g[0] = <<>>
      /\ \A t \in 1..n : g[t] = IF t \in P THEN Append(g[t - 1], t) ELSE g[t - 1]
  <2> DEFINE u == Identity(n)
  <2> HIDE DEF u
  <2>1. /\ KeptOf(u, P)[0] = <<>>
        /\ \A t \in 1..Len(u) : KeptOf(u, P)[t] = IF u[t] \in P THEN Append(KeptOf(u, P)[t - 1], u[t])
                                                  ELSE KeptOf(u, P)[t - 1]
    BY <1>2, KeptOfUnfold DEF u
  <2> QED
    BY <1>2, <2>1 DEF u
<1> HIDE DEF f, g, P
<1>5. 0 \in I
  BY <1>1, <1>3, <1>4
<1>6. ASSUME NEW t \in 1..n, t - 1 \in I PROVE t \in I
  <2>1. /\ g[t - 1] \in Seq(1..n)
        /\ f[t - 1] = [k \in 1..Len(g[t - 1]) |-> s[g[t - 1][k]]]
        /\ t \in 0..n /\ (t \in P <=> s[t] \in T)
    BY <1>1, <1>6 DEF P, PlacesOf
  <2>2. CASE t \in P
    <3>1. f[t] = Append(f[t - 1], s[t]) /\ g[t] = Append(g[t - 1], t)
      BY <1>3, <1>4, <2>1, <2>2
    <3> DEFINE a == g[t - 1]
               b == f[t - 1]
    <3>2. a \in Seq(1..n) /\ Len(a) \in Nat /\ b = [k \in 1..Len(a) |-> s[a[k]]]
      BY <2>1
    <3>3. \A k \in 1..Len(a) : a[k] \in 1..n
      BY <3>2
    <3>4. b \in Seq(S) /\ Len(b) = Len(a) /\ \A k \in 1..Len(a) : b[k] = s[a[k]]
      <4>1. \A k \in 1..Len(a) : s[a[k]] \in S
        BY <3>3
      <4>2. b \in [1..Len(a) -> S]
        BY <3>2, <4>1
      <4> QED
        BY <3>2, <4>2
    <3> HIDE DEF a, b
    <3>5. /\ Append(a, t) \in Seq(1..n) /\ Len(Append(a, t)) = Len(a) + 1
          /\ \A k \in 1..Len(a) : Append(a, t)[k] = a[k]
          /\ Append(a, t)[Len(a) + 1] = t
      BY <3>2, AppendProperties
    <3>6. /\ Append(b, s[t]) \in Seq(S) /\ Len(Append(b, s[t])) = Len(a) + 1
          /\ \A k \in 1..Len(a) : Append(b, s[t])[k] = b[k]
          /\ Append(b, s[t])[Len(a) + 1] = s[t]
      <4>1. s[t] \in S
        OBVIOUS
      <4> QED
        BY <3>4, <4>1, AppendProperties
    <3>7. \A k \in 1..(Len(a) + 1) : k \in 1..Len(a) \/ k = Len(a) + 1
      BY <3>2
    <3> DEFINE c == Append(a, t)
               e == Append(b, s[t])
    <3> HIDE DEF c, e
    <3>8. /\ \A k \in 1..(Len(a) + 1) : e[k] = s[c[k]]
          /\ e \in [1..(Len(a) + 1) -> S] /\ Len(c) = Len(a) + 1 /\ c \in Seq(1..n)
      <4>1. ASSUME NEW k \in 1..(Len(a) + 1) PROVE e[k] = s[c[k]]
        <5>1. CASE k \in 1..Len(a)
          BY <3>4, <3>5, <3>6, <5>1 DEF c, e
        <5>2. CASE k = Len(a) + 1
          BY <3>5, <3>6, <5>2 DEF c, e
        <5> QED
          BY <3>7, <5>1, <5>2
      <4>2. /\ e \in Seq(S) /\ Len(e) = Len(a) + 1 /\ c \in Seq(1..n) /\ Len(c) = Len(a) + 1
        BY <3>5, <3>6 DEF c, e
      <4> QED
        BY <4>1, <4>2
    <3>9. e = [k \in 1..Len(c) |-> s[c[k]]]
      BY <3>8
    <3> QED
      BY <2>1, <3>1, <3>8, <3>9 DEF a, b, c, e
  <2>3. CASE t \notin P
    <3>1. f[t] = f[t - 1] /\ g[t] = g[t - 1]
      BY <1>3, <1>4, <2>1, <2>3
    <3> QED
      BY <2>1, <3>1
  <2> QED
    BY <2>2, <2>3
<1> HIDE DEF I
<1>7. \A t \in 0..n : t \in I
  BY <1>1, <1>5, <1>6, InductionUpTo
<1>8. n \in I
  BY <1>1, <1>7
<1>9. Kept(s, T) = f[n] /\ K = g[n]
  BY <1>2 DEF Kept, f, g
<1> QED
  BY <1>8, <1>9 DEF I, InOrder, P

----------------------------------------------------------------------------
(* Adding up *)

\* SumOf is what its recursion says.
LEMMA SumOfUnfold ==
  ASSUME NEW s \in Seq(Int)
  PROVE  /\ SumOf(s) \in [0..Len(s) -> Int]
         /\ SumOf(s)[0] = 0
         /\ \A n \in 1..Len(s) : SumOf(s)[n] = SumOf(s)[n - 1] + s[n]
<1> DEFINE Body(g) == [n \in 0..Len(s) |-> IF n = 0 THEN 0 ELSE g[n - 1] + s[n]]
           step == [n \in 1..Len(s) |-> [a \in Int |-> a + s[n]]]
           m == Len(s)
<1>1. SumOf(s) = CHOOSE g : g = Body(g)
  BY Zenon DEF SumOf
<1>2. m \in Nat /\ \A n \in 1..m : s[n] \in Int
  OBVIOUS
<1>3. step \in [1..m -> [Int -> Int]] /\ \A n \in 1..m, a \in Int : step[n][a] = a + s[n]
  BY <1>2
<1> HIDE DEF step, m
<1>4. PICK f : IsRecursive(f, m, Int, 0, step)
  <2> DEFINE A == Int
             base == 0
  <2>1. m \in Nat /\ base \in A /\ step \in [1..m -> [A -> A]]
    BY <1>2, <1>3
  <2> HIDE DEF A, base
  <2>2. \E f : IsRecursive(f, m, A, base, step)
    BY <2>1, RecursionUpTo
  <2> QED
    BY <2>2 DEF A, base
<1>5. /\ f \in [0..m -> Int] /\ f[0] = 0
      /\ \A n \in 1..m : f[n] = f[n - 1] + s[n]
  <2>1. /\ f \in [0..m -> Int] /\ f[0] = 0
        /\ \A n \in 1..m : f[n] = step[n][f[n - 1]]
    BY <1>4 DEF IsRecursive
  <2>2. \A n \in 1..m : n - 1 \in 0..m
    BY <1>2
  <2> QED
    BY <1>3, <2>1, <2>2
<1>6. f = Body(f)
  <2>1. \A n \in 0..m : n = 0 \/ n \in 1..m
    BY <1>2
  <2>2. \A n \in 0..m : f[n] = IF n = 0 THEN 0 ELSE f[n - 1] + s[n]
    BY <1>5, <2>1
  <2> QED
    BY <1>5, <2>2 DEF m
<1> DEFINE S == SumOf(s)
<1>7. S = Body(S)
  <2> HIDE DEF Body
  <2> QED
    BY <1>1, <1>6
<1> HIDE DEF S
<1>8. /\ 0 \in 0..m
      /\ \A n \in 1..m : n \in 0..m /\ n # 0
  BY <1>2
<1>9. S[0] = 0 /\ \A n \in 1..m : S[n] = S[n - 1] + s[n]
  BY <1>7, <1>8 DEF m
<1>10. \A n \in 0..m : S[n] \in Int
  <2> DEFINE T == {n \in 0..m : S[n] \in Int}
  <2>1. 0 \in T
    BY <1>8, <1>9
  <2>2. ASSUME NEW n \in 1..m, n - 1 \in T PROVE n \in T
    BY <1>2, <1>8, <1>9, <2>2
  <2> HIDE DEF T
  <2>3. \A n \in 0..m : n \in T
    BY <1>2, <2>1, <2>2, InductionUpTo
  <2> QED
    BY <2>3 DEF T
<1>11. S \in [0..m -> Int]
  <2>1. S = [n \in 0..m |-> IF n = 0 THEN 0 ELSE S[n - 1] + s[n]]
    BY <1>7 DEF m
  <2> QED
    BY <1>10, <2>1
<1> QED
  BY <1>9, <1>11 DEF S, m

\* When one number grows and no other does, the sum grows by no more than it.
LEMMA TotalGrows ==
  ASSUME NEW n \in Nat, NEW s \in [1..n -> Int], NEW t \in [1..n -> Int], NEW top \in 1..n,
         t[top] >= s[top], \A j \in 1..n : j # top => t[j] <= s[j]
  PROVE  /\ Total(s) \in Int /\ Total(t) \in Int
         /\ Total(t) - Total(s) <= t[top] - s[top]
<1> DEFINE A == SumOf(s)
           B == SumOf(t)
           d == t[top] - s[top]
           I == {k \in 0..n : B[k] <= A[k] + d /\ (k < top => B[k] <= A[k])}
<1>1. s \in Seq(Int) /\ t \in Seq(Int) /\ Len(s) = n /\ Len(t) = n
  OBVIOUS
<1>2. /\ A \in [0..n -> Int] /\ A[0] = 0 /\ \A k \in 1..n : A[k] = A[k - 1] + s[k]
      /\ B \in [0..n -> Int] /\ B[0] = 0 /\ \A k \in 1..n : B[k] = B[k - 1] + t[k]
  BY <1>1, SumOfUnfold
<1>3. d \in Nat /\ top \in Nat /\ top > 0 /\ s[top] \in Int /\ t[top] = s[top] + d
  OBVIOUS
<1> HIDE DEF A, B, d
<1>4. 0 \in I
  <2>1. 0 \in 0..n /\ B[0] = A[0] /\ A[0] \in Int
    BY <1>2
  <2> QED
    BY <1>3, <2>1
<1>5. ASSUME NEW k \in 1..n, k - 1 \in I PROVE k \in I
  <2>6. /\ k \in 0..n /\ k - 1 \in 0..n /\ k \in Int
        /\ s[k] \in Int /\ t[k] \in Int
    OBVIOUS
  <2>1. /\ k \in 0..n /\ k - 1 \in 0..n /\ k \in Int /\ s[k] \in Int /\ t[k] \in Int
        /\ A[k] = A[k - 1] + s[k] /\ B[k] = B[k - 1] + t[k]
    BY <1>2, <2>6
  <2>2. A[k - 1] \in Int /\ B[k - 1] \in Int
    BY <1>2, <2>1
  <2>3. B[k - 1] <= A[k - 1] + d /\ (k - 1 < top => B[k - 1] <= A[k - 1])
    BY <1>5
  <2>4. CASE k = top
    <3>1. k - 1 < top /\ t[k] = s[k] + d
      BY <1>3, <2>1, <2>4
    <3>2. B[k] <= A[k] + d /\ ~(k < top)
      BY <1>3, <2>1, <2>2, <2>3, <2>4, <3>1
    <3> QED
      BY <2>1, <3>2
  <2>5. CASE k # top
    <3>1. t[k] <= s[k]
      BY <2>5
    <3>2. B[k] <= A[k] + d
      <4> DEFINE a == A[k - 1]
                 b == B[k - 1]
                 x == s[k]
                 y == t[k]
      <4>1. a \in Int /\ b \in Int /\ x \in Int /\ y \in Int /\ b <= a + d /\ y <= x
        BY <2>1, <2>2, <2>3, <3>1
      <4>2. A[k] = a + x /\ B[k] = b + y
        BY <2>1
      <4> HIDE DEF a, b, x, y
      <4> QED
        BY <1>3, <4>1, <4>2
    <3>3. k < top => k - 1 < top
      BY <1>3, <2>1
    <3>4. k < top => B[k] <= A[k]
      BY <2>1, <2>2, <2>3, <3>1, <3>3
    <3> QED
      BY <2>1, <3>2, <3>4
  <2> QED
    BY <2>4, <2>5
<1> HIDE DEF I
<1>6. \A k \in 0..n : k \in I
  BY <1>4, <1>5, InductionUpTo
<1>7. n \in I
  BY <1>6
<1>8. Total(s) = A[n] /\ Total(t) = B[n] /\ A[n] \in Int /\ B[n] \in Int
  BY <1>1, <1>2 DEF Total, A, B
<1>9. B[n] <= A[n] + d
  BY <1>7 DEF I
<1>10. B[n] - A[n] <= d
  BY <1>3, <1>8, <1>9
<1> QED
  BY <1>8, <1>10 DEF d
=============================================================================
