---------------------------- MODULE StudyProofs ----------------------------
(***************************************************************************)
(* Proofs about the supplements of Supplements and the conversion study of *)
(* ConversionStudy, for any tables of words, items, context modes, options *)
(* of the command line and answers of the ranker.                          *)
(***************************************************************************)
EXTENDS ConversionStudy, OrderingProofs

-----------------------------------------------------------------------------
(* Sequences of sequences, put one behind the other.                         *)

\* f[k] is the first k elements of ss put together.
IsFlat(f, ss, S) ==
  /\ f \in [0 .. Len(ss) -> Seq(S)]
  /\ f[0] = <<>>
  /\ \A k \in 1 .. Len(ss) : f[k] = f[k - 1] \o ss[k]
  /\ FlattenSeq(ss) = f[Len(ss)]

\* FlattenSeq is what its recursion says.
LEMMA FlattenUnfold ==
  ASSUME NEW S, NEW ss \in Seq(Seq(S))
  PROVE  \E f : IsFlat(f, ss, S)
<1> DEFINE n == Len(ss)
           A == Seq(S)
           base == <<>>
           step == [k \in 1 .. n |-> [a \in A |-> a \o ss[k]]]
           Body(g) == [i \in 1 .. Len(ss) |-> IF i = 1 THEN ss[i] ELSE g[i - 1] \o ss[i]]
<1>1. n \in Nat /\ base \in A /\ \A k \in 1 .. n : ss[k] \in A
  BY EmptySeq, LenProperties
<1>2. step \in [1 .. n -> [A -> A]]
  <2>1. \A k \in 1 .. n, a \in A : a \o ss[k] \in A
    BY <1>1, ConcatProperties
  <2> HIDE DEF A, n
  <2> QED BY <2>1
<1>3. \A k \in 1 .. n, a \in A : step[k][a] = a \o ss[k]
  OBVIOUS
<1> HIDE DEF step, A, base, n
<1>4. PICK f : IsRecursive(f, n, A, base, step)
  BY <1>1, <1>2, RecursionUpTo
<1>5. \A k \in 1 .. n : k - 1 \in 0 .. n /\ k \in 0 .. n
  BY <1>1
<1>6. /\ f \in [0 .. n -> A] /\ f[0] = base
      /\ \A k \in 1 .. n : f[k] = f[k - 1] \o ss[k]
  BY <1>3, <1>4, <1>5 DEF IsRecursive
<1>7. FlattenSeq(ss) = f[n]
  <2>1. CASE n = 0
    <3>1. ss = <<>> /\ FlattenSeq(ss) = ss
      BY <2>1, EmptySeq DEF n, FlattenSeq
    <3> QED BY <1>6, <2>1, <3>1 DEF base
  <2>2. CASE n # 0
    <3> DEFINE flat == CHOOSE g : g = Body(g)
               g0 == [i \in 1 .. n |-> f[i]]
    <3>1. FlattenSeq(ss) = flat[n]
      BY <2>2, Zenon DEF FlattenSeq, n
    <3>2. \A i \in 1 .. n : g0[i] = IF i = 1 THEN ss[i] ELSE g0[i - 1] \o ss[i]
      <4> SUFFICES ASSUME NEW i \in 1 .. n
                   PROVE  g0[i] = IF i = 1 THEN ss[i] ELSE g0[i - 1] \o ss[i]
        OBVIOUS
      <4>1. g0[i] = f[i - 1] \o ss[i]
        BY <1>6
      <4>2. CASE i = 1
        <5>1. f[i - 1] = <<>>
          BY <1>6, <4>2 DEF base
        <5>2. <<>> \o ss[i] = ss[i]
          BY <1>1, ConcatEmptySeq DEF A
        <5> QED BY <4>1, <4>2, <5>1, <5>2
      <4>3. CASE i # 1
        <5>1. i - 1 \in 1 .. n
          BY <1>1, <4>3
        <5> QED BY <4>1, <4>3, <5>1
      <4> QED BY <4>2, <4>3
    <3>3. g0 = Body(g0)
      BY <3>2 DEF n
    <3>4. flat = Body(flat)
      <4> HIDE DEF Body
      <4> QED BY <3>3
    <3> HIDE DEF flat, g0
    <3>5. \A i \in 1 .. n : flat[i] = IF i = 1 THEN ss[i] ELSE flat[i - 1] \o ss[i]
      BY <3>4 DEF n
    <3> DEFINE T == {k \in 0 .. n : k = 0 \/ flat[k] = f[k]}
    <3>6. 0 \in T
      BY <1>1
    <3>7. ASSUME NEW k \in 1 .. n, k - 1 \in T PROVE k \in T
      <4>1. f[k] = f[k - 1] \o ss[k] /\ k \in 0 .. n
        BY <1>5, <1>6
      <4>2. CASE k = 1
        <5>1. f[k - 1] = <<>>
          BY <1>6, <4>2 DEF base
        <5>2. <<>> \o ss[k] = ss[k]
          BY <1>1, ConcatEmptySeq DEF A
        <5> QED BY <3>5, <4>1, <4>2, <5>1, <5>2
      <4>3. CASE k # 1
        <5>1. k - 1 # 0 /\ flat[k - 1] = f[k - 1]
          BY <1>1, <3>7, <4>3
        <5> QED BY <3>5, <4>1, <4>3, <5>1
      <4> QED BY <4>2, <4>3
    <3> HIDE DEF T
    <3>8. \A k \in 0 .. n : k \in T
      BY <1>1, <3>6, <3>7, InductionUpTo
    <3>9. flat[n] = f[n]
      BY <1>1, <2>2, <3>8 DEF T
    <3> QED BY <3>1, <3>9
  <2> QED BY <2>1, <2>2
<1>8. IsFlat(f, ss, S)
  BY <1>6, <1>7 DEF IsFlat, n, A, base
<1> QED BY <1>8

\* The whole is a sequence; of nothing it is empty.
LEMMA FlattenType ==
  ASSUME NEW S, NEW ss \in Seq(Seq(S))
  PROVE  /\ FlattenSeq(ss) \in Seq(S)
         /\ ss = <<>> => FlattenSeq(ss) = <<>>
<1>1. PICK f : IsFlat(f, ss, S)
  BY FlattenUnfold
<1>2. Len(ss) \in Nat /\ (ss = <<>> => Len(ss) = 0)
  BY EmptySeq, LenProperties
<1>3. Len(ss) \in 0 .. Len(ss)
  BY <1>2
<1> QED BY <1>1, <1>2, <1>3 DEF IsFlat

\* One more sequence is put behind the whole.
LEMMA FlattenAppend ==
  ASSUME NEW S, NEW ss \in Seq(Seq(S)), NEW s \in Seq(S)
  PROVE  /\ Append(ss, s) \in Seq(Seq(S))
         /\ FlattenSeq(Append(ss, s)) = FlattenSeq(ss) \o s
<1> DEFINE tt == Append(ss, s)
           n == Len(ss)
<1>1. /\ tt \in Seq(Seq(S)) /\ Len(tt) = n + 1 /\ n \in Nat
      /\ \A i \in 1 .. n : tt[i] = ss[i]
      /\ tt[n + 1] = s
  <2> DEFINE A == Seq(S)
  <2>1. ss \in Seq(A) /\ s \in A
    OBVIOUS
  <2> HIDE DEF A
  <2>2. /\ tt \in Seq(A) /\ Len(tt) = n + 1 /\ n \in Nat
        /\ \A i \in 1 .. n : tt[i] = ss[i]
        /\ tt[n + 1] = s
    BY <2>1, AppendProperties, LenProperties
  <2> QED BY <2>2 DEF A
<1> HIDE DEF tt
<1>2. PICK f : IsFlat(f, ss, S)
  BY FlattenUnfold
<1>3. PICK g : IsFlat(g, tt, S)
  BY <1>1, FlattenUnfold
<1> HIDE DEF n
<1>4. /\ f \in [0 .. n -> Seq(S)] /\ f[0] = <<>>
      /\ \A k \in 1 .. n : f[k] = f[k - 1] \o ss[k]
      /\ FlattenSeq(ss) = f[n]
  BY <1>2 DEF IsFlat, n
<1>5. /\ g[0] = <<>>
      /\ \A k \in 1 .. n + 1 : g[k] = g[k - 1] \o tt[k]
      /\ FlattenSeq(tt) = g[n + 1]
  BY <1>1, <1>3 DEF IsFlat
<1> DEFINE T == {k \in 0 .. n : f[k] = g[k]}
<1>6. 0 \in T
  <2>1. 0 \in 0 .. n
    BY <1>1
  <2>2. f[0] = g[0]
    BY <1>4, <1>5
  <2> QED BY <2>1, <2>2
<1>7. ASSUME NEW k \in 1 .. n, k - 1 \in T PROVE k \in T
  <2>1. k \in 1 .. n + 1 /\ k \in 0 .. n
    BY <1>1
  <2>2. f[k - 1] = g[k - 1]
    BY <1>7
  <2> QED BY <1>1, <1>4, <1>5, <2>1, <2>2
<1> HIDE DEF T
<1>8. \A k \in 0 .. n : k \in T
  BY <1>1, <1>6, <1>7, InductionUpTo
<1>9. f[n] = g[n]
  BY <1>1, <1>8 DEF T
<1>10. g[n + 1] = g[n] \o s
  <2>1. n + 1 \in 1 .. n + 1 /\ (n + 1) - 1 = n
    BY <1>1
  <2> QED BY <1>1, <1>5, <2>1
<1> QED BY <1>1, <1>4, <1>5, <1>9, <1>10 DEF tt

LEMMA FlattenOne ==
  ASSUME NEW S, NEW s \in Seq(S)
  PROVE  <<s>> \in Seq(Seq(S)) /\ FlattenSeq(<<s>>) = s
<1> DEFINE A == Seq(S)
           none == <<>>
<1>1. none \in Seq(A) /\ s \in A
  BY EmptySeq
<1> HIDE DEF A
<1>2. Append(none, s) = <<s>>
  OBVIOUS
<1> HIDE DEF none
<1>3. /\ Append(none, s) \in Seq(Seq(S))
      /\ FlattenSeq(Append(none, s)) = FlattenSeq(none) \o s
  BY <1>1, FlattenAppend DEF A
<1>4. FlattenSeq(none) = <<>>
  BY <1>1, FlattenType DEF A, none
<1>5. <<>> \o s = s
  BY ConcatEmptySeq
<1>6. <<s>> \in Seq(Seq(S))
  BY <1>2, <1>3
<1>7. FlattenSeq(<<s>>) = s
  BY <1>2, <1>3, <1>4, <1>5
<1> QED BY <1>6, <1>7

\* The whole of two lists is the whole of the one and that of the other.
LEMMA FlattenConcat ==
  ASSUME NEW S, NEW ss \in Seq(Seq(S)), NEW tt \in Seq(Seq(S))
  PROVE  /\ ss \o tt \in Seq(Seq(S))
         /\ FlattenSeq(ss \o tt) = FlattenSeq(ss) \o FlattenSeq(tt)
<1> DEFINE A == Seq(S)
           n == Len(tt)
           Upto(k) == SubSeq(tt, 1, k)
           T == {k \in 0 .. n : FlattenSeq(ss \o Upto(k)) = FlattenSeq(ss) \o FlattenSeq(Upto(k))}
<1>0. ss \in Seq(A) /\ tt \in Seq(A) /\ n \in Nat
  BY LenProperties
<1> HIDE DEF A
<1>1. ss \o tt \in Seq(A)
  BY <1>0, ConcatProperties
<1>2. 0 \in T
  <2>1. Upto(0) = <<>>
    BY SubSeqEmpty
  <2>2. ss \o <<>> = ss
    BY <1>0, ConcatEmptySeq
  <2>3. <<>> \in Seq(Seq(S))
    BY EmptySeq
  <2>4. FlattenSeq(<<>>) = <<>> /\ FlattenSeq(ss) \in Seq(S)
    BY <2>3, FlattenType
  <2>5. FlattenSeq(ss) \o <<>> = FlattenSeq(ss)
    BY <2>4, ConcatEmptySeq
  <2> HIDE DEF Upto
  <2>6. FlattenSeq(ss \o Upto(0)) = FlattenSeq(ss) \o FlattenSeq(Upto(0))
    BY <2>1, <2>2, <2>4, <2>5
  <2> QED BY <1>0, <2>6
<1>3. ASSUME NEW k \in 1 .. n, k - 1 \in T PROVE k \in T
  <2> DEFINE u == Upto(k - 1)
             x == tt[k]
             one == <<x>>
  <2>1. k - 1 \in 0 .. n /\ k \in 0 .. n /\ 1 \in 1 .. n /\ k \in 1 .. Len(tt) /\ k \in 1 .. n
    BY <1>0
  <2>2. x \in A
    BY <1>0, <2>1, ElementOfSeq
  <2>3. u \in Seq(A)
    <3>1. \A i \in 1 .. k - 1 : tt[i] \in A
      BY <1>0, <2>1
    <3> QED BY <2>1, <3>1, SubSeqProperties
  <2>4. Upto(k) = u \o one
    <3>1. 1 \in 1 .. Len(tt) /\ k \in 1 .. Len(tt)
      BY <2>1
    <3> QED BY <1>0, <3>1, SubSeqRecursiveSecond
  <2>5. u \o one = Append(u, x)
    BY <2>2, <2>3, AppendIsConcat
  <2> HIDE DEF u, Upto, x, one
  <2>6. /\ FlattenSeq(Append(u, x)) = FlattenSeq(u) \o x
        /\ FlattenSeq(u) \in Seq(S) /\ FlattenSeq(ss) \in Seq(S) /\ x \in Seq(S)
    BY <1>0, <2>2, <2>3, FlattenAppend, FlattenType DEF A
  <2>7. ss \o Append(u, x) = Append(ss \o u, x) /\ ss \o u \in Seq(A)
    BY <1>0, <2>2, <2>3, AppendBehind, ConcatProperties
  <2>8. FlattenSeq(Append(ss \o u, x)) = FlattenSeq(ss \o u) \o x
    BY <2>2, <2>7, FlattenAppend DEF A
  <2>9. FlattenSeq(ss \o u) = FlattenSeq(ss) \o FlattenSeq(u)
    BY <1>3 DEF u
  <2>10. (FlattenSeq(ss) \o FlattenSeq(u)) \o x = FlattenSeq(ss) \o (FlattenSeq(u) \o x)
    <3> DEFINE p == FlattenSeq(ss)
               q == FlattenSeq(u)
    <3>1. p \in Seq(S) /\ q \in Seq(S) /\ x \in Seq(S)
      BY <2>6
    <3> HIDE DEF p, q, T
    <3>2. MayRegroup(p, q, x)
      BY <3>1, ThreeBehind, Zenon
    <3> QED BY <3>2, Zenon DEF MayRegroup, p, q
  <2>11. FlattenSeq(ss \o Upto(k)) = FlattenSeq(ss) \o FlattenSeq(Upto(k))
    BY <2>4, <2>5, <2>6, <2>7, <2>8, <2>9, <2>10
  <2> QED BY <2>1, <2>11
<1> HIDE DEF T
<1>4. \A k \in 0 .. n : k \in T
  BY <1>0, <1>2, <1>3, InductionUpTo
<1>5. n \in T
  BY <1>0, <1>4
<1>6. Upto(n) = tt
  BY <1>0, SubSeqFull
<1> QED BY <1>1, <1>5, <1>6 DEF T, A

-----------------------------------------------------------------------------
(* Parts of a sequence.                                                      *)

\* What stands before a place and what stands from there on make up the whole.
LEMMA SplitAt ==
  ASSUME NEW S, NEW s \in Seq(S), NEW i \in 1 .. Len(s) + 1
  PROVE  /\ SubSeq(s, 1, i - 1) \in Seq(S) /\ From(s, i) \in Seq(S)
         /\ SubSeq(s, 1, i - 1) \o From(s, i) = s
<1> DEFINE n == Len(s)
           k == i - 1
<1>1. n \in Nat /\ k \in 0 .. n /\ k + 1 = i /\ 1 \in 1 .. n + 1 /\ n \in k .. n /\ k \in 1 - 1 .. n
  BY LenProperties
<1>2. \A j \in 1 .. n : s[j] \in S
  BY ElementOfSeq
<1>3. SubSeq(s, 1, k) \in Seq(S)
  <2>1. k \in Int /\ 1 \in Int /\ \A j \in 1 .. k : s[j] \in S
    BY <1>1, <1>2
  <2> QED BY <2>1, SubSeqProperties
<1>4. SubSeq(s, i, n) \in Seq(S)
  <2>1. i \in Int /\ n \in Int /\ \A j \in i .. n : s[j] \in S
    BY <1>1, <1>2
  <2> QED BY <2>1, SubSeqProperties
<1> HIDE DEF n, k
<1>5. SubSeq(s, 1, k) \o SubSeq(s, k + 1, n) = SubSeq(s, 1, n)
  BY <1>1, ConcatAdjacentSubSeq DEF n
<1>6. SubSeq(s, 1, n) = s
  BY SubSeqFull DEF n
<1> QED BY <1>1, <1>3, <1>4, <1>5, <1>6 DEF From, n, k

\* What stands from a place on, and the first so many, are sequences.
LEMMA PartTypes ==
  ASSUME NEW S, NEW s \in Seq(S), NEW i \in Nat
  PROVE  /\ From(s, i + 1) \in Seq(S)
         /\ FirstOf(s, i) \in Seq(S)
         /\ i <= Len(s) => SubSeq(s, 1, i) \in Seq(S)
<1> DEFINE n == Len(s)
<1>1. n \in Nat /\ \A j \in 1 .. n : s[j] \in S
  BY LenProperties, ElementOfSeq
<1>2. ASSUME NEW a \in Nat, NEW b \in Nat, a > 0, b <= n PROVE SubSeq(s, a, b) \in Seq(S)
  <2>1. a \in Int /\ b \in Int /\ \A j \in a .. b : s[j] \in S
    BY <1>1, <1>2
  <2> QED BY <2>1, SubSeqProperties
<1> HIDE DEF n
<1>3. SubSeq(s, i + 1, n) \in Seq(S)
  BY <1>1, <1>2
<1>4. i <= n => SubSeq(s, 1, i) \in Seq(S)
  BY <1>1, <1>2
<1>5. SubSeq(s, 1, IF i < n THEN i ELSE n) \in Seq(S)
  BY <1>1, <1>2
<1> QED BY <1>3, <1>4, <1>5 DEF From, FirstOf, n

\* A sequence is its prefix and what stands behind that.
LEMMA PrefixAndRest ==
  ASSUME NEW S, NEW s \in Seq(S), NEW t \in Seq(S), IsPrefix(s, t)
  PROVE  /\ Len(s) \in Nat /\ Len(s) <= Len(t)
         /\ From(t, Len(s) + 1) \in Seq(S)
         /\ s \o From(t, Len(s) + 1) = t
<1> DEFINE n == Len(s)
           i == n + 1
<1>1. n \in Nat /\ Len(t) \in Nat /\ n <= Len(t) /\ SubSeq(s, 1, n) = SubSeq(t, 1, n)
  BY LenProperties DEF IsPrefix
<1>2. SubSeq(s, 1, n) = s
  BY SubSeqFull
<1> HIDE DEF n
<1>3. i \in 1 .. Len(t) + 1 /\ i - 1 = n
  BY <1>1
<1> HIDE DEF i
<1>4. From(t, i) \in Seq(S) /\ SubSeq(t, 1, i - 1) \o From(t, i) = t
  BY <1>3, SplitAt
<1>5. SubSeq(t, 1, i - 1) = s
  BY <1>1, <1>2, <1>3
<1> QED BY <1>1, <1>4, <1>5 DEF i, n

\* What stands behind something is a suffix of the whole.
LEMMA SuffixOfConcat ==
  ASSUME NEW S, NEW u \in Seq(S), NEW v \in Seq(S)
  PROVE  IsSuffix(v, u \o v)
<1> DEFINE w == u \o v
           a == Len(u)
           b == Len(v)
           x == Reverse(v)
           y == Reverse(w)
<1>1. /\ a \in Nat /\ b \in Nat /\ Len(w) = a + b
      /\ \A i \in 1 .. a + b : w[i] = IF i <= a THEN u[i] ELSE v[i - a]
  BY LenProperties, ConcatProperties
<1> HIDE DEF a, w
<1>2. x = [i \in 1 .. b |-> v[(b - i) + 1]] /\ y = [i \in 1 .. a + b |-> w[(a + b - i) + 1]]
  BY <1>1 DEF Reverse
<1> HIDE DEF b, x, y
<1>3. \A i \in 1 .. b : x[i] = y[i]
  <2> SUFFICES ASSUME NEW i \in 1 .. b PROVE x[i] = y[i]
    OBVIOUS
  <2> DEFINE j == (a + b - i) + 1
  <2>1. j \in 1 .. a + b /\ ~(j <= a) /\ j - a = (b - i) + 1 /\ i \in 1 .. a + b
    BY <1>1
  <2>2. x[i] = v[(b - i) + 1] /\ y[i] = w[j]
    BY <1>2, <2>1
  <2> HIDE DEF j
  <2>3. w[j] = v[j - a]
    BY <1>1, <2>1
  <2> QED BY <2>1, <2>2, <2>3
<1>4. Len(x) = b /\ Len(y) = a + b
  BY <1>1, <1>2
<1>5. SubSeq(x, 1, b) = SubSeq(y, 1, b)
  <2> DEFINE T == {x[i] : i \in 1 .. b}
             p == SubSeq(x, 1, b)
             q == SubSeq(y, 1, b)
  <2>1. \A i \in 1 .. b : x[i] \in T /\ y[i] \in T
    BY <1>3
  <2> HIDE DEF T
  <2>2. 1 \in Int /\ b \in Int /\ (IF 1 <= b THEN b - 1 + 1 ELSE 0) = b /\ b - 1 + 1 = b
    BY <1>1
  <2>3. p \in Seq(T) /\ Len(p) = b /\ \A i \in 1 .. b : p[i] = x[1 + i - 1]
    BY <2>1, <2>2, SubSeqProperties
  <2>4. q \in Seq(T) /\ Len(q) = b /\ \A i \in 1 .. b : q[i] = y[1 + i - 1]
    BY <2>1, <2>2, SubSeqProperties
  <2> HIDE DEF p, q
  <2>5. \A i \in 1 .. b : 1 + i - 1 = i
    OBVIOUS
  <2>6. \A i \in 1 .. Len(p) : p[i] = q[i]
    BY <1>3, <2>3, <2>4, <2>5
  <2>7. p = q
    BY <2>3, <2>4, <2>6, SeqEqual
  <2> QED BY <2>7 DEF p, q
<1>6. b <= a + b
  BY <1>1
<1> QED BY <1>4, <1>5, <1>6 DEF IsSuffix, IsPrefix, x, y, w

\* Of some sequences of bounded length one is the longest.
LEMMA LongestFacts ==
  ASSUME NEW X, NEW S, S \subseteq Seq(X), S # {}, NEW n \in Nat, \A s \in S : Len(s) <= n
  PROVE  Longest(S) \in S /\ \A t \in S : Len(t) <= Len(Longest(S))
<1> DEFINE T == {n - Len(s) : s \in S}
<1>1. \A s \in S : Len(s) \in Nat /\ Len(s) <= n
  BY LenProperties
<1>2. T \subseteq Nat /\ T # {}
  BY <1>1
<1>3. PICK k \in T : \A j \in T : k <= j
  <2> HIDE DEF T
  <2> QED BY <1>2, HasLeast
<1>4. PICK s \in S : k = n - Len(s)
  OBVIOUS
<1>5. \A t \in S : Len(t) <= Len(s)
  <2> SUFFICES ASSUME NEW t \in S PROVE Len(t) <= Len(s)
    OBVIOUS
  <2>1. n - Len(t) \in T
    OBVIOUS
  <2>2. n - Len(s) <= n - Len(t)
    BY <1>3, <1>4, <2>1
  <2> QED BY <1>1, <2>2
<1>6. \E z \in S : \A t \in S : Len(t) <= Len(z)
  BY <1>5
<1> QED BY <1>6, Zenon DEF Longest

-----------------------------------------------------------------------------
(* Texts, segments and tables.                                               *)

Segments == {s \in [key : Text, candidates : Seq(Text)] : s.candidates # <<>>}

\* A finite table has values in V for texts.
IsMap(f, V) == DOMAIN f \subseteq Text /\ \A k \in DOMAIN f : f[k] \in V

\* A function given by pairs is a table.
LEMMA TableType ==
  ASSUME NEW V, NEW pairs, pairs \subseteq Text \X V
  PROVE  IsMap(Table(pairs), V)
<1> DEFINE Pick(k) == CHOOSE p \in pairs : p[1] = k
           keys == {p[1] : p \in pairs}
<1>1. \A p \in pairs : p[1] \in Text /\ p[2] \in V
  <2> HIDE DEF Text
  <2> QED OBVIOUS
<1>2. \A k \in keys : Pick(k) \in pairs
  OBVIOUS
<1> HIDE DEF Pick
<1>3. Table(pairs) = [k \in keys |-> Pick(k)[2]]
  BY DEF Table, Pick
<1>4. keys \subseteq Text /\ \A k \in keys : Pick(k)[2] \in V
  BY <1>1, <1>2
<1> HIDE DEF keys
<1> QED BY <1>3, <1>4 DEF IsMap

\* The readings of digits, units and counters.
LEMMA NumberTables ==
  IsMap(Digits, Nat) /\ IsMap(Units, Nat) /\ IsMap(Counters, Characters)
<1>1. \A a \in Characters : <<a>> \in Text
  BY DEF Text
<1>2. \A a, b \in Characters : <<a, b>> \in Text
  BY DEF Text
<1>3. \A a, b, c \in Characters : <<a, b, c>> \in Text
  BY DEF Text
<1>4. \A a, b, c, d, e \in Characters : <<a, b, c, d, e>> \in Text
  BY DEF Text
<1>5. Kana \subseteq Characters /\ Signs \subseteq Characters
  BY SupplementAssumption
<1>6. DigitReadings \subseteq Text \X Nat
  BY <1>1, <1>2, <1>3, <1>5, SMT DEF DigitReadings, Kana
<1>7. UnitReadings \subseteq Text \X Nat
  BY <1>1, <1>2, <1>3, <1>5, SMT DEF UnitReadings, Kana
<1>8. CounterReadings \subseteq Text \X Characters
  <2>1. <<"pa", "-", "se", "n", "to">> \in Text
    <3>1. {"pa", "-", "se", "n", "to"} \subseteq Characters
      BY <1>5, SMT DEF Kana
    <3> HIDE DEF Text
    <3> QED BY <1>4, <3>1
  <2>2. <<"ne", "n", "do">> \in Text
    BY <1>3, <1>5, SMT DEF Kana
  <2>3. {<<"ni", "n">>, <<"ni", "chi">>, <<"da", "i">>, <<"ma", "i">>, <<"ho", "n">>, <<"hi", "ki">>, <<"e", "n">>}
           \subseteq Text
    BY <1>2, <1>5, SMT DEF Kana
  <2>4. {<<"ji">>, <<"ko">>, <<"i">>} \subseteq Text
    BY <1>1, <1>5, SMT DEF Kana
  <2>5. {"percent", "nendo", "nin", "nichi", "ji", "ko", "dai", "mai", "hon", "hiki", "en", "i"} \subseteq Characters
    BY <1>5, SMT DEF Signs
  <2> HIDE DEF Text
  <2>6. \A p \in CounterReadings : p[1] \in Text /\ p[2] \in Characters /\ p = <<p[1], p[2]>>
    BY <2>1, <2>2, <2>3, <2>4, <2>5, SMT DEF CounterReadings
  <2> QED BY ONLY <2>6
<1> QED BY <1>6, <1>7, <1>8, TableType DEF Digits, Units, Counters

-----------------------------------------------------------------------------
(* Numbers: what reading and spelling return.                                *)

NumberParts == [total : Nat, section : Nat, digit : Nat \cup {-1}]

Progress == [n : NumberParts, rest : Text]

LEMMA TimesType == \A a, b \in Nat : a * b \in Nat
  OBVIOUS

LEMMA ReadTokenType ==
  ASSUME NEW n \in NumberParts, NEW token \in DOMAIN Digits \cup DOMAIN Units
  PROVE  ReadToken(n, token) \in NumberParts
<1>1. token \in DOMAIN Digits => Digits[token] \in Nat
  BY NumberTables DEF IsMap
<1>2. token \notin DOMAIN Digits => Units[token] \in Nat
  BY NumberTables DEF IsMap
<1>3. Count(n.digit) \in Nat /\ n.section \in Nat /\ n.total \in Nat
  BY DEF NumberParts, Count
<1> DEFINE u == Units[token]
           c == Count(n.digit)
           x == n.section
           y == n.total
<1>4. CASE token \in DOMAIN Digits
  BY <1>1, <1>4 DEF ReadToken, NumberParts
<1>5. CASE token \notin DOMAIN Digits
  <2>1. u \in Nat /\ c \in Nat /\ x \in Nat /\ y \in Nat
    BY <1>2, <1>3, <1>5
  <2> DEFINE p == y + (x + c) * u
             q == x + c * u
             large == u >= 10000
  <2>2. ReadToken(n, token) = IF large THEN [total |-> p, section |-> 0, digit |-> -1]
                              ELSE [n EXCEPT !.section = q, !.digit = -1]
    BY <1>5, SMT DEF ReadToken
  <2> HIDE DEF u, c, x, y, large
  <2>3. p \in Nat /\ q \in Nat
    BY <2>1, TimesType
  <2> HIDE DEF p, q
  <2>4. [total |-> p, section |-> 0, digit |-> -1] \in NumberParts
    BY <2>3 DEF NumberParts
  <2>5. [n EXCEPT !.section = q, !.digit = -1] \in NumberParts
    BY <2>3 DEF NumberParts
  <2> QED BY <2>2, <2>4, <2>5, Zenon
<1> QED BY <1>4, <1>5

LEMMA ReadOnType ==
  ASSUME NEW r \in Progress
  PROVE  ReadOn(r) \in Progress
<1> DEFINE fits == {t \in DOMAIN Digits \cup DOMAIN Units : IsPrefix(t, r.rest)}
<1>1. r.rest \in Text /\ r.n \in NumberParts
  BY DEF Progress
<1>2. DOMAIN Digits \cup DOMAIN Units \subseteq Text
  BY NumberTables DEF IsMap
<1>3. CASE fits = {}
  BY <1>3 DEF ReadOn
<1>4. CASE fits # {}
  <2>1. Len(r.rest) \in Nat /\ fits \subseteq Seq(Characters) /\ \A s \in fits : Len(s) <= Len(r.rest)
    BY <1>1, <1>2, LenProperties DEF IsPrefix, Text
  <2>2. ReadOn(r) = [n |-> ReadToken(r.n, Longest(fits)), rest |-> From(r.rest, Len(Longest(fits)) + 1)]
    BY <1>4 DEF ReadOn
  <2>3. fits \subseteq DOMAIN Digits \cup DOMAIN Units
    OBVIOUS
  <2> HIDE DEF fits
  <2>4. Longest(fits) \in fits
    BY <1>4, <2>1, LongestFacts
  <2>5. ReadToken(r.n, Longest(fits)) \in NumberParts
    BY <1>1, <2>3, <2>4, ReadTokenType
  <2>6. Len(Longest(fits)) \in Nat
    BY <2>1, <2>4, LenProperties
  <2>7. From(r.rest, Len(Longest(fits)) + 1) \in Text
    BY <1>1, <2>6, PartTypes DEF Text
  <2> QED BY <2>2, <2>5, <2>7 DEF Progress
<1> QED BY <1>3, <1>4

LEMMA ReadType ==
  ASSUME NEW reading \in Text
  PROVE  Read(reading) \in Progress
<1> DEFINE n == Len(reading)
           base == [n |-> [total |-> 0, section |-> 0, digit |-> -1], rest |-> reading]
           step == [k \in 1 .. n |-> [r \in Progress |-> ReadOn(r)]]
           Body(g) == [k \in 0 .. Len(reading) |->
                         IF k = 0
                         THEN [n |-> [total |-> 0, section |-> 0, digit |-> -1], rest |-> reading]
                         ELSE ReadOn(g[k - 1])]
           read == CHOOSE g : g = Body(g)
<1>1. n \in Nat /\ base \in Progress
  BY LenProperties DEF Text, Progress, NumberParts
<1>2. step \in [1 .. n -> [Progress -> Progress]] /\ \A k \in 1 .. n, r \in Progress : step[k][r] = ReadOn(r)
  <2>1. \A r \in Progress : ReadOn(r) \in Progress
    BY ReadOnType
  <2> QED BY <2>1
<1>3. Read(reading) = read[n]
  BY Zenon DEF Read
<1>4. \A g : Body(g) = [k \in 0 .. n |-> IF k = 0 THEN base ELSE ReadOn(g[k - 1])]
  OBVIOUS
<1> HIDE DEF step, base, n, Body
<1>5. PICK f : IsRecursive(f, n, Progress, base, step)
  BY <1>1, <1>2, RecursionUpTo
<1>6. \A k \in 1 .. n : k - 1 \in 0 .. n /\ k \in 0 .. n
  BY <1>1
<1>7. /\ f \in [0 .. n -> Progress] /\ f[0] = base
      /\ \A k \in 1 .. n : f[k] = ReadOn(f[k - 1])
  BY <1>2, <1>5, <1>6 DEF IsRecursive
<1>8. f = [k \in 0 .. n |-> IF k = 0 THEN base ELSE ReadOn(f[k - 1])]
  <2>1. \A k \in 0 .. n : k = 0 \/ k \in 1 .. n
    BY <1>1
  <2>2. \A k \in 0 .. n : f[k] = IF k = 0 THEN base ELSE ReadOn(f[k - 1])
    BY <1>7, <2>1
  <2> QED BY <1>7, <2>2
<1>9. f = Body(f)
  BY <1>4, <1>8
<1>10. read = Body(read)
  BY <1>9
<1> HIDE DEF read
<1>11. read = [k \in 0 .. n |-> IF k = 0 THEN base ELSE ReadOn(read[k - 1])]
  BY <1>4, <1>10
<1> DEFINE T == {k \in 0 .. n : read[k] \in Progress}
<1>12. 0 \in T
  <2>1. 0 \in 0 .. n
    BY <1>1
  <2> QED BY <1>1, <1>11, <2>1
<1>13. ASSUME NEW k \in 1 .. n, k - 1 \in T PROVE k \in T
  <2>1. k \in 0 .. n /\ k # 0 /\ read[k - 1] \in Progress
    BY <1>6, <1>13
  <2>2. read[k] = ReadOn(read[k - 1])
    BY <1>11, <2>1
  <2> QED BY <2>1, <2>2, ReadOnType
<1> HIDE DEF T
<1>14. \A k \in 0 .. n : k \in T
  BY <1>1, <1>12, <1>13, InductionUpTo
<1>15. n \in 0 .. n
  BY <1>1
<1> QED BY <1>3, <1>14, <1>15 DEF T

LEMMA NumberType ==
  ASSUME NEW reading \in Text
  PROVE  Number(reading) \in Nat \cup {-1}
<1>1. CASE reading = <<>>
  BY <1>1 DEF Number
<1>2. CASE reading # <<>>
  <2> DEFINE r == Read(reading)
  <2>1. r \in Progress /\ Number(reading) = Value(r)
    BY <1>2, ReadType DEF Number
  <2> HIDE DEF r
  <2>2. r.n.total \in Nat /\ r.n.section \in Nat /\ r.n.digit \in Nat \cup {-1}
    BY <2>1 DEF Progress, NumberParts
  <2> QED BY <2>1, <2>2 DEF Value
<1> QED BY <1>1, <1>2

\* The decimal digits of a number: each longer number has one more digit than the
\* tenth part of it.
LEMMA DecimalType ==
  ASSUME NEW n \in Nat
  PROVE  Decimal(n) \in Text
<1> DEFINE Tables == [0 .. n -> Text]
           Digit(m) == DigitSigns[m + 1]
           Next1(t, m) == IF m < 10 THEN <<Digit(m)>> ELSE Append(t[m \div 10], Digit(m % 10))
           Body(g) == [m \in 0 .. n |->
                         IF m < 10 THEN <<DigitSigns[m + 1]>>
                         ELSE Append(g[m \div 10], DigitSigns[(m % 10) + 1])]
           digits == CHOOSE g : g = Body(g)
           base == [m \in 0 .. n |-> Next1([k \in 0 .. n |-> <<>>], m)]
           step == [k \in 1 .. n |-> [t \in Tables |-> [t EXCEPT ![k] = Next1(t, k)]]]
<1>1. Decimal(n) = digits[n]
  BY Zenon DEF Decimal
<1>2. \A d \in 0 .. 9 : Digit(d) \in Characters
  <2>1. Signs \subseteq Characters
    BY SupplementAssumption
  <2>2. {"0", "1", "2", "3", "4", "5", "6", "7", "8", "9"} \subseteq Characters
    BY <2>1, SMT DEF Signs
  <2>3. \A d \in 0 .. 9 : \/ d = 0 \/ d = 1 \/ d = 2 \/ d = 3 \/ d = 4
                           \/ d = 5 \/ d = 6 \/ d = 7 \/ d = 8 \/ d = 9
    OBVIOUS
  <2> QED BY <2>2, <2>3, SMT DEF DigitSigns
<1>3. \A m \in Nat : m % 10 \in 0 .. 9 /\ m \div 10 \in Nat /\ (m >= 10 => m \div 10 < m)
  OBVIOUS
<1>4. \A t \in Tables, m \in 0 .. n : Next1(t, m) \in Text
  <2> SUFFICES ASSUME NEW t \in Tables, NEW m \in 0 .. n PROVE Next1(t, m) \in Text
    OBVIOUS
  <2>1. CASE m < 10
    <3>1. m \in 0 .. 9
      BY <2>1
    <3>2. Digit(m) \in Characters
      BY <1>2, <3>1
    <3> HIDE DEF Digit
    <3> QED BY <2>1, <3>2 DEF Text
  <2>2. CASE ~(m < 10)
    <3>1. m \div 10 \in 0 .. n /\ m % 10 \in 0 .. 9
      BY <1>3, <2>2
    <3>2. Digit(m % 10) \in Characters /\ t[m \div 10] \in Text
      BY <1>2, <3>1
    <3> HIDE DEF Digit
    <3>3. Append(t[m \div 10], Digit(m % 10)) \in Text
      BY <3>2, AppendProperties DEF Text
    <3> QED BY <2>2, <3>3
  <2> QED BY <2>1, <2>2
<1>5. base \in Tables /\ step \in [1 .. n -> [Tables -> Tables]]
      /\ \A k \in 1 .. n, t \in Tables : step[k][t] = [t EXCEPT ![k] = Next1(t, k)]
  <2>1. [k \in 0 .. n |-> <<>>] \in Tables
    BY EmptySeq DEF Text
  <2>2. base \in Tables
    BY <1>4, <2>1
  <2>3. \A k \in 1 .. n, t \in Tables : [t EXCEPT ![k] = Next1(t, k)] \in Tables
    <3> SUFFICES ASSUME NEW k \in 1 .. n, NEW t \in Tables PROVE [t EXCEPT ![k] = Next1(t, k)] \in Tables
      OBVIOUS
    <3>1. k \in 0 .. n
      OBVIOUS
    <3>2. Next1(t, k) \in Text
      <4> HIDE DEF Next1, Tables
      <4> QED BY <1>4, <3>1
    <3> HIDE DEF Next1
    <3> QED BY <3>1, <3>2
  <2> HIDE DEF Tables, Next1, base
  <2> QED BY <2>2, <2>3
<1> HIDE DEF Body
<1>6. PICK f : IsRecursive(f, n, Tables, base, step)
  <2> HIDE DEF Tables, base, step
  <2> QED BY <1>5, RecursionUpTo
<1>7. /\ f \in [0 .. n -> Tables]
      /\ f[0] = base
      /\ \A k \in 1 .. n : f[k] = [f[k - 1] EXCEPT ![k] = Next1(f[k - 1], k)]
  <2>1. \A k \in 1 .. n : k - 1 \in 0 .. n
    OBVIOUS
  <2> HIDE DEF Tables, base, step, Next1
  <2> QED BY <1>5, <1>6, <2>1 DEF IsRecursive
<1> HIDE DEF step, base
\* After k steps the table is right up to k.
<1> DEFINE T == {k \in 0 .. n : \A m \in 0 .. k : f[k][m] = Next1(f[k], m)}
<1>8. 0 \in T
  <2>1. 0 \in 0 .. n /\ \A m \in 0 .. 0 : m = 0
    OBVIOUS
  <2>2. base[0] = <<Digit(0)>> /\ Next1(f[0], 0) = <<Digit(0)>>
    <3> HIDE DEF Digit
    <3> QED BY <2>1 DEF base
  <2> HIDE DEF Next1
  <2> QED BY <1>7, <2>1, <2>2
<1>9. ASSUME NEW k \in 1 .. n, k - 1 \in T PROVE k \in T
  <2>1. k \in 0 .. n /\ k - 1 \in 0 .. n /\ k \in Nat
    OBVIOUS
  <2> DEFINE t == f[k - 1]
             u == f[k]
  <2>2. t \in Tables /\ u = [t EXCEPT ![k] = Next1(t, k)]
    <3> HIDE DEF Tables, Next1
    <3> QED BY <1>7, <2>1
  <2>3. \A m \in 0 .. k - 1 : t[m] = Next1(t, m)
    BY <1>9, <2>1
  <2> HIDE DEF t, u, T
  <2>4. u[k] = Next1(t, k) /\ \A m \in 0 .. k - 1 : u[m] = t[m]
    <3>1. k \in DOMAIN t /\ \A m \in 0 .. k - 1 : m \in DOMAIN t /\ m # k
      BY <2>1, <2>2
    <3> HIDE DEF Next1, Tables
    <3> QED BY <2>2, <3>1
  <2>5. ASSUME NEW m \in 0 .. k PROVE Next1(u, m) = Next1(t, m)
    <3>1. CASE m < 10
      BY <3>1
    <3>2. CASE ~(m < 10)
      <4>1. m \div 10 \in 0 .. k - 1
        BY <1>3, <2>1, <3>2
      <4>2. u[m \div 10] = t[m \div 10]
        BY <2>4, <4>1
      <4> HIDE DEF Digit
      <4> QED BY <4>2
    <3> QED BY <3>1, <3>2
  <2>6. ASSUME NEW m \in 0 .. k PROVE u[m] = Next1(u, m)
    <3>1. m = k \/ m \in 0 .. k - 1
      BY <2>1
    <3>2. Next1(u, m) = Next1(t, m)
      BY <2>5
    <3> HIDE DEF Next1
    <3> QED BY <2>3, <2>4, <3>1, <3>2
  <2> HIDE DEF Next1
  <2> QED BY <2>1, <2>6 DEF T, u
<1> HIDE DEF T
<1>10. \A k \in 0 .. n : k \in T
  BY <1>8, <1>9, InductionUpTo
<1> DEFINE g == f[n]
<1>11. g \in Tables /\ \A m \in 0 .. n : g[m] = Next1(g, m)
  <2>1. n \in 0 .. n
    OBVIOUS
  <2> HIDE DEF Tables, Next1
  <2> QED BY <1>7, <1>10, <2>1 DEF T
<1> HIDE DEF g
<1>12. g = Body(g)
  BY <1>11 DEF Body
<1>13. digits = Body(digits)
  BY <1>12
<1> HIDE DEF digits
<1>14. \A m \in 0 .. n : digits[m] = Next1(digits, m)
  BY <1>13 DEF Body
\* So it is a text up to any number.
<1> DEFINE U == {k \in 0 .. n : \A m \in 0 .. k : digits[m] \in Text}
<1>15. 0 \in U
  <2>1. 0 \in 0 .. n /\ \A m \in 0 .. 0 : m = 0
    OBVIOUS
  <2>2. digits[0] = <<Digit(0)>> /\ Digit(0) \in Characters
    <3>1. 0 \in 0 .. 9
      OBVIOUS
    <3> HIDE DEF Digit
    <3>2. Next1(digits, 0) = <<Digit(0)>>
      OBVIOUS
    <3> HIDE DEF Next1
    <3> QED BY <1>2, <1>14, <2>1, <3>1, <3>2
  <2> HIDE DEF Digit
  <2>3. digits[0] \in Text
    BY <2>2 DEF Text
  <2> QED BY <2>1, <2>3
<1>16. ASSUME NEW k \in 1 .. n, k - 1 \in U PROVE k \in U
  <2>1. k \in 0 .. n /\ k - 1 \in 0 .. n /\ k \in Nat
    OBVIOUS
  <2>2. \A m \in 0 .. k - 1 : digits[m] \in Text
    BY <1>16
  <2>3. digits[k] \in Text
    <3>1. CASE k < 10
      <4>1. k \in 0 .. 9
        BY <3>1
      <4>2. digits[k] = <<Digit(k)>> /\ Digit(k) \in Characters
        BY <1>2, <1>14, <2>1, <3>1, <4>1
      <4> HIDE DEF Digit
      <4> QED BY <4>2 DEF Text
    <3>2. CASE ~(k < 10)
      <4>1. k \div 10 \in 0 .. k - 1 /\ k % 10 \in 0 .. 9
        BY <1>3, <2>1, <3>2
      <4>2. digits[k] = Append(digits[k \div 10], Digit(k % 10)) /\ Digit(k % 10) \in Characters
        BY <1>2, <1>14, <2>1, <3>2, <4>1
      <4>3. digits[k \div 10] \in Text
        BY <2>2, <4>1
      <4> HIDE DEF Digit
      <4> QED BY <4>2, <4>3, AppendProperties DEF Text
    <3> QED BY <3>1, <3>2
  <2>4. \A m \in 0 .. k : m = k \/ m \in 0 .. k - 1
    BY <2>1
  <2> QED BY <2>1, <2>2, <2>3, <2>4
<1> HIDE DEF U
<1>17. \A k \in 0 .. n : k \in U
  BY <1>15, <1>16, InductionUpTo
<1>18. n \in 0 .. n
  OBVIOUS
<1> QED BY <1>1, <1>17, <1>18 DEF U

LEMMA KanjiType ==
  ASSUME NEW n \in Nat
  PROVE  Kanji(n) \in Text
<1>1. Signs \subseteq Characters
  BY SupplementAssumption
<1>2. \A d \in 1 .. 9 : KanjiDigits[d] \in Characters
  <2>1. {"ichi", "ni", "san", "yon", "go", "roku", "nana", "hachi", "kyuu"} \subseteq Characters
    BY <1>1, SMT DEF Signs
  <2>2. \A d \in 1 .. 9 : \/ d = 1 \/ d = 2 \/ d = 3 \/ d = 4 \/ d = 5
                           \/ d = 6 \/ d = 7 \/ d = 8 \/ d = 9
    OBVIOUS
  <2> QED BY <2>1, <2>2, SMT DEF KanjiDigits
<1>3. {"rei", "sen", "hyaku", "juu"} \subseteq Characters
  BY <1>1, SMT DEF Signs
<1>4. \A c \in Characters : <<c>> \in Text
  BY DEF Text
<1>5. <<>> \in Text
  BY EmptySeq DEF Text
<1>6. \A s, t \in Text : s \o t \in Text
  BY ConcatProperties DEF Text
<1> HIDE DEF Text
<1>7. ASSUME NEW d \in 0 .. 9, NEW c \in Characters PROVE Written(d, c) \in Text
  <2>1. d # 0 => d \in 1 .. 9
    OBVIOUS
  <2>2. d # 0 => <<KanjiDigits[d]>> \in Text
    BY <1>2, <1>4, <2>1
  <2> QED BY <1>4, <1>5, <1>6, <2>2 DEF Written
<1>8. CASE n >= 10000
  <2>1. n # 0
    BY <1>8, SMT
  <2>2. Kanji(n) = Decimal(n)
    BY <1>8, <2>1, SMT DEF Kanji
  <2> QED BY <2>2, DecimalType
<1>9. CASE ~(n >= 10000)
  <2> DEFINE a == Written(n \div 1000, "sen")
             b == Written((n \div 100) % 10, "hyaku")
             c == Written((n \div 10) % 10, "juu")
             d == IF n % 10 = 0 THEN <<>> ELSE <<KanjiDigits[n % 10]>>
  <2>1. /\ n \div 1000 \in 0 .. 9 /\ (n \div 100) % 10 \in 0 .. 9 /\ (n \div 10) % 10 \in 0 .. 9
        /\ n % 10 # 0 => n % 10 \in 1 .. 9
    BY <1>9, SMT
  <2>2. Kanji(n) = IF n = 0 THEN <<"rei">> ELSE ((a \o b) \o c) \o d
    BY <1>9, SMT DEF Kanji
  <2>3. a \in Text /\ b \in Text /\ c \in Text
    BY <1>3, <1>7, <2>1
  <2>4. d \in Text
    BY <1>2, <1>4, <1>5, <2>1
  <2> HIDE DEF a, b, c, d
  <2>5. ((a \o b) \o c) \o d \in Text
    BY <1>6, <2>3, <2>4
  <2> QED BY <1>3, <1>4, <2>2, <2>5
<1> QED BY <1>8, <1>9

LEMMA SpellingsType ==
  ASSUME NEW n \in Nat, NEW front \in Text, NEW sign \in Text
  PROVE  Spellings(front, n, sign) \in Seq(Text) /\ Spellings(front, n, sign) # <<>>
<1>1. \A s, t \in Text : s \o t \in Text
  BY ConcatProperties DEF Text
<1>2. Decimal(n) \in Text /\ Kanji(n) \in Text
  BY DecimalType, KanjiType
<1> DEFINE a == (front \o Decimal(n)) \o sign
           b == (front \o Kanji(n)) \o sign
<1> HIDE DEF Text
<1>3. a \in Text /\ b \in Text
  BY <1>1, <1>2
<1>4. Spellings(front, n, sign) = <<a, b>>
  BY DEF Spellings
<1> HIDE DEF a, b
<1> QED BY <1>3, <1>4

\* The suffix of a text is no longer than it.
LEMMA SuffixFits ==
  ASSUME NEW s \in Text, NEW t \in Text, IsSuffix(s, t)
  PROVE  Len(s) \in Nat /\ Len(t) \in Nat /\ Len(s) <= Len(t)
<1>1. Len(s) \in Nat /\ Len(t) \in Nat
  BY LenProperties DEF Text
<1>2. Len(Reverse(s)) = Len(s) /\ Len(Reverse(t)) = Len(t)
  BY <1>1 DEF Reverse
<1> QED BY <1>1, <1>2 DEF IsSuffix, IsPrefix

LEMMA NumericSurfacesType ==
  ASSUME NEW reading \in Text
  PROVE  NumericSurfaces(reading) \in Seq(Text)
<1> DEFINE ordinal == IsPrefix(<<"da", "i">>, reading)
           text == IF ordinal THEN From(reading, 3) ELSE reading
           before == NumbersBefore(text)
           suffixes == {c \in DOMAIN Counters : IsSuffix(c, text)}
           fits == {s \in suffixes : before[s] # -1}
           long == Longest(fits)
           front == IF ordinal THEN <<"ordinal">> ELSE <<>>
<1>1. text \in Text
  <2>1. 2 \in Nat /\ 2 + 1 = 3
    OBVIOUS
  <2>2. From(reading, 2 + 1) \in Text
    BY <2>1, PartTypes DEF Text
  <2> QED BY <2>1, <2>2
<1>2. suffixes \subseteq Text /\ \A c \in DOMAIN Counters : Counters[c] \in Characters
  BY NumberTables DEF IsMap
<1> HIDE DEF text, ordinal
<1>3. before = [s \in suffixes |-> Number(SubSeq(text, 1, Len(text) - Len(s)))]
  BY DEF NumbersBefore
<1>4. \A s \in suffixes : before[s] \in Nat \cup {-1} /\ Len(s) \in Nat /\ Len(s) <= Len(text)
  <2> SUFFICES ASSUME NEW s \in suffixes
               PROVE  before[s] \in Nat \cup {-1} /\ Len(s) \in Nat /\ Len(s) <= Len(text)
    OBVIOUS
  <2>1. s \in Text /\ IsSuffix(s, text)
    BY <1>2
  <2>2. Len(s) \in Nat /\ Len(text) \in Nat /\ Len(s) <= Len(text)
    BY <1>1, <2>1, SuffixFits
  <2>3. Len(text) - Len(s) \in Nat /\ Len(text) - Len(s) <= Len(text)
    BY <2>2
  <2>4. SubSeq(text, 1, Len(text) - Len(s)) \in Text
    BY <1>1, <2>3, PartTypes DEF Text
  <2>5. Number(SubSeq(text, 1, Len(text) - Len(s))) \in Nat \cup {-1}
    BY <2>4, NumberType
  <2> HIDE DEF before, suffixes
  <2> QED BY <1>3, <2>2, <2>5
<1>5. DOMAIN before = suffixes
  BY <1>3
<1>6. NumericSurfaces(reading) = IF fits = {} \/ (ordinal /\ long # <<"i">>) THEN <<>>
                                 ELSE Spellings(front, before[long], <<Counters[long]>>)
  <2>1. NumericSurfaces(reading) = NumberWithSuffix(before, ordinal)
    BY DEF NumericSurfaces, text, ordinal
  <2> HIDE DEF before, suffixes
  <2> QED BY <1>5, <2>1 DEF NumberWithSuffix
<1>7. <<>> \in Seq(Text)
  BY EmptySeq
<1>8. ASSUME fits # {} PROVE Spellings(front, before[long], <<Counters[long]>>) \in Seq(Text)
  <2>1. fits \subseteq suffixes
    OBVIOUS
  <2>2. fits \subseteq Seq(Characters) /\ Len(text) \in Nat /\ \A s \in fits : Len(s) <= Len(text)
    BY <1>1, <1>2, <1>4, <2>1, LenProperties DEF Text
  <2>3. long \in fits
    <3> HIDE DEF fits
    <3> QED BY <1>8, <2>2, LongestFacts
  <2>4. before[long] \in Nat /\ Counters[long] \in Characters
    <3> HIDE DEF before, long
    <3> QED BY <1>2, <1>4, <2>3
  <2>5. "ordinal" \in Characters
    BY SupplementAssumption, SMT DEF Signs
  <2>6. front \in Text /\ <<Counters[long]>> \in Text
    <3> HIDE DEF long
    <3>1. \A c \in Characters : <<c>> \in Text
      BY DEF Text
    <3>2. <<>> \in Text
      BY EmptySeq DEF Text
    <3> QED BY <2>4, <2>5, <3>1, <3>2
  <2> HIDE DEF front, before, long
  <2> QED BY <2>4, <2>6, SpellingsType
<1> HIDE DEF fits, long, front, before
<1> QED BY <1>6, <1>7, <1>8

-----------------------------------------------------------------------------
(* What is added to a segment.                                               *)

\* Distinct leaves elements of the list, and its first.
LEMMA DistinctFacts ==
  ASSUME NEW S, NEW s \in Seq(S)
  PROVE  /\ Distinct(s) \in Seq(S)
         /\ ToSet(Distinct(s)) \subseteq ToSet(s)
         /\ s # <<>> => Distinct(s) # <<>> /\ Distinct(s)[1] = s[1]
<1> DEFINE n == Len(s)
           T == {i \in 1 .. n : \A j \in 1 .. i - 1 : s[j] # s[i]}
           K == Kept(Identity(n), T)
<1>1. n \in Nat /\ (s # <<>> => n > 0) /\ \A i \in 1 .. n : s[i] \in S
  BY LenProperties, EmptySeq, ElementOfSeq
<1>2. Distinct(s) = [k \in 1 .. Len(K) |-> s[K[k]]]
  BY DEF Distinct
<1>3. n > 0 => 1 \in T
  BY <1>1
<1> HIDE DEF T, n
<1>4. IsListOf(K, n, T)
  BY <1>1, KeptIdentity
<1> HIDE DEF K
<1>5. Len(K) \in Nat /\ K \in [1 .. Len(K) -> 1 .. n] /\ (n > 0 => Len(K) >= 1 /\ K[1] = 1)
  BY <1>1, <1>3, <1>4, ListOfFacts
<1> DEFINE m == Len(K)
           d == Distinct(s)
<1> HIDE DEF m, d
<1>6. d = [k \in 1 .. m |-> s[K[k]]] /\ m \in Nat /\ \A k \in 1 .. m : K[k] \in 1 .. n
  BY <1>2, <1>5 DEF m, d
<1>7. \A k \in 1 .. m : d[k] \in S /\ d[k] = s[K[k]]
  BY <1>1, <1>6
<1>8. d \in Seq(S) /\ DOMAIN d = 1 .. m /\ DOMAIN s = 1 .. n
  BY <1>6, <1>7, LenProperties DEF n
<1>9. ToSet(d) \subseteq ToSet(s)
  BY <1>6, <1>7, <1>8 DEF ToSet
<1>10. ASSUME s # <<>> PROVE d # <<>> /\ d[1] = s[1]
  <2>1. n > 0 /\ 1 \in 1 .. m /\ K[1] = 1
    BY <1>1, <1>5, <1>10 DEF m
  <2>2. d[1] = s[1]
    BY <1>7, <2>1
  <2>3. d # <<>>
    <3>1. Len(d) = m
      BY <1>6
    <3>2. Len(d) # 0
      BY <1>6, <2>1, <3>1
    <3> QED BY <3>2, EmptySeq
  <2> QED BY <2>2, <2>3
<1> QED BY <1>8, <1>9, <1>10 DEF d

\* The repairs of a prefix, the longest first, are one per prefix.
LEMMA PrefixRepairsType ==
  ASSUME NEW reading \in Text
  PROVE  PrefixRepairs(reading) \in Seq(Text)
<1> DEFINE sources == DOMAIN Words \cup DOMAIN Phrases
           fits == {k \in sources : IsStrictPrefix(k, reading)}
           before == [k \in fits |-> {l \in fits : Len(l) > Len(k)}]
           keys == Listed(fits, before)
           First(k) == Head(IF k \in DOMAIN Phrases THEN Phrases[k] ELSE Words[k])
<1>1. IsTable(Words) /\ IsTable(Phrases)
  BY SupplementAssumption
<1>2. IsFiniteSet(sources) /\ sources \subseteq Text
  BY <1>1, FS_Union DEF IsTable
<1> HIDE DEF sources
<1>3. IsFiniteSet(fits)
  BY <1>2, FS_Subset
<1>4. \A k \in fits : k \in Text /\ k \in sources /\ Len(k) \in Nat /\ IsPrefix(k, reading)
  BY <1>2, LenProperties DEF Text, IsStrictPrefix
<1>5. IsTotalOrder(fits, before)
  <2>1. ASSUME NEW k \in fits, NEW l \in fits, Len(k) = Len(l) PROVE k = l
    <3>1. SubSeq(k, 1, Len(k)) = k /\ SubSeq(l, 1, Len(l)) = l
      BY <1>4, SubSeqFull DEF Text
    <3> QED BY <1>4, <2>1, <3>1 DEF IsPrefix
  <2> HIDE DEF fits
  <2>2. before \in [fits -> SUBSET fits]
    OBVIOUS
  <2>3. \A k \in fits : k \notin before[k]
    BY <1>4
  <2>4. \A k, l \in fits : k \in before[l] => before[k] \subseteq before[l]
    BY <1>4
  <2>5. \A k, l \in fits : k # l => k \in before[l] \/ l \in before[k]
    BY <1>4, <2>1
  <2> HIDE DEF before
  <2> QED BY <2>2, <2>3, <2>4, <2>5 DEF IsTotalOrder
<1> DEFINE n == Cardinality(fits)
<1> HIDE DEF fits, before
<1>6. n \in Nat /\ keys \in [1 .. n -> fits]
  BY <1>3, <1>5, ListedInOrder
<1>7. PrefixRepairs(reading) = [i \in 1 .. Len(keys) |-> First(keys[i]) \o From(reading, Len(keys[i]) + 1)]
  BY DEF PrefixRepairs, keys, fits, before, sources
<1> HIDE DEF keys, n
<1>8. keys \in Seq(fits) /\ Len(keys) = n
  BY <1>6
<1>9. \A k \in fits : First(k) \in Text
  <2> SUFFICES ASSUME NEW k \in fits PROVE First(k) \in Text
    OBVIOUS
  <2> DEFINE all == IF k \in DOMAIN Phrases THEN Phrases[k] ELSE Words[k]
  <2>1. all \in Seq(Text) /\ all # <<>>
    BY <1>1, <1>4 DEF IsTable, sources
  <2> HIDE DEF all
  <2>2. Head(all) \in Text
    BY <2>1, HeadTailProperties
  <2> QED BY <2>2 DEF all
<1>10. \A k \in fits : First(k) \o From(reading, Len(k) + 1) \in Text
  <2> SUFFICES ASSUME NEW k \in fits PROVE First(k) \o From(reading, Len(k) + 1) \in Text
    OBVIOUS
  <2>1. From(reading, Len(k) + 1) \in Text
    BY <1>4, PartTypes DEF Text
  <2>2. First(k) \in Text
    BY <1>9
  <2> HIDE DEF First
  <2> QED BY <2>1, <2>2, ConcatProperties DEF Text
<1> HIDE DEF First
<1>11. \A i \in 1 .. n : First(keys[i]) \o From(reading, Len(keys[i]) + 1) \in Text
  BY <1>6, <1>10
<1> HIDE DEF Text
<1> QED BY <1>6, <1>7, <1>8, <1>11

LEMMA NumericRepairsType ==
  ASSUME NEW reading \in Text
  PROVE  NumericRepairs(reading) \in Seq(Text)
<1> DEFINE First(surfaces, k) == IF surfaces = <<>> THEN <<>> ELSE << Head(surfaces) \o From(reading, Len(k) + 1) >>
           T == {k \in ToSet(NumericPrefixes) : IsStrictPrefix(k, reading)}
           keys == Kept(NumericPrefixes, T)
           parts == [i \in 1 .. Len(keys) |-> First(NumericSurfaces(keys[i]), keys[i])]
<1>1. NumericPrefixes \in Seq(Text)
  BY SupplementAssumption
<1>2. NumericRepairs(reading) = FlattenSeq(parts)
  BY DEF NumericRepairs
<1> HIDE DEF T
<1>3. keys \in Seq(Text)
  BY <1>1, KeptFacts
<1> HIDE DEF keys
<1>4. Len(keys) \in Nat /\ \A i \in 1 .. Len(keys) : keys[i] \in Text
  <2> HIDE DEF Text
  <2> QED BY <1>3, LenProperties, ElementOfSeq
<1>5. ASSUME NEW k \in Text PROVE First(NumericSurfaces(k), k) \in Seq(Text)
  <2> DEFINE surfaces == NumericSurfaces(k)
             rest == From(reading, Len(k) + 1)
  <2>1. surfaces \in Seq(Text) /\ <<>> \in Seq(Text)
    BY NumericSurfacesType, EmptySeq
  <2>2. Len(k) \in Nat
    BY LenProperties DEF Text
  <2>3. rest \in Text
    BY <2>2, PartTypes DEF Text
  <2> HIDE DEF surfaces, rest
  <2>4. surfaces # <<>> => Head(surfaces) \in Text
    BY <2>1, HeadTailProperties
  <2>5. surfaces # <<>> => Head(surfaces) \o rest \in Text
    BY <2>3, <2>4, ConcatProperties DEF Text
  <2> HIDE DEF Text
  <2>6. (IF surfaces = <<>> THEN <<>> ELSE <<Head(surfaces) \o rest>>) \in Seq(Text)
    BY <2>1, <2>5
  <2> QED BY <2>6 DEF surfaces, rest
<1> HIDE DEF First
<1>6. \A i \in 1 .. Len(keys) : First(NumericSurfaces(keys[i]), keys[i]) \in Seq(Text)
  BY <1>4, <1>5
<1>7. parts \in Seq(Seq(Text))
  <2> DEFINE A == Seq(Text)
             e == [i \in 1 .. Len(keys) |-> First(NumericSurfaces(keys[i]), keys[i])]
  <2> HIDE DEF A
  <2>1. \A i \in 1 .. Len(keys) : First(NumericSurfaces(keys[i]), keys[i]) \in A
    BY <1>6 DEF A
  <2>2. e \in Seq(A)
    BY <1>4, <2>1
  <2> QED BY <2>2 DEF A
<1> HIDE DEF parts
<1>8. FlattenSeq(parts) \in Seq(Text)
  BY <1>7, FlattenType
<1> QED BY <1>2, <1>8

\* All that is added is texts.
LEMMA SurfacesType ==
  ASSUME NEW reading \in Text
  PROVE  Surfaces(reading) \in Seq(Text)
<1> DEFINE a == Entry(Words, reading)
           b == Entry(Phrases, reading)
           c == IF reading \in DOMAIN Abbreviations THEN <<Abbreviations[reading]>> ELSE <<>>
           d == NumericSurfaces(reading)
           e == PrefixRepairs(reading)
           f == NumericRepairs(reading)
           all == ((((a \o b) \o c) \o d) \o e) \o f
<1>1. <<>> \in Seq(Text)
  BY EmptySeq
<1>2. a \in Seq(Text) /\ b \in Seq(Text)
  BY <1>1, SupplementAssumption DEF IsTable, Entry
<1>3. c \in Seq(Text)
  <2>1. \A k \in DOMAIN Abbreviations : Abbreviations[k] \in Text
    BY SupplementAssumption
  <2> HIDE DEF Text
  <2> QED BY <1>1, <2>1
<1>4. d \in Seq(Text) /\ e \in Seq(Text) /\ f \in Seq(Text)
  BY NumericSurfacesType, PrefixRepairsType, NumericRepairsType
<1>5. \A s, t \in Seq(Text) : s \o t \in Seq(Text)
  BY ConcatProperties
<1>6. Surfaces(reading) = Distinct(all)
  BY DEF Surfaces
<1> HIDE DEF a, b, c, d, e, f
<1>7. all \in Seq(Text)
  BY <1>2, <1>3, <1>4, <1>5
<1> HIDE DEF all
<1> QED BY <1>6, <1>7, DistinctFacts

\* The candidates stay in front of what is added.
LEMMA MergedFacts ==
  ASSUME NEW reading \in Text, NEW candidates \in Seq(Text)
  PROVE  /\ Merged(reading, candidates) \in Seq(Text)
         /\ candidates # <<>> => Merged(reading, candidates) # <<>> /\ Merged(reading, candidates)[1] = candidates[1]
         /\ Len(candidates) <= Len(Merged(reading, candidates))
         /\ \A i \in 1 .. Len(candidates) : Merged(reading, candidates)[i] = candidates[i]
<1> DEFINE added == Kept(Surfaces(reading), ToSet(Surfaces(reading)) \ ToSet(candidates))
           m == candidates \o added
<1>1. added \in Seq(Text)
  BY SurfacesType, KeptFacts
<1>2. Merged(reading, candidates) = m
  BY DEF Merged
<1> HIDE DEF added
<1>3. Len(candidates) \in Nat /\ Len(added) \in Nat
  BY <1>1, LenProperties
<1>4. /\ m \in Seq(Text) /\ Len(m) = Len(candidates) + Len(added)
      /\ \A i \in 1 .. Len(candidates) + Len(added) :
           m[i] = IF i <= Len(candidates) THEN candidates[i] ELSE added[i - Len(candidates)]
  BY <1>1, ConcatProperties
<1> HIDE DEF m
<1>5. \A i \in 1 .. Len(candidates) : m[i] = candidates[i]
  BY <1>3, <1>4
<1>6. ASSUME candidates # <<>> PROVE m # <<>> /\ m[1] = candidates[1]
  <2>1. Len(candidates) > 0
    BY <1>6, EmptySeq
  <2>2. 1 \in 1 .. Len(candidates) /\ Len(m) > 0
    BY <1>3, <1>4, <2>1
  <2>3. m # <<>>
    BY <2>2, EmptySeq
  <2> QED BY <1>5, <2>2, <2>3
<1> QED BY <1>2, <1>3, <1>4, <1>5, <1>6

-----------------------------------------------------------------------------
(* Segments that become one.                                                 *)

\* The keys and the first candidates of some segments.
LEMMA SegmentFacts ==
  ASSUME NEW segments \in Seq(Segments)
  PROVE  /\ Keys(segments) \in Text
         /\ Tops(segments) \in Seq(Text) /\ Len(Tops(segments)) = Len(segments)
         /\ \A i \in 1 .. Len(segments) : Tops(segments)[i] = segments[i].candidates[1]
<1>1. Len(segments) \in Nat /\ \A i \in 1 .. Len(segments) : segments[i] \in Segments
  BY LenProperties, ElementOfSeq
<1>2. \A s \in Segments : s.key \in Text /\ s.candidates \in Seq(Text) /\ s.candidates # <<>>
  BY DEF Segments
<1>3. \A c \in Seq(Text) : c # <<>> => c[1] \in Text
  <2> SUFFICES ASSUME NEW c \in Seq(Text), c # <<>> PROVE c[1] \in Text
    OBVIOUS
  <2>1. Len(c) \in Nat \ {0}
    BY EmptySeq
  <2>2. 1 \in 1 .. Len(c)
    BY <2>1
  <2> HIDE DEF Text
  <2> QED BY <2>2, ElementOfSeq
<1> HIDE DEF Text
<1> DEFINE n == Len(segments)
           keys == [i \in 1 .. n |-> segments[i].key]
           tops == [i \in 1 .. n |-> segments[i].candidates[1]]
<1>4. \A i \in 1 .. n : segments[i].key \in Text /\ segments[i].candidates[1] \in Text
  BY <1>1, <1>2, <1>3
<1>5. Keys(segments) = FlattenSeq(keys) /\ Tops(segments) = tops
  BY DEF Keys, Tops
<1> HIDE DEF n
<1>6. n \in Nat
  BY <1>1 DEF n
<1>7. keys \in Seq(Text) /\ tops \in Seq(Text) /\ Len(tops) = n
  BY <1>4, <1>6
<1> HIDE DEF keys
<1>8. FlattenSeq(keys) \in Text
  BY <1>7, FlattenType DEF Text
<1> QED BY <1>5, <1>7, <1>8 DEF n

\* The key of two lists of segments, of one and of none.
LEMMA KeysConcat ==
  ASSUME NEW a \in Seq(Segments), NEW b \in Seq(Segments)
  PROVE  a \o b \in Seq(Segments) /\ Keys(a \o b) = Keys(a) \o Keys(b)
<1> DEFINE ka == [i \in 1 .. Len(a) |-> a[i].key]
           kb == [i \in 1 .. Len(b) |-> b[i].key]
           c == a \o b
           kc == [i \in 1 .. Len(c) |-> c[i].key]
<1>1. \A s \in Segments : s.key \in Text
  BY DEF Segments
<1>2. Len(a) \in Nat /\ Len(b) \in Nat
  BY LenProperties
<1>3. /\ c \in Seq(Segments) /\ Len(c) = Len(a) + Len(b)
      /\ \A i \in 1 .. Len(a) + Len(b) : c[i] = IF i <= Len(a) THEN a[i] ELSE b[i - Len(a)]
  BY ConcatProperties
<1>4. /\ \A i \in 1 .. Len(a) : a[i] \in Segments
      /\ \A i \in 1 .. Len(b) : b[i] \in Segments
      /\ \A i \in 1 .. Len(c) : c[i] \in Segments
  BY <1>3, ElementOfSeq
<1> HIDE DEF c, Text
<1>5. /\ ka \in Seq(Text) /\ Len(ka) = Len(a) /\ \A i \in 1 .. Len(a) : ka[i] = a[i].key
      /\ kb \in Seq(Text) /\ Len(kb) = Len(b) /\ \A i \in 1 .. Len(b) : kb[i] = b[i].key
  BY <1>1, <1>2, <1>4
<1>6. /\ kc \in Seq(Text) /\ Len(kc) = Len(a) + Len(b)
      /\ \A i \in 1 .. Len(a) + Len(b) : kc[i] = c[i].key
  BY <1>1, <1>2, <1>3, <1>4
<1>7. Keys(a) = FlattenSeq(ka) /\ Keys(b) = FlattenSeq(kb) /\ Keys(c) = FlattenSeq(kc)
  BY DEF Keys
<1> HIDE DEF ka, kb, kc
<1>8. /\ ka \o kb \in Seq(Text) /\ Len(ka \o kb) = Len(a) + Len(b)
      /\ \A i \in 1 .. Len(a) + Len(b) : (ka \o kb)[i] = IF i <= Len(a) THEN ka[i] ELSE kb[i - Len(a)]
  <2>1. ka \in Seq(Text) /\ kb \in Seq(Text) /\ Len(ka) = Len(a) /\ Len(kb) = Len(b)
    BY <1>5
  <2>2. /\ ka \o kb \in Seq(Text) /\ Len(ka \o kb) = Len(ka) + Len(kb)
        /\ \A i \in 1 .. Len(ka) + Len(kb) : (ka \o kb)[i] = IF i <= Len(ka) THEN ka[i] ELSE kb[i - Len(ka)]
    BY <2>1, ConcatProperties
  <2> QED BY <2>1, <2>2
<1>9. ASSUME NEW i \in 1 .. Len(kc) PROVE kc[i] = (ka \o kb)[i]
  <2>1. i \in 1 .. Len(a) + Len(b)
    BY <1>6
  <2>2. CASE i <= Len(a)
    <3>1. i \in 1 .. Len(a)
      BY <1>2, <2>1, <2>2
    <3> QED BY <1>3, <1>5, <1>6, <1>8, <2>1, <2>2, <3>1
  <2>3. CASE ~(i <= Len(a))
    <3>1. i - Len(a) \in 1 .. Len(b)
      BY <1>2, <2>1, <2>3
    <3> QED BY <1>3, <1>5, <1>6, <1>8, <2>1, <2>3, <3>1
  <2> QED BY <2>2, <2>3
<1>10. kc = ka \o kb
  BY <1>6, <1>8, <1>9, SeqEqual
<1>11. FlattenSeq(ka \o kb) = FlattenSeq(ka) \o FlattenSeq(kb)
  BY <1>5, FlattenConcat DEF Text
<1> QED BY <1>3, <1>7, <1>10, <1>11 DEF c

LEMMA KeysOne ==
  ASSUME NEW s \in Segments
  PROVE  <<s>> \in Seq(Segments) /\ Keys(<<s>>) = s.key
<1> DEFINE one == <<s>>
           k == s.key
<1>1. one \in Seq(Segments) /\ Len(one) = 1 /\ one[1] = s /\ k \in Text
  BY DEF Segments
<1>2. [i \in 1 .. Len(one) |-> one[i].key] = <<k>>
  BY <1>1
<1>3. Keys(one) = FlattenSeq(<<k>>)
  BY <1>2 DEF Keys
<1> HIDE DEF k
<1>4. FlattenSeq(<<k>>) = k
  BY <1>1, FlattenOne DEF Text
<1> QED BY <1>1, <1>3, <1>4 DEF k

\* A prefix of the whole that is no longer than the first part is a prefix of that.
LEMMA PrefixOfPart ==
  ASSUME NEW S, NEW s \in Seq(S), NEW u \in Seq(S), NEW v \in Seq(S),
         IsPrefix(s, u \o v), Len(s) <= Len(u)
  PROVE  IsPrefix(s, u)
<1>1. Len(s) \in Nat /\ Len(u) \in Nat
  BY LenProperties
<1>2. SubSeq(s, 1, Len(s)) = SubSeq(u \o v, 1, Len(s))
  BY DEF IsPrefix
<1>3. SubSeq(u \o v, 1, Len(s)) = SubSeq(u, 1, Len(s))
  <2>1. CASE Len(s) = 0
    <3>1. 1 \in Int /\ Len(s) \in Int /\ Len(s) < 1
      BY <1>1, <2>1
    <3> QED BY <3>1, SubSeqEmpty
  <2>2. CASE Len(s) # 0
    <3>1. 1 \in 1 .. Len(u) /\ Len(s) \in 1 .. Len(u)
      BY <1>1, <2>2
    <3> QED BY <3>1, SubSeqOfConcat1
  <2> QED BY <2>1, <2>2
<1> QED BY <1>2, <1>3 DEF IsPrefix

\* The one segment has the reading of those it is made of, and Mozc's surface first.
LEMMA JoinedFacts ==
  ASSUME NEW base \in Text, NEW repairs \in Seq(Text), NEW segments \in Seq(Segments),
         IsPrefix(base, Keys(segments))
  PROVE  JoinedSegment(base, repairs, segments) \in Segments
         /\ JoinedSegment(base, repairs, segments).key = Keys(segments)
<1> DEFINE trailing == From(Keys(segments), Len(base) + 1)
           first == FlattenSeq(Tops(segments))
           n == Len(repairs)
           others == [i \in 1 .. n |-> repairs[i] \o trailing]
           whole == base \o trailing
           candidates == <<first>> \o others
<1>1. Keys(segments) \in Text /\ Tops(segments) \in Seq(Text)
  BY SegmentFacts
<1>2. trailing \in Text /\ whole = Keys(segments)
  BY <1>1, PrefixAndRest DEF Text
<1>3. first \in Text
  BY <1>1, FlattenType DEF Text
<1>4. n \in Nat /\ \A i \in 1 .. n : repairs[i] \in Text
  BY LenProperties, ElementOfSeq
<1> HIDE DEF trailing, n
<1>5. \A i \in 1 .. n : repairs[i] \o trailing \in Text
  BY <1>2, <1>4, ConcatProperties DEF Text
<1>6. JoinedSegment(base, repairs, segments) = [key |-> whole, candidates |-> candidates]
  BY DEF JoinedSegment, trailing, n
<1> HIDE DEF Text, whole, first
<1>7. others \in Seq(Text) /\ <<first>> \in Seq(Text) /\ Len(<<first>>) = 1
  BY <1>3, <1>4, <1>5
<1> DEFINE one == <<first>>
<1> HIDE DEF others, one
<1>8. candidates \in Seq(Text) /\ candidates # <<>>
  <2>1. one \in Seq(Text) /\ Len(one) = 1 /\ candidates = one \o others
    BY <1>7 DEF one
  <2>2. candidates \in Seq(Text) /\ Len(candidates) = 1 + Len(others) /\ Len(others) \in Nat
    <3>1. one \in Seq(Text) /\ others \in Seq(Text)
      BY <1>7, <2>1
    <3>2. one \o others \in Seq(Text) /\ Len(one \o others) = Len(one) + Len(others)
      BY <3>1, ConcatProperties
    <3>3. Len(others) \in Nat
      BY <3>1, LenProperties
    <3> HIDE DEF candidates
    <3> QED BY <2>1, <3>2, <3>3
  <2>3. Len(candidates) # 0
    BY <2>2
  <2> QED BY <2>2, <2>3, EmptySeq
<1> HIDE DEF candidates
<1> QED BY <1>1, <1>2, <1>6, <1>8 DEF Segments

\* The repairable prefix is one, and what is put for it are texts.
LEMMA RepairablePrefixFacts ==
  ASSUME NEW reading \in Text
  PROVE  LET base == RepairablePrefix(reading)
         IN  /\ base \in Text /\ IsPrefix(base, reading)
             /\ base # <<>> => PrefixSurfaces(base) \in Seq(Text)
<1> DEFINE sources == DOMAIN Words \cup DOMAIN Phrases
                        \cup {k \in ToSet(NumericPrefixes) : NumericSurfaces(k) # <<>>}
           fits == {<<>>} \cup {k \in sources : IsPrefix(k, reading)}
           base == RepairablePrefix(reading)
<1>1. IsTable(Words) /\ IsTable(Phrases) /\ NumericPrefixes \in Seq(Text)
  BY SupplementAssumption
<1>2. DOMAIN NumericPrefixes = 1 .. Len(NumericPrefixes)
      /\ \A i \in 1 .. Len(NumericPrefixes) : NumericPrefixes[i] \in Text
  <2> HIDE DEF Text
  <2> QED BY <1>1, LenProperties, ElementOfSeq
<1>3. \A k \in ToSet(NumericPrefixes) : k \in Text /\ Contains(NumericPrefixes, k)
  BY <1>2 DEF ToSet, Contains
<1>4. sources \subseteq Text
  <2> HIDE DEF Text
  <2> QED BY <1>1, <1>3 DEF IsTable
<1>5. base = Longest(fits)
  BY DEF RepairablePrefix
<1>6. <<>> \in Text /\ Len(<<>>) = 0 /\ Len(reading) \in Nat
  BY EmptySeq, LenProperties DEF Text
<1>7. IsPrefix(<<>>, reading)
  <2>1. SubSeq(<<>>, 1, 0) = <<>> /\ SubSeq(reading, 1, 0) = <<>>
    BY SubSeqEmpty
  <2> QED BY <1>6, <2>1 DEF IsPrefix
<1>8. \A k \in fits : k \in Text /\ IsPrefix(k, reading) /\ Len(k) <= Len(reading) /\ (k # <<>> => k \in sources)
  <2> HIDE DEF sources, Text
  <2> QED BY <1>4, <1>6, <1>7 DEF IsPrefix
<1>9. base \in fits
  <2>1. fits # {} /\ fits \subseteq Seq(Characters) /\ \A k \in fits : Len(k) <= Len(reading)
    BY <1>8 DEF Text
  <2> HIDE DEF fits
  <2> QED BY <1>5, <1>6, <2>1, LongestFacts
<1>10. ASSUME NEW k \in sources PROVE PrefixSurfaces(k) \in Seq(Text)
  <2>1. k \in Text
    BY <1>4
  <2>2. CASE Contains(NumericPrefixes, k)
    BY <2>1, <2>2, NumericSurfacesType DEF PrefixSurfaces
  <2>3. CASE ~Contains(NumericPrefixes, k)
    <3>1. k \in DOMAIN Words \/ k \in DOMAIN Phrases
      BY <1>3, <2>3
    <3> HIDE DEF Text
    <3> QED BY <1>1, <2>3, <3>1 DEF PrefixSurfaces, IsTable
  <2> QED BY <2>2, <2>3
<1> HIDE DEF fits, sources, base
<1>11. base \in Text /\ IsPrefix(base, reading) /\ (base # <<>> => PrefixSurfaces(base) \in Seq(Text))
  BY <1>8, <1>9, <1>10
<1> QED BY <1>11 DEF base

\* Joining keeps the reading.
LEMMA JoinedUpToFacts ==
  ASSUME NEW base \in Text, NEW segments \in Seq(Segments), IsPrefix(base, Keys(segments)),
         base # <<>> => PrefixSurfaces(base) \in Seq(Text)
  PROVE  /\ JoinedUpTo(base, segments) \in Seq(Segments)
         /\ Keys(JoinedUpTo(base, segments)) = Keys(segments)
<1> DEFINE n == Len(segments)
           Part(i) == SubSeq(segments, 1, i)
           reach == {i \in 1 .. n : Len(Keys(Part(i))) >= Len(base)}
           last == CHOOSE i \in reach : \A j \in reach : i <= j
<1>1. CASE base = <<>> \/ reach = {}
  <2>1. JoinedUpTo(base, segments) = segments
    BY <1>1 DEF JoinedUpTo
  <2> QED BY <2>1
<1>2. CASE base # <<>> /\ reach # {}
  <2>1. n \in Nat
    BY LenProperties
  <2>2. last \in reach
    <3>1. reach \subseteq Nat /\ reach # {}
      BY <1>2, <2>1
    <3> HIDE DEF reach
    <3>2. \E i \in reach : \A j \in reach : i <= j
      BY <3>1, HasLeast
    <3> QED BY <3>2
  <2> DEFINE part == Part(last)
             rest == From(segments, last + 1)
             joined == JoinedSegment(base, PrefixSurfaces(base), part)
             one == <<joined>>
  <2>3. JoinedUpTo(base, segments) = one \o rest
    BY <1>2 DEF JoinedUpTo
  <2>4. last \in 1 .. n /\ Len(Keys(part)) >= Len(base)
    <3> HIDE DEF last
    <3> QED BY <2>2
  <2> HIDE DEF reach, last
  <2>5. last + 1 \in 1 .. Len(segments) + 1 /\ (last + 1) - 1 = last
    BY <2>1, <2>4
  <2> DEFINE next == last + 1
  <2> HIDE DEF next
  <2>6. SubSeq(segments, 1, next - 1) \in Seq(Segments) /\ From(segments, next) \in Seq(Segments)
        /\ SubSeq(segments, 1, next - 1) \o From(segments, next) = segments
    BY <2>5, SplitAt DEF next
  <2>7. part \in Seq(Segments) /\ rest \in Seq(Segments) /\ part \o rest = segments
    BY <2>5, <2>6 DEF next
  <2> HIDE DEF part, rest, n
  <2>8. Keys(part) \in Text /\ Keys(rest) \in Text /\ Keys(part \o rest) = Keys(part) \o Keys(rest)
    BY <2>7, SegmentFacts, KeysConcat
  <2>9. IsPrefix(base, Keys(part))
    <3> DEFINE u == Keys(part)
               v == Keys(rest)
    <3>1. Len(u) \in Nat /\ Len(base) \in Nat
      BY <2>8, LenProperties DEF Text
    <3>2. /\ u \in Seq(Characters) /\ v \in Seq(Characters) /\ base \in Seq(Characters)
          /\ IsPrefix(base, u \o v) /\ Len(base) <= Len(u)
      BY <2>4, <2>7, <2>8, <3>1 DEF Text
    <3> HIDE DEF u, v
    <3>3. IsPrefix(base, u)
      BY <3>2, PrefixOfPart
    <3> QED BY <3>3 DEF u
  <2>10. joined \in Segments /\ joined.key = Keys(part)
    BY <1>2, <2>7, <2>9, JoinedFacts
  <2> HIDE DEF joined
  <2>11. one \in Seq(Segments) /\ Keys(one) = Keys(part)
    BY <2>10, KeysOne
  <2> HIDE DEF one
  <2>12. one \o rest \in Seq(Segments) /\ Keys(one \o rest) = Keys(one) \o Keys(rest)
    BY <2>7, <2>11, KeysConcat
  <2> QED BY <2>3, <2>7, <2>8, <2>11, <2>12
<1> QED BY <1>1, <1>2

\* Collapsing segments for a supplement keeps the reading.
LEMMA PreparedFacts ==
  ASSUME NEW segments \in Seq(Segments), NEW reading, reading = Keys(segments)
  PROVE  /\ Prepared(reading, segments) \in Seq(Segments)
         /\ Keys(Prepared(reading, segments)) = reading
<1> DEFINE base == RepairablePrefix(reading)
<1>1. reading \in Text
  BY SegmentFacts
<1>2. base \in Text /\ IsPrefix(base, reading) /\ (base # <<>> => PrefixSurfaces(base) \in Seq(Text))
  BY <1>1, RepairablePrefixFacts
<1>3. Prepared(reading, segments) = JoinedUpTo(base, segments)
  BY DEF Prepared
<1> HIDE DEF base
<1> QED BY <1>2, <1>3, JoinedUpToFacts

-----------------------------------------------------------------------------
(* What is sent to the ranker: Mozc's first candidate stays first.           *)

IsOptions ==
  /\ options.limit \in Nat /\ options.joint \in Nat /\ options.beam \in Nat
  /\ options.dedup \in BOOLEAN /\ options.reps \in BOOLEAN

\* s is a list of texts that begins with t.
BeginsWith(s, t) == s \in Seq(Text) /\ s # <<>> /\ s[1] = t

LEMMA FirstOfFacts ==
  ASSUME NEW S, NEW s \in Seq(S), s # <<>>, NEW n \in Nat, n > 0
  PROVE  FirstOf(s, n) \in Seq(S) /\ FirstOf(s, n) # <<>> /\ FirstOf(s, n)[1] = s[1]
<1> DEFINE m == IF n < Len(s) THEN n ELSE Len(s)
<1>1. Len(s) \in Nat \ {0}
  BY EmptySeq
<1>2. m \in Nat /\ m > 0 /\ m <= Len(s)
  BY <1>1
<1>3. FirstOf(s, n) = SubSeq(s, 1, m)
  BY DEF FirstOf
<1> HIDE DEF m
<1>4. \A j \in 1 .. m : s[j] \in S
  BY <1>1, <1>2, ElementOfSeq
<1>5. 1 \in Int /\ m \in Int /\ 1 <= m /\ m - 1 + 1 = m /\ 1 \in 1 .. m - 1 + 1
  BY <1>2
<1>6. /\ SubSeq(s, 1, m) \in Seq(S)
      /\ Len(SubSeq(s, 1, m)) = IF 1 <= m THEN m - 1 + 1 ELSE 0
      /\ \A i \in 1 .. m - 1 + 1 : SubSeq(s, 1, m)[i] = s[1 + i - 1]
  BY <1>4, <1>5, SubSeqProperties
<1>7. SubSeq(s, 1, m)[1] = s[1]
  BY <1>5, <1>6
<1>8. Len(SubSeq(s, 1, m)) # 0
  BY <1>2, <1>5, <1>6
<1>9. SubSeq(s, 1, m) # <<>>
  BY <1>8, EmptySeq
<1> QED BY <1>3, <1>6, <1>7, <1>9

\* Putting something behind a list keeps its beginning.
LEMMA BeginsStill ==
  ASSUME NEW s, NEW t, BeginsWith(s, t), NEW u \in Seq(Text)
  PROVE  BeginsWith(s \o u, t)
<1>1. s \in Seq(Text) /\ s # <<>> /\ s[1] = t
  BY DEF BeginsWith
<1>2. Len(s) \in Nat \ {0} /\ Len(u) \in Nat
  BY <1>1, EmptySeq, LenProperties
<1>3. /\ s \o u \in Seq(Text) /\ Len(s \o u) = Len(s) + Len(u)
      /\ \A i \in 1 .. Len(s) + Len(u) : (s \o u)[i] = IF i <= Len(s) THEN s[i] ELSE u[i - Len(s)]
  BY <1>1, ConcatProperties
<1>4. 1 \in 1 .. Len(s) + Len(u) /\ 1 <= Len(s) /\ Len(s) + Len(u) # 0
  BY <1>2
<1>5. (s \o u)[1] = t
  BY <1>1, <1>3, <1>4
<1>6. s \o u # <<>>
  BY <1>3, <1>4, EmptySeq
<1> QED BY <1>3, <1>5, <1>6 DEF BeginsWith

LEMMA WithRepresentativesFacts ==
  ASSUME NEW s, NEW t, BeginsWith(s, t), NEW others \in Seq(Text), NEW only
  PROVE  /\ BeginsWith(WithRepresentatives(s, others, only), t)
         /\ ~options.reps => WithRepresentatives(s, others, only) = s
<1> DEFINE numbers == {CanonicalNumber(c) : c \in ToSet(s)}
           found == Representatives(others, numbers, only)
           more == IF options.reps THEN found ELSE <<>>
<1>1. found \in Seq(Text)
  BY KeptFacts DEF Representatives
<1>2. <<>> \in Seq(Text)
  BY EmptySeq
<1>3. WithRepresentatives(s, others, only) = s \o more
  BY DEF WithRepresentatives
<1> HIDE DEF found
<1>4. more \in Seq(Text) /\ (~options.reps => more = <<>>)
  BY <1>1, <1>2
<1> HIDE DEF more
<1>5. s \o <<>> = s
  BY ConcatEmptySeq DEF BeginsWith
<1> QED BY <1>3, <1>4, <1>5, BeginsStill

LEMMA ToSendFacts ==
  ASSUME NEW s \in Segments, NEW n \in Nat, n > 0, NEW only
  PROVE  /\ BeginsWith(ToSend(s, n, only), s.candidates[1])
         /\ ~options.reps => ToSend(s, n, only) = Merged(s.key, FirstOf(s.candidates, n))
<1> DEFINE c == s.candidates
           f == FirstOf(c, n)
           m == Merged(s.key, f)
           others == From(c, n + 1)
<1>1. s.key \in Text /\ c \in Seq(Text) /\ c # <<>>
  BY DEF Segments
<1>2. ToSend(s, n, only) = WithRepresentatives(m, others, only)
  BY DEF ToSend
<1> HIDE DEF c
<1>3. f \in Seq(Text) /\ f # <<>> /\ f[1] = c[1]
  BY <1>1, FirstOfFacts
<1>4. others \in Seq(Text)
  BY <1>1, PartTypes
<1> HIDE DEF f, others
<1>5. m \in Seq(Text) /\ m # <<>> /\ m[1] = f[1]
  BY <1>1, <1>3, MergedFacts
<1> HIDE DEF m
<1>6. BeginsWith(m, c[1])
  BY <1>3, <1>5 DEF BeginsWith
<1>7. /\ BeginsWith(WithRepresentatives(m, others, only), c[1])
      /\ ~options.reps => WithRepresentatives(m, others, only) = m
  BY <1>4, <1>6, WithRepresentativesFacts
<1> QED BY <1>2, <1>7 DEF c, f, m

LEMMA DeduplicatedFacts ==
  ASSUME NEW s \in Segments
  PROVE  Deduplicated(s) \in Segments /\ Deduplicated(s).candidates[1] = s.candidates[1]
<1> DEFINE c == s.candidates
           d == Distinct(c)
<1>1. s \in [key : Text, candidates : Seq(Text)] /\ c \in Seq(Text) /\ c # <<>>
  BY DEF Segments
<1>2. Deduplicated(s) = [s EXCEPT !.candidates = d]
  BY DEF Deduplicated
<1> HIDE DEF c
<1>3. d \in Seq(Text) /\ d # <<>> /\ d[1] = c[1]
  BY <1>1, DistinctFacts
<1> HIDE DEF d, Text
<1>4. [s EXCEPT !.candidates = d] \in [key : Text, candidates : Seq(Text)]
      /\ [s EXCEPT !.candidates = d].candidates = d
  BY <1>1, <1>3
<1> QED BY <1>2, <1>3, <1>4 DEF Segments, c

\* The candidates that the report takes for a segment.
ListOf(s) == Merged(s.key, IF options.limit = 0 THEN s.candidates ELSE FirstOf(s.candidates, options.limit))

LEMMA SentFacts ==
  ASSUME NEW s \in Segments, IsOptions
  PROVE  /\ BeginsWith(Sent(s), s.candidates[1])
         /\ ~options.dedup /\ ~options.reps => Sent(s) = ListOf(s)
<1> DEFINE d == IF options.dedup THEN Deduplicated(s) ELSE s
<1>1. d \in Segments /\ d.candidates[1] = s.candidates[1] /\ (~options.dedup => d = s)
  BY DeduplicatedFacts
<1>2. Sent(s) = IF options.limit = 0 THEN Merged(d.key, d.candidates) ELSE ToSend(d, options.limit, FALSE)
  BY DEF Sent
<1> HIDE DEF d
<1>3. CASE options.limit = 0
  <2> DEFINE c == d.candidates
             m == Merged(d.key, c)
  <2>1. d.key \in Text /\ c \in Seq(Text) /\ c # <<>>
    BY <1>1 DEF Segments
  <2> HIDE DEF c
  <2>2. m \in Seq(Text) /\ m # <<>> /\ m[1] = c[1]
    BY <2>1, MergedFacts
  <2>3. BeginsWith(m, s.candidates[1])
    BY <1>1, <2>2 DEF BeginsWith, c
  <2> QED BY <1>1, <1>2, <1>3, <2>3 DEF ListOf, c
<1>4. CASE options.limit # 0
  <2>1. options.limit \in Nat /\ options.limit > 0
    BY <1>4 DEF IsOptions
  <2>2. /\ BeginsWith(ToSend(d, options.limit, FALSE), d.candidates[1])
        /\ ~options.reps => ToSend(d, options.limit, FALSE) = Merged(d.key, FirstOf(d.candidates, options.limit))
    BY <1>1, <2>1, ToSendFacts
  <2> QED BY <1>1, <1>2, <1>4, <2>2 DEF ListOf
<1> QED BY <1>3, <1>4

-----------------------------------------------------------------------------
(* Hypotheses for a whole reading: the first is made of the first candidates. *)

Hypothesis == [parts : Seq(Text), cost : Nat]

\* Hypotheses the first of which costs nothing.
Beams == {hs \in Seq(Hypothesis) : hs # <<>> /\ hs[1].cost = 0}

ChoiceLists == {c \in Seq(Text) : c # <<>>}

\* What the lemma below needs of the places of a table: each has a cost, and the
\* first has none.
PlaceFacts(places, hs, choices, cost) ==
  /\ IsFiniteSet(places)
  /\ <<1, 1>> \in places
  /\ \A p \in places : /\ p[1] \in 1 .. Len(hs) /\ p[2] \in 1 .. Len(choices)
                         /\ p = <<p[1], p[2]>> /\ cost[p] \in Nat
  /\ cost[<<1, 1>>] = 0

LEMMA PlacesOfTable ==
  ASSUME NEW hs \in Beams, NEW choices \in ChoiceLists, NEW places, NEW cost,
         places = (1 .. Len(hs)) \X (1 .. Len(choices)),
         cost = [p \in places |-> hs[p[1]].cost + p[2] - 1]
  PROVE  PlaceFacts(places, hs, choices, cost)
<1>1. hs \in Seq(Hypothesis) /\ hs # <<>> /\ hs[1].cost = 0
  BY DEF Beams
<1>2. choices \in Seq(Text) /\ choices # <<>>
  BY DEF ChoiceLists
<1>3. Len(hs) \in Nat \ {0} /\ Len(choices) \in Nat \ {0}
  BY <1>1, <1>2, EmptySeq
<1>4. \A i \in 1 .. Len(hs) : hs[i] \in Hypothesis
  BY <1>1, ElementOfSeq
<1>5. \A h \in Hypothesis : h.cost \in Nat
  BY DEF Hypothesis
<1>6. \A p \in places : p[1] \in 1 .. Len(hs) /\ p[2] \in 1 .. Len(choices) /\ p = <<p[1], p[2]>>
  OBVIOUS
<1>7. 1 \in 1 .. Len(hs) /\ 1 \in 1 .. Len(choices)
  BY <1>3
<1>8. <<1, 1>> \in places
  BY <1>7
<1>9. ASSUME NEW p \in places PROVE cost[p] \in Nat
  <2> DEFINE a == hs[p[1]].cost
             b == p[2]
  <2>1. cost[p] = a + b - 1
    OBVIOUS
  <2>2. a \in Nat /\ b \in Nat /\ b >= 1
    BY <1>4, <1>5, <1>6
  <2> HIDE DEF a, b
  <2> QED BY <2>1, <2>2
<1>10. cost[<<1, 1>>] = 0
  <2> DEFINE a == hs[1].cost
  <2>1. cost[<<1, 1>>] = a + 1 - 1
    BY <1>8
  <2>2. a = 0
    BY <1>1
  <2> HIDE DEF a
  <2> QED BY <2>1, <2>2
<1>11. IsFiniteSet(places)
  <2> DEFINE A == 1 .. Len(hs)
             B == 1 .. Len(choices)
  <2>1. IsFiniteSet(A) /\ IsFiniteSet(B)
    BY <1>3, FS_Interval
  <2> HIDE DEF A, B
  <2>2. IsFiniteSet(A \X B)
    BY <2>1, FS_Product
  <2> QED BY <2>2 DEF A, B
<1> QED BY <1>6, <1>8, <1>9, <1>10, <1>11 DEF PlaceFacts

\* The order of the places.
IsCheaper(q, p, cost) ==
  \/ cost[q] < cost[p]
  \/ cost[q] = cost[p] /\ (q[1] < p[1] \/ (q[1] = p[1] /\ q[2] < p[2]))

LEMMA CheaperIsOrder ==
  ASSUME NEW hs, NEW choices, NEW places, NEW cost, PlaceFacts(places, hs, choices, cost),
         Len(hs) \in Nat, Len(choices) \in Nat
  PROVE  /\ IsTotalOrder(places, [p \in places |-> {q \in places : IsCheaper(q, p, cost)}])
         /\ \A q \in places : ~IsCheaper(q, <<1, 1>>, cost)
<1> DEFINE before == [p \in places |-> {q \in places : IsCheaper(q, p, cost)}]
<1>1. \A p \in places : p[1] \in Nat /\ p[2] \in Nat /\ p[1] >= 1 /\ p[2] >= 1 /\ cost[p] \in Nat
  BY DEF PlaceFacts
<1>2. ASSUME NEW p \in places, NEW q \in places, p # q PROVE p[1] # q[1] \/ p[2] # q[2]
  <2>1. p = <<p[1], p[2]>> /\ q = <<q[1], q[2]>>
    BY DEF PlaceFacts
  <2> QED BY <1>2, <2>1
<1>3. \A p \in places : ~IsCheaper(p, p, cost)
  BY <1>1 DEF IsCheaper
<1>4. ASSUME NEW p \in places, NEW q \in places, NEW r \in places, IsCheaper(p, q, cost), IsCheaper(q, r, cost)
      PROVE  IsCheaper(p, r, cost)
  <2> DEFINE a == cost[p]
             b == cost[q]
             c == cost[r]
             p1 == p[1]
             q1 == q[1]
             r1 == r[1]
             p2 == p[2]
             q2 == q[2]
             r2 == r[2]
  <2>1. a \in Nat /\ b \in Nat /\ c \in Nat /\ p1 \in Nat /\ q1 \in Nat /\ r1 \in Nat
        /\ p2 \in Nat /\ q2 \in Nat /\ r2 \in Nat
    BY <1>1
  <2>2. a < b \/ (a = b /\ (p1 < q1 \/ (p1 = q1 /\ p2 < q2)))
    BY <1>4 DEF IsCheaper
  <2>3. b < c \/ (b = c /\ (q1 < r1 \/ (q1 = r1 /\ q2 < r2)))
    BY <1>4 DEF IsCheaper
  <2> SUFFICES a < c \/ (a = c /\ (p1 < r1 \/ (p1 = r1 /\ p2 < r2)))
    BY DEF IsCheaper
  <2> HIDE DEF a, b, c, p1, q1, r1, p2, q2, r2
  <2> QED BY <2>1, <2>2, <2>3
<1>5. ASSUME NEW p \in places, NEW q \in places, p # q PROVE IsCheaper(p, q, cost) \/ IsCheaper(q, p, cost)
  <2> DEFINE a == cost[p]
             b == cost[q]
             p1 == p[1]
             q1 == q[1]
             p2 == p[2]
             q2 == q[2]
  <2>1. a \in Nat /\ b \in Nat /\ p1 \in Nat /\ q1 \in Nat /\ p2 \in Nat /\ q2 \in Nat
    BY <1>1
  <2>2. p1 # q1 \/ p2 # q2
    BY <1>2, <1>5
  <2> SUFFICES \/ a < b \/ (a = b /\ (p1 < q1 \/ (p1 = q1 /\ p2 < q2)))
               \/ b < a \/ (b = a /\ (q1 < p1 \/ (q1 = p1 /\ q2 < p2)))
    BY DEF IsCheaper
  <2> HIDE DEF a, b, p1, q1, p2, q2
  <2> QED BY <2>1, <2>2
<1>6. ASSUME NEW q \in places PROVE ~IsCheaper(q, <<1, 1>>, cost)
  <2>1. cost[<<1, 1>>] = 0 /\ cost[q] \in Nat /\ q[1] \in Nat /\ q[2] \in Nat /\ q[1] >= 1 /\ q[2] >= 1
    BY <1>1 DEF PlaceFacts
  <2>2. ~(cost[q] < 0) /\ ~(q[1] < 1) /\ ~(q[2] < 1)
    BY <2>1
  <2>3. <<1, 1>>[1] = 1 /\ <<1, 1>>[2] = 1
    OBVIOUS
  <2> QED BY <2>1, <2>2, <2>3 DEF IsCheaper
<1>7. before \in [places -> SUBSET places]
  OBVIOUS
<1>8. \A p, q \in places : q \in before[p] <=> IsCheaper(q, p, cost)
  OBVIOUS
<1> HIDE DEF before
<1>9. IsTotalOrder(places, before)
  <2>1. \A p \in places : p \notin before[p]
    BY <1>3, <1>8
  <2>2. ASSUME NEW p \in places, NEW q \in places, p \in before[q] PROVE before[p] \subseteq before[q]
    <3>1. \A r \in before[p] : r \in places
      BY <1>7
    <3> QED BY <1>4, <1>8, <2>2, <3>1
  <2>3. \A p, q \in places : p # q => p \in before[q] \/ q \in before[p]
    BY <1>5, <1>8
  <2> QED BY <1>7, <2>1, <2>2, <2>3 DEF IsTotalOrder
<1> QED BY <1>6, <1>9 DEF before

\* The cheapest hypothesis is the cheapest one so far with the first choice.
LEMMA ExpandedFacts ==
  ASSUME NEW hs \in Beams, NEW choices \in ChoiceLists
  PROVE  /\ Expanded(hs, choices) \in Beams
         /\ Expanded(hs, choices)[1].parts = Append(hs[1].parts, choices[1])
<1> DEFINE places == (1 .. Len(hs)) \X (1 .. Len(choices))
           cost == [p \in places |-> hs[p[1]].cost + p[2] - 1]
           before == [p \in places |-> {q \in places : IsCheaper(q, p, cost)}]
           sorted == Listed(places, before)
           n == Cardinality(places)
           H(p) == [parts |-> Append(hs[p[1]].parts, choices[p[2]]), cost |-> cost[p]]
           e == [k \in 1 .. Len(sorted) |-> H(sorted[k])]
<1>1. hs \in Seq(Hypothesis) /\ hs # <<>> /\ choices \in Seq(Text) /\ choices # <<>>
  BY DEF Beams, ChoiceLists
<1>2. Len(hs) \in Nat /\ Len(choices) \in Nat
  BY <1>1, LenProperties
<1>3. PlaceFacts(places, hs, choices, cost)
  BY PlacesOfTable
<1>4. Expanded(hs, choices) = e
  BY DEF Expanded, IsCheaper
<1> HIDE DEF places, cost
<1>5. IsTotalOrder(places, before) /\ \A q \in places : ~IsCheaper(q, <<1, 1>>, cost)
  BY <1>2, <1>3, CheaperIsOrder
<1>6. /\ IsFiniteSet(places) /\ <<1, 1>> \in places /\ cost[<<1, 1>>] = 0
      /\ \A p \in places : p[1] \in 1 .. Len(hs) /\ p[2] \in 1 .. Len(choices) /\ cost[p] \in Nat
  BY <1>3 DEF PlaceFacts
<1>7. \A q \in places : q \notin before[<<1, 1>>]
  BY <1>5, <1>6
<1> HIDE DEF before
<1>8. /\ n \in Nat /\ sorted \in [1 .. n -> places]
      /\ \E k \in 1 .. n : sorted[k] = <<1, 1>>
      /\ \A k, l \in 1 .. n : k < l <=> sorted[k] \in before[sorted[l]]
  <2>1. IsFiniteSet(places) /\ IsTotalOrder(places, before)
    BY <1>5, <1>6
  <2>2. /\ Cardinality(places) \in Nat
        /\ Listed(places, before) \in [1 .. Cardinality(places) -> places]
        /\ \A i \in places : \E k \in 1 .. Cardinality(places) : Listed(places, before)[k] = i
        /\ \A k, l \in 1 .. Cardinality(places) :
             k < l <=> Listed(places, before)[k] \in before[Listed(places, before)[l]]
    BY <2>1, ListedInOrder
  <2> HIDE DEF sorted, n
  <2> QED BY <1>6, <2>2 DEF sorted, n
<1> HIDE DEF sorted, n
<1>9. sorted[1] = <<1, 1>> /\ 1 \in 1 .. n
  <2>1. PICK k \in 1 .. n : sorted[k] = <<1, 1>>
    BY <1>8
  <2>2. 1 \in 1 .. n /\ sorted[1] \in places
    BY <1>8, <2>1
  <2>3. ~(1 < k)
    BY <1>7, <1>8, <2>1, <2>2
  <2>4. k = 1
    BY <1>8, <2>3
  <2> QED BY <2>1, <2>2, <2>4
<1>10. ASSUME NEW p \in places PROVE H(p) \in Hypothesis
  <2>1. p[1] \in 1 .. Len(hs) /\ p[2] \in 1 .. Len(choices) /\ cost[p] \in Nat
    BY <1>6
  <2>2. hs[p[1]] \in Hypothesis /\ choices[p[2]] \in Text
    BY <1>1, <2>1, ElementOfSeq
  <2>3. hs[p[1]].parts \in Seq(Text)
    BY <2>2 DEF Hypothesis
  <2>4. Append(hs[p[1]].parts, choices[p[2]]) \in Seq(Text)
    BY <2>2, <2>3, AppendProperties
  <2> QED BY <2>1, <2>4 DEF Hypothesis
<1>11. H(<<1, 1>>).cost = 0 /\ H(<<1, 1>>).parts = Append(hs[1].parts, choices[1])
  BY <1>6
<1> HIDE DEF H
<1>12. Len(sorted) = n
  BY <1>8
<1>13. e = [k \in 1 .. n |-> H(sorted[k])] /\ \A k \in 1 .. n : H(sorted[k]) \in Hypothesis
  BY <1>8, <1>10, <1>12
<1> HIDE DEF e
<1>14. e \in Seq(Hypothesis) /\ Len(e) = n /\ e[1] = H(<<1, 1>>)
  BY <1>8, <1>9, <1>13
<1>15. e # <<>>
  <2>1. Len(e) # 0
    BY <1>8, <1>9, <1>14
  <2> QED BY <2>1, EmptySeq
<1> QED BY <1>4, <1>11, <1>14, <1>15 DEF Beams

\* The first hypothesis of all is the first choices.
LEMMA HypothesesFacts ==
  ASSUME NEW choices \in Seq(ChoiceLists), IsOptions
  PROVE  /\ Hypotheses(choices) \in Beams
         /\ Hypotheses(choices)[1].parts = [i \in 1 .. Len(choices) |-> choices[i][1]]
<1> DEFINE n == Len(choices)
           Best(hs) == IF options.beam > 0 THEN FirstOf(hs, options.beam) ELSE hs
           zero == [parts |-> <<>>, cost |-> 0]
           base == <<zero>>
           Grow(k, hs) == Best(Expanded(hs, choices[k]))
           step == [k \in 1 .. n |-> [hs \in Beams |-> Grow(k, hs)]]
           Body(g) == [k \in 0 .. Len(choices) |->
                         IF k = 0 THEN << [parts |-> <<>>, cost |-> 0] >>
                         ELSE Best(Expanded(g[k - 1], choices[k]))]
           grown == CHOOSE g : g = Body(g)
           tops == [i \in 1 .. n |-> choices[i][1]]
<1>1. n \in Nat /\ \A k \in 1 .. n : choices[k] \in ChoiceLists
  BY LenProperties, ElementOfSeq
<1>2. base \in Beams /\ base[1].parts = <<>>
  <2>1. zero \in Hypothesis
    <3>1. <<>> \in Seq(Text)
      BY EmptySeq
    <3> QED BY <3>1 DEF Hypothesis
  <2>2. zero.cost = 0 /\ zero.parts = <<>>
    OBVIOUS
  <2> HIDE DEF zero
  <2>3. base \in Seq(Hypothesis) /\ base # <<>> /\ base[1] = zero
    BY <2>1
  <2> QED BY <2>2, <2>3 DEF Beams
<1>3. ASSUME NEW hs \in Beams PROVE Best(hs) \in Beams /\ Best(hs)[1] = hs[1]
  <2>1. hs \in Seq(Hypothesis) /\ hs # <<>> /\ hs[1].cost = 0
    BY DEF Beams
  <2>2. CASE options.beam > 0
    <3>1. options.beam \in Nat
      BY DEF IsOptions
    <3>2. FirstOf(hs, options.beam) \in Seq(Hypothesis) /\ FirstOf(hs, options.beam) # <<>>
          /\ FirstOf(hs, options.beam)[1] = hs[1]
      BY <2>1, <2>2, <3>1, FirstOfFacts
    <3> QED BY <2>1, <2>2, <3>2 DEF Beams
  <2>3. CASE ~(options.beam > 0)
    BY <2>3
  <2> QED BY <2>2, <2>3
<1>4. ASSUME NEW k \in 1 .. n, NEW hs \in Beams
      PROVE  Grow(k, hs) \in Beams /\ Grow(k, hs)[1].parts = Append(hs[1].parts, choices[k][1])
  <2> DEFINE e == Expanded(hs, choices[k])
  <2>1. e \in Beams /\ e[1].parts = Append(hs[1].parts, choices[k][1])
    BY <1>1, ExpandedFacts
  <2> HIDE DEF e
  <2>2. Best(e) \in Beams /\ Best(e)[1] = e[1]
    BY <1>3, <2>1
  <2> HIDE DEF Best
  <2> QED BY <2>1, <2>2 DEF e
<1>5. Hypotheses(choices) = grown[n]
  BY Zenon DEF Hypotheses
<1>6. \A g : Body(g) = [k \in 0 .. n |-> IF k = 0 THEN base ELSE Grow(k, g[k - 1])]
  OBVIOUS
<1> HIDE DEF Body, Best, Grow, base, n, zero
<1>7. step \in [1 .. n -> [Beams -> Beams]] /\ \A k \in 1 .. n, hs \in Beams : step[k][hs] = Grow(k, hs)
  BY <1>4
<1> HIDE DEF step
<1>8. PICK f : IsRecursive(f, n, Beams, base, step)
  BY <1>1, <1>2, <1>7, RecursionUpTo
<1>9. \A k \in 1 .. n : k - 1 \in 0 .. n /\ k \in 0 .. n /\ k # 0
  BY <1>1
<1>10. /\ f \in [0 .. n -> Beams] /\ f[0] = base
       /\ \A k \in 1 .. n : f[k] = Grow(k, f[k - 1])
  BY <1>7, <1>8, <1>9 DEF IsRecursive
<1>11. f = [k \in 0 .. n |-> IF k = 0 THEN base ELSE Grow(k, f[k - 1])]
  <2>1. \A k \in 0 .. n : k = 0 \/ k \in 1 .. n
    BY <1>1
  <2>2. \A k \in 0 .. n : f[k] = IF k = 0 THEN base ELSE Grow(k, f[k - 1])
    BY <1>10, <2>1
  <2> QED BY <1>10, <2>2
<1>12. f = Body(f)
  BY <1>6, <1>11
<1>13. grown = Body(grown)
  BY <1>12
<1> HIDE DEF grown
<1>14. grown = [k \in 0 .. n |-> IF k = 0 THEN base ELSE Grow(k, grown[k - 1])]
  BY <1>6, <1>13
<1>15. \A i \in 1 .. n : choices[i][1] \in Text
  <2> SUFFICES ASSUME NEW i \in 1 .. n PROVE choices[i][1] \in Text
    OBVIOUS
  <2> DEFINE c == choices[i]
  <2>1. c \in Seq(Text) /\ c # <<>>
    BY <1>1 DEF ChoiceLists
  <2> HIDE DEF c
  <2>2. 1 \in 1 .. Len(c)
    BY <2>1, EmptySeq
  <2>3. c[1] \in Text
    BY <2>1, <2>2, ElementOfSeq
  <2> QED BY <2>3 DEF c
<1>16. tops \in Seq(Text) /\ Len(tops) = n /\ \A i \in 1 .. n : tops[i] = choices[i][1]
  <2> HIDE DEF Text
  <2> QED BY <1>1, <1>15
<1> DEFINE T == {k \in 0 .. n : grown[k] \in Beams /\ grown[k][1].parts = SubSeq(tops, 1, k)}
<1> HIDE DEF tops
<1>17. 0 \in T
  <2>1. 0 \in 0 .. n
    BY <1>1
  <2>2. grown[0] = base
    BY <1>14, <2>1
  <2>3. SubSeq(tops, 1, 0) = <<>>
    BY SubSeqEmpty
  <2> QED BY <1>2, <2>1, <2>2, <2>3
<1>18. ASSUME NEW k \in 1 .. n, k - 1 \in T PROVE k \in T
  <2> DEFINE hs == grown[k - 1]
  <2>1. hs \in Beams /\ hs[1].parts = SubSeq(tops, 1, k - 1)
    BY <1>18
  <2>2. k \in 0 .. n /\ grown[k] = Grow(k, hs)
    BY <1>9, <1>14
  <2> HIDE DEF hs
  <2>3. grown[k] \in Beams /\ grown[k][1].parts = Append(SubSeq(tops, 1, k - 1), tops[k])
    <3>1. Grow(k, hs) \in Beams /\ Grow(k, hs)[1].parts = Append(hs[1].parts, choices[k][1])
      BY <1>4, <2>1
    <3>2. tops[k] = choices[k][1]
      BY <1>16
    <3> QED BY <2>1, <2>2, <3>1, <3>2
  <2>4. SubSeq(tops, 1, k) = SubSeq(tops, 1, k - 1) \o <<tops[k]>>
    <3>1. 1 \in 1 .. Len(tops) /\ k \in 1 .. Len(tops)
      BY <1>1, <1>16
    <3> QED BY <1>16, <3>1, SubSeqRecursiveSecond
  <2>5. Append(SubSeq(tops, 1, k - 1), tops[k]) = SubSeq(tops, 1, k - 1) \o <<tops[k]>>
    <3>1. SubSeq(tops, 1, k - 1) \in Seq(Text) /\ tops[k] \in Text
      <4>1. k - 1 \in Nat /\ k - 1 <= Len(tops)
        BY <1>1, <1>16
      <4> QED BY <1>15, <1>16, <4>1, PartTypes
    <3> QED BY <3>1, AppendIsConcat
  <2> QED BY <2>2, <2>3, <2>4, <2>5
<1> HIDE DEF T
<1>19. \A k \in 0 .. n : k \in T
  BY <1>1, <1>17, <1>18, InductionUpTo
<1>20. n \in 0 .. n
  BY <1>1
<1>21. grown[n] \in Beams /\ grown[n][1].parts = SubSeq(tops, 1, n)
  BY <1>19, <1>20 DEF T
<1>22. SubSeq(tops, 1, n) = tops
  BY <1>16, SubSeqFull
<1> QED BY <1>5, <1>21, <1>22 DEF tops, n

\* What is sent for a whole reading begins with Mozc's own surface.
LEMMA JointSentFacts ==
  ASSUME NEW segments \in Seq(Segments), IsOptions, options.joint > 0
  PROVE  BeginsWith(JointSent(segments), FlattenSeq(Tops(segments)))
<1> DEFINE n == Len(segments)
           Sending(s) == ToSend(Deduplicated(s), options.joint, TRUE)
           choices == [i \in 1 .. n |-> Sending(segments[i])]
           hs == Hypotheses(choices)
           j == [k \in 1 .. Len(hs) |-> FlattenSeq(hs[k].parts)]
<1>1. n \in Nat /\ \A i \in 1 .. n : segments[i] \in Segments
  BY LenProperties, ElementOfSeq
<1>2. JointSent(segments) = j
  BY DEF JointSent
<1>3. ASSUME NEW s \in Segments PROVE BeginsWith(Sending(s), s.candidates[1])
  <2>1. Deduplicated(s) \in Segments /\ Deduplicated(s).candidates[1] = s.candidates[1]
    BY DeduplicatedFacts
  <2>2. options.joint \in Nat
    BY DEF IsOptions
  <2>3. BeginsWith(ToSend(Deduplicated(s), options.joint, TRUE), Deduplicated(s).candidates[1])
    BY <2>1, <2>2, ToSendFacts
  <2> QED BY <2>1, <2>3
<1> HIDE DEF Sending
<1>4. \A i \in 1 .. n : Sending(segments[i]) \in ChoiceLists /\ Sending(segments[i])[1] = segments[i].candidates[1]
  BY <1>1, <1>3 DEF BeginsWith, ChoiceLists
<1> HIDE DEF n
<1>5. choices \in Seq(ChoiceLists) /\ Len(choices) = n /\ \A i \in 1 .. n : choices[i][1] = segments[i].candidates[1]
  BY <1>1, <1>4
<1> HIDE DEF choices
<1>6. hs \in Beams /\ hs[1].parts = [i \in 1 .. Len(choices) |-> choices[i][1]]
  BY <1>5, HypothesesFacts
<1>7. [i \in 1 .. Len(choices) |-> choices[i][1]] = Tops(segments)
  BY <1>5 DEF Tops, n
<1> HIDE DEF hs
<1>8. hs \in Seq(Hypothesis) /\ hs # <<>>
  BY <1>6 DEF Beams
<1>9. Len(hs) \in Nat \ {0} /\ \A k \in 1 .. Len(hs) : hs[k] \in Hypothesis
  BY <1>8, EmptySeq, ElementOfSeq
<1>10. \A k \in 1 .. Len(hs) : FlattenSeq(hs[k].parts) \in Text
  BY <1>9, FlattenType DEF Hypothesis, Text
<1> DEFINE m == Len(hs)
<1> HIDE DEF m, Text
<1>11. j \in Seq(Text) /\ Len(j) = m /\ j[1] = FlattenSeq(hs[1].parts) /\ m # 0
  BY <1>9, <1>10 DEF m
<1>12. j # <<>>
  BY <1>11, EmptySeq
<1> QED BY <1>2, <1>6, <1>7, <1>11, <1>12 DEF BeginsWith

-----------------------------------------------------------------------------
(* What can be composed of lists.                                            *)

LEMMA PrefixOfConcat ==
  ASSUME NEW S, NEW u \in Seq(S), NEW v \in Seq(S)
  PROVE  IsPrefix(u, u \o v)
<1>1. Len(u) \in Nat /\ Len(v) \in Nat /\ Len(u \o v) = Len(u) + Len(v)
  BY LenProperties, ConcatProperties
<1>2. SubSeq(u \o v, 1, Len(u)) = SubSeq(u, 1, Len(u))
  <2>1. CASE Len(u) = 0
    <3>1. 1 \in Int /\ Len(u) \in Int /\ Len(u) < 1
      BY <1>1, <2>1
    <3> QED BY <3>1, SubSeqEmpty
  <2>2. CASE Len(u) # 0
    <3>1. 1 \in 1 .. Len(u) /\ Len(u) \in 1 .. Len(u)
      BY <1>1, <2>2
    <3> QED BY <3>1, SubSeqOfConcat1
  <2> QED BY <2>1, <2>2
<1>3. Len(u) <= Len(u \o v)
  BY <1>1
<1> QED BY <1>2, <1>3 DEF IsPrefix

\* The first k texts put together are the first k - 1 and the k-th, and the whole
\* begins with them.
LEMMA FlattenUpto ==
  ASSUME NEW ss \in Seq(Text), NEW k \in 1 .. Len(ss)
  PROVE  /\ FlattenSeq(SubSeq(ss, 1, k)) = FlattenSeq(SubSeq(ss, 1, k - 1)) \o ss[k]
         /\ FlattenSeq(SubSeq(ss, 1, k - 1)) \in Text
         /\ IsPrefix(FlattenSeq(SubSeq(ss, 1, k)), FlattenSeq(ss))
<1> DEFINE n == Len(ss)
           u == SubSeq(ss, 1, k - 1)
           x == ss[k]
           w == SubSeq(ss, 1, k)
           v == From(ss, k + 1)
<1>1. n \in Nat /\ x \in Text /\ k - 1 \in Nat /\ k - 1 <= n /\ k \in Nat /\ k <= n
  BY LenProperties, ElementOfSeq
<1>2. u \in Seq(Text) /\ w \in Seq(Text) /\ v \in Seq(Text)
  BY <1>1, PartTypes
<1>3. w = u \o <<x>>
  <2>1. 1 \in 1 .. Len(ss) /\ k \in 1 .. Len(ss)
    BY <1>1
  <2> QED BY <2>1, SubSeqRecursiveSecond
<1>4. w \o v = ss
  <2>1. k + 1 \in 1 .. Len(ss) + 1 /\ (k + 1) - 1 = k
    BY <1>1
  <2> DEFINE i == k + 1
  <2> HIDE DEF i
  <2>2. SubSeq(ss, 1, i - 1) \o From(ss, i) = ss
    BY <2>1, SplitAt DEF i
  <2> QED BY <2>1, <2>2 DEF i
<1> HIDE DEF u, w, v, x, n
<1>5. u \o <<x>> = Append(u, x)
  BY <1>1, <1>2, AppendIsConcat
<1>6. FlattenSeq(Append(u, x)) = FlattenSeq(u) \o x
  BY <1>1, <1>2, FlattenAppend DEF Text
<1>7. FlattenSeq(u) \in Text /\ FlattenSeq(w) \in Text /\ FlattenSeq(v) \in Text
  BY <1>2, FlattenType DEF Text
<1>8. FlattenSeq(w \o v) = FlattenSeq(w) \o FlattenSeq(v)
  BY <1>2, FlattenConcat DEF Text
<1>9. IsPrefix(FlattenSeq(w), FlattenSeq(ss))
  <2> DEFINE a == FlattenSeq(w)
             b == FlattenSeq(v)
  <2>1. a \in Seq(Characters) /\ b \in Seq(Characters) /\ FlattenSeq(ss) = a \o b
    BY <1>4, <1>7, <1>8 DEF Text
  <2> HIDE DEF a, b
  <2>2. IsPrefix(a, a \o b)
    BY <2>1, PrefixOfConcat
  <2> QED BY <2>1, <2>2 DEF a
<1>10. FlattenSeq(w) = FlattenSeq(u) \o x
  BY <1>3, <1>5, <1>6
<1> QED BY <1>7, <1>9, <1>10 DEF u, w, x

LEMMA ComposedHas ==
  ASSUME NEW a, NEW b, NEW p \in a, NEW c \in b, NEW acceptable, \E e \in acceptable : IsPrefix(p \o c, e)
  PROVE  p \o c \in Composed(a, b, acceptable)
<1>1. p \o c \in UNION {{x \o y : y \in b} : x \in a}
  OBVIOUS
<1> QED BY <1>1 DEF Composed

\* A choice of one text per list that makes an acceptable surface is found.
LEMMA CanComposeFacts ==
  ASSUME NEW lists \in Seq(Seq(Text)), NEW acceptable, NEW choice \in Seq(Text),
         Len(choice) = Len(lists), \A i \in 1 .. Len(lists) : choice[i] \in ToSet(lists[i]),
         FlattenSeq(choice) \in acceptable
  PROVE  CanCompose(lists, acceptable, 0)
<1> DEFINE n == Len(lists)
           Lists == Seq(Text)
           Fits(t) == \E e \in acceptable : IsPrefix(t, e)
           Both(a, b) == Composed(a, b, acceptable)
           Body(g) == [k \in 0 .. Len(lists) |->
                         IF k = 0 THEN {<<>>}
                         ELSE Composed(g[k - 1], ToSet(IF 0 = 0 THEN lists[k] ELSE FirstOf(Distinct(lists[k]), 0)),
                                       acceptable)]
           partial == CHOOSE g : g = Body(g)
           Partials == SUBSET Text
           base == {<<>>}
           step == [k \in 1 .. n |-> [a \in Partials |-> Both(a, ToSet(lists[k]))]]
<1>1. n \in Nat /\ lists \in Seq(Lists)
  <2>1. lists \in Seq(Lists)
    OBVIOUS
  <2> HIDE DEF Lists
  <2> QED BY <2>1, LenProperties
<1>2. \A k \in 1 .. n : ToSet(lists[k]) \subseteq Text
  <2> SUFFICES ASSUME NEW k \in 1 .. n PROVE ToSet(lists[k]) \subseteq Text
    OBVIOUS
  <2> DEFINE l == lists[k]
  <2>1. l \in Lists
    <3> HIDE DEF Lists
    <3> QED BY <1>1, ElementOfSeq
  <2>2. l \in Seq(Text)
    BY <2>1
  <2> HIDE DEF l, Text
  <2>3. DOMAIN l = 1 .. Len(l) /\ \A i \in 1 .. Len(l) : l[i] \in Text
    BY <2>2, LenProperties, ElementOfSeq
  <2>4. ToSet(l) \subseteq Text
    BY <2>3 DEF ToSet
  <2> QED BY <2>4 DEF l
<1>3. CanCompose(lists, acceptable, 0) <=> partial[n] \cap acceptable # {}
  BY Zenon DEF CanCompose
<1>4. \A g : Body(g) = [k \in 0 .. n |-> IF k = 0 THEN base ELSE Both(g[k - 1], ToSet(lists[k]))]
  OBVIOUS
<1>5. base \in Partials
  BY EmptySeq DEF Text
<1>6. ASSUME NEW a \in Partials, NEW k \in 1 .. n PROVE Both(a, ToSet(lists[k])) \in Partials
  <2>1. \A s, t \in Text : s \o t \in Text
    BY ConcatProperties DEF Text
  <2>2. ToSet(lists[k]) \subseteq Text
    BY <1>2
  <2> SUFFICES ASSUME NEW t \in Both(a, ToSet(lists[k])) PROVE t \in Text
    OBVIOUS
  <2>3. PICK p \in a, c \in ToSet(lists[k]) : t = p \o c
    BY DEF Composed
  <2> HIDE DEF Text, Both
  <2> QED BY <2>1, <2>2, <2>3
<1>7. ASSUME NEW a, NEW b, NEW p, NEW c, p \in a, c \in b, Fits(p \o c) PROVE p \o c \in Both(a, b)
  <2> QED BY <1>7, ComposedHas
<1> HIDE DEF Body, Both, Partials, base, n
<1>8. step \in [1 .. n -> [Partials -> Partials]]
      /\ \A k \in 1 .. n, a \in Partials : step[k][a] = Both(a, ToSet(lists[k]))
  BY <1>6
<1> HIDE DEF step
<1>9. PICK f : IsRecursive(f, n, Partials, base, step)
  BY <1>1, <1>5, <1>8, RecursionUpTo
<1>10. \A k \in 1 .. n : k - 1 \in 0 .. n /\ k \in 0 .. n /\ k # 0
  BY <1>1
<1>11. /\ f \in [0 .. n -> Partials] /\ f[0] = base
       /\ \A k \in 1 .. n : f[k] = Both(f[k - 1], ToSet(lists[k]))
  BY <1>8, <1>9, <1>10 DEF IsRecursive
<1>12. f = [k \in 0 .. n |-> IF k = 0 THEN base ELSE Both(f[k - 1], ToSet(lists[k]))]
  <2>1. \A k \in 0 .. n : k = 0 \/ k \in 1 .. n
    BY <1>1
  <2>2. \A k \in 0 .. n : f[k] = IF k = 0 THEN base ELSE Both(f[k - 1], ToSet(lists[k]))
    BY <1>11, <2>1
  <2> QED BY <1>11, <2>2
<1>13. f = Body(f)
  BY <1>4, <1>12
<1>14. partial = Body(partial)
  BY <1>13
<1> HIDE DEF partial
<1>15. partial = [k \in 0 .. n |-> IF k = 0 THEN base ELSE Both(partial[k - 1], ToSet(lists[k]))]
  BY <1>4, <1>14
<1> DEFINE Upto(k) == FlattenSeq(SubSeq(choice, 1, k))
           T == {k \in 0 .. n : Upto(k) \in partial[k]}
<1>16. 0 \in T
  <2>1. 0 \in 0 .. n
    BY <1>1
  <2>2. partial[0] = {<<>>}
    BY <1>15, <2>1 DEF base
  <2>3. SubSeq(choice, 1, 0) = <<>>
    BY SubSeqEmpty
  <2>4. FlattenSeq(<<>>) = <<>>
    <3>1. <<>> \in Seq(Seq(Characters))
      BY EmptySeq
    <3> QED BY <3>1, FlattenType
  <2> QED BY <2>1, <2>2, <2>3, <2>4
<1>17. ASSUME NEW k \in 1 .. n, k - 1 \in T PROVE k \in T
  <2>1. Upto(k - 1) \in partial[k - 1]
    BY <1>17
  <2>2. k \in 1 .. Len(choice)
    BY DEF n
  <2>3. Upto(k) = Upto(k - 1) \o choice[k] /\ IsPrefix(Upto(k), FlattenSeq(choice))
    BY <2>2, FlattenUpto
  <2>4. choice[k] \in ToSet(lists[k])
    BY DEF n
  <2> HIDE DEF Upto, T
  <2>5. Fits(Upto(k))
    BY <2>3
  <2> HIDE DEF Fits
  <2>6. Upto(k) \in Both(partial[k - 1], ToSet(lists[k]))
    BY <1>7, <2>1, <2>3, <2>4, <2>5
  <2>7. partial[k] = Both(partial[k - 1], ToSet(lists[k])) /\ k \in 0 .. n
    BY <1>10, <1>15
  <2> QED BY <2>6, <2>7 DEF T
<1> HIDE DEF T
<1>18. \A k \in 0 .. n : k \in T
  BY <1>1, <1>16, <1>17, InductionUpTo
<1>19. n \in 0 .. n
  BY <1>1
<1>20. Upto(n) \in partial[n]
  BY <1>18, <1>19 DEF T
<1>21. SubSeq(choice, 1, n) = choice
  BY SubSeqFull DEF n
<1> QED BY <1>3, <1>20, <1>21

-----------------------------------------------------------------------------
(* The inductive invariant.                                                  *)

AllItems == UNION {ToSet(study[1]) : study \in Studies}
AllModes == UNION {ToSet(study[2]) : study \in Studies}

Answers ==
  [sent : Seq(Text), neural : Nat, selected : Text, late : BOOLEAN, lead : Leads, runner : Leads]

\* Where the call is for the whole reading there is no place.
Traces == [segment : Nat \cup {Nobody}, before : Text, after : Text, answer : Answers]

RowsInProgress ==
  [item : AllItems, mode : AllModes, segments : Seq(Segments), tops : Seq(Text), left : Nat, traces : Seq(Traces)]

FinishedRows ==
  [item : AllItems, mode : AllModes, traces : Seq(Traces), raw : Text, ai : Text,
   raw_correct : BOOLEAN, ai_correct : BOOLEAN]

AllLate(traces) == \A k \in 1 .. Len(traces) : traces[k].answer.late

\* The call of a trace was told that what follows is what is chosen now behind a
\* place that has been ranked.
IsFollowed(t, tops, left, after) ==
  \E j \in left + 1 .. Len(tops) : t.after = FlattenSeq(From(tops, j + 1)) \o after

\* Only candidates that the report takes are chosen, if the options send no others.
TopsAreListed(x) ==
  ~options.dedup /\ ~options.reps =>
    \A i \in 1 .. Len(x.tops) : x.tops[i] \in ToSet(ListOf(x.segments[i]))

\* A row with one call per segment.
SegmentwiseRow(x) ==
  /\ Len(x.tops) = Len(x.segments)
  /\ x.segments = Prepared(x.item.reading, x.item.segments)
  /\ TopsAreListed(x)

\* A row with one call for the whole reading.
JointRow(x) ==
  /\ Len(x.tops) > 0
  /\ x.left > 0 => x.tops = Tops(x.segments)
  /\ x.left = 0 => Len(x.traces) = 1 /\ x.traces[1].answer.sent[1] = FlattenSeq(Tops(x.segments))

RowInv(x) ==
  /\ x \in RowsInProgress
  /\ Keys(x.segments) = x.item.reading
  /\ x.left \in 0 .. Len(x.tops)
  /\ \A k \in 1 .. Len(x.traces) :
       IsFollowed(x.traces[k], x.tops, x.left, ContextForMode(x.item, x.mode).after)
  /\ AllLate(x.traces) => x.tops = Tops(x.segments)
  /\ IF IsJoint(x.item) THEN JointRow(x) ELSE SegmentwiseRow(x)

FinishedInv(r) ==
  /\ r \in FinishedRows
  /\ r.raw_correct <=> r.raw \in r.item.acceptable
  /\ r.ai_correct <=> r.ai \in r.item.acceptable
  /\ \A k \in 1 .. Len(r.traces) : IsSuffix(r.traces[k].after, r.ai \o ContextForMode(r.item, r.mode).after)
  /\ AllLate(r.traces) => r.ai = r.raw
  /\ IF IsJoint(r.item) THEN r.traces[1].answer.sent[1] = r.raw
     ELSE ~options.dedup /\ ~options.reps /\ r.ai_correct =>
            CanCompose(Augmented(r.item), r.item.acceptable, 0)

\* A row in progress has answered from the right up to the place `left`; what is told
\* of a finished row was true of its calls when they were made.
StudyInv ==
  /\ options \in Options
  /\ todo \in Seq(AllItems \X AllModes)
  /\ row # Nobody => RowInv(row)
  /\ rows \in Seq(FinishedRows)
  /\ \A i \in 1 .. Len(rows) : FinishedInv(rows[i])
  /\ WithinReach

LEMMA OptionsFacts ==
  ASSUME options \in Options
  PROVE  IsOptions
BY StudyAssumption DEF IsOptions

LEMMA ItemFacts ==
  ASSUME NEW item \in AllItems
  PROVE  /\ item.reading \in Text /\ item.prefix \in Text /\ item.suffix \in Text
         /\ item.expected \in item.acceptable
         /\ item.segments \in Seq(Segments)
         /\ Keys(item.segments) = item.reading
<1>1. PICK study \in Studies : item \in ToSet(study[1])
  BY DEF AllItems
<1>2. IsItem(item)
  BY <1>1, StudyAssumption
<1>3. item.segments \in Seq(ToSet(item.segments)) /\ \A s \in ToSet(item.segments) : s \in Segments
  BY <1>2 DEF IsItem, Segments
<1>4. item.segments \in Seq(Segments)
  <2> DEFINE S == ToSet(item.segments)
             ss == item.segments
  <2>1. ss \in Seq(S) /\ S \subseteq Segments
    BY <1>3
  <2> HIDE DEF S, ss
  <2>2. ss \in Seq(Segments)
    BY <2>1
  <2> QED BY <2>2 DEF ss
<1> QED BY <1>2, <1>4 DEF IsItem

LEMMA ContextFacts ==
  ASSUME NEW item \in AllItems, NEW mode
  PROVE  /\ ContextForMode(item, mode).before \in Text
         /\ ContextForMode(item, mode).after \in Text
<1> DEFINE short == From(item.prefix, IF Len(item.prefix) > 2 THEN Len(item.prefix) - 1 ELSE 1)
           said == Sentence \o item.prefix
           none == <<>>
<1>1. item.prefix \in Text /\ item.suffix \in Text /\ none \in Text
  BY ItemFacts, EmptySeq DEF Text
<1>2. short \in Text
  <2>1. Len(item.prefix) \in Nat
    BY <1>1, LenProperties DEF Text
  <2>2. PICK k \in Nat : k + 1 = IF Len(item.prefix) > 2 THEN Len(item.prefix) - 1 ELSE 1
    <3>1. CASE Len(item.prefix) > 2
      <4>1. Len(item.prefix) - 2 \in Nat /\ (Len(item.prefix) - 2) + 1 = Len(item.prefix) - 1
        BY <2>1, <3>1
      <4> QED BY <3>1, <4>1
    <3>2. CASE ~(Len(item.prefix) > 2)
      <4>1. 0 \in Nat /\ 0 + 1 = 1
        OBVIOUS
      <4> QED BY <3>2, <4>1
    <3> QED BY <3>1, <3>2
  <2>3. From(item.prefix, k + 1) \in Text
    BY <1>1, <2>2, PartTypes DEF Text
  <2> QED BY <2>2, <2>3
<1>3. said \in Text
  BY <1>1, StudyAssumption, ConcatProperties DEF Text
<1> HIDE DEF short, said, none, Text
<1>4. ContextForMode(item, mode).before \in {item.prefix, short, said, none}
  <2>1. CASE mode \in {"both", "prefix_only"}
    BY <2>1 DEF ContextForMode
  <2>2. CASE mode = "short_prefix"
    BY <2>2 DEF ContextForMode, short
  <2>3. CASE mode = "previous_sentence"
    BY <2>3 DEF ContextForMode, said
  <2>4. CASE mode \notin {"both", "prefix_only", "short_prefix", "previous_sentence"}
    BY <2>4 DEF ContextForMode, none
  <2> QED BY <2>1, <2>2, <2>3, <2>4
<1>5. ContextForMode(item, mode).after \in {item.suffix, none}
  BY DEF ContextForMode, none
<1> QED BY <1>1, <1>2, <1>3, <1>4, <1>5

\* An answer is about what was sent, and shows one of it.
LEMMA AnswerFacts ==
  ASSUME NEW s, NEW t, BeginsWith(s, t), NEW a \in Answer(s)
  PROVE  a \in Answers /\ a.sent = s /\ a.selected \in ToSet(s)
<1>1. s \in Seq(Text) /\ Len(s) \in Nat /\ Len(s) # 0 /\ s # <<>>
  BY EmptySeq, LenProperties DEF BeginsWith
<1>2. DOMAIN s = 1 .. Len(s) /\ \A i \in 1 .. Len(s) : s[i] \in Text
  BY <1>1, LenProperties, ElementOfSeq
<1>3. \A i \in 1 .. Len(s) : s[i] \in ToSet(s) /\ s[i] \in Text
  BY <1>2 DEF ToSet
<1>4. PICK n \in 1 .. Len(s) : \E kept \in BOOLEAN, late \in BOOLEAN, lead \in Leads, runner \in Leads :
        a = [sent |-> s, neural |-> n, selected |-> s[IF kept THEN 1 ELSE n], late |-> late, lead |-> lead, runner |-> runner]
  BY DEF Answer
<1>5. PICK kept \in BOOLEAN, late \in BOOLEAN, lead \in Leads, runner \in Leads :
        a = [sent |-> s, neural |-> n, selected |-> s[IF kept THEN 1 ELSE n], late |-> late, lead |-> lead, runner |-> runner]
  BY <1>4
<1>6. PICK m \in 1 .. Len(s) : m = IF kept THEN 1 ELSE n
  BY <1>1
<1>7. a = [sent |-> s, neural |-> n, selected |-> s[m], late |-> late, lead |-> lead, runner |-> runner]
  BY <1>5, <1>6
<1>8. s[m] \in ToSet(s) /\ s[m] \in Text /\ n \in Nat
  BY <1>1, <1>3
<1> HIDE DEF Text
<1> QED BY <1>1, <1>5, <1>7, <1>8 DEF Answers

\* A choice among the lists of the report is found there.
LEMMA AugmentedReachable ==
  ASSUME IsOptions, NEW segments \in Seq(Segments), NEW acceptable, NEW choice \in Seq(Text),
         Len(choice) = Len(segments), \A i \in 1 .. Len(segments) : choice[i] \in ToSet(ListOf(segments[i])),
         FlattenSeq(choice) \in acceptable
  PROVE  CanCompose(AugmentedLists(segments), acceptable, 0)
<1> DEFINE n == Len(segments)
           Lists == Seq(Text)
           lists == [i \in 1 .. n |-> ListOf(segments[i])]
<1>1. AugmentedLists(segments) = lists
  BY DEF AugmentedLists, ListOf
<1>2. n \in Nat /\ \A i \in 1 .. n : segments[i] \in Segments
  BY LenProperties, ElementOfSeq
<1>3. ASSUME NEW s \in Segments PROVE ListOf(s) \in Lists
  <2>1. s.key \in Text /\ s.candidates \in Seq(Text) /\ options.limit \in Nat
    BY DEF Segments, IsOptions
  <2>2. FirstOf(s.candidates, options.limit) \in Seq(Text)
    <3> HIDE DEF Text
    <3> QED BY <2>1, PartTypes
  <2>3. PICK c \in Seq(Text) : c = IF options.limit = 0 THEN s.candidates ELSE FirstOf(s.candidates, options.limit)
    BY <2>1, <2>2
  <2>4. ListOf(s) = Merged(s.key, c)
    BY <2>3 DEF ListOf
  <2>5. Merged(s.key, c) \in Seq(Text)
    BY <2>1, MergedFacts
  <2> QED BY <2>4, <2>5
<1> HIDE DEF Lists, n
<1>4. lists \in Seq(Lists) /\ Len(lists) = n /\ \A i \in 1 .. n : lists[i] = ListOf(segments[i])
  BY <1>2, <1>3
<1> HIDE DEF lists
<1>5. lists \in Seq(Seq(Text))
  BY <1>4 DEF Lists
<1>6. Len(choice) = Len(lists) /\ \A i \in 1 .. Len(lists) : choice[i] \in ToSet(lists[i])
  BY <1>4 DEF n
<1>7. CanCompose(lists, acceptable, 0)
  BY <1>5, <1>6, CanComposeFacts
<1> QED BY <1>1, <1>7

\* Without changed options a row is judged as before.
LEMMA SameOptions ==
  ASSUME options' = options
  PROVE  /\ \A x : RowInv(x)' <=> RowInv(x)
         /\ \A r : FinishedInv(r)' <=> FinishedInv(r)
<1>1. \A item : IsJoint(item)' <=> IsJoint(item)
  BY DEF IsJoint
<1>2. \A s : ListOf(s)' = ListOf(s)
  BY DEF ListOf
<1>3. \A segments : AugmentedLists(segments)' = AugmentedLists(segments)
  <2> SUFFICES ASSUME NEW segments PROVE AugmentedLists(segments)' = AugmentedLists(segments)
    OBVIOUS
  <2>1. AugmentedLists(segments) = [i \in 1 .. Len(segments) |-> ListOf(segments[i])]
    BY DEF AugmentedLists, ListOf
  <2>2. AugmentedLists(segments)' = [i \in 1 .. Len(segments) |-> ListOf(segments[i])']
    BY DEF AugmentedLists, ListOf
  <2> QED BY <1>2, <2>1, <2>2
<1>4. \A item : Augmented(item)' = Augmented(item)
  BY <1>3 DEF Augmented
<1>5. \A x : TopsAreListed(x)' <=> TopsAreListed(x)
  BY <1>2 DEF TopsAreListed
<1>6. \A x : SegmentwiseRow(x)' <=> SegmentwiseRow(x)
  BY <1>5 DEF SegmentwiseRow
<1>7. \A x : JointRow(x)' <=> JointRow(x)
  BY DEF JointRow
<1>8. \A x : RowInv(x)' <=> RowInv(x)
  BY <1>1, <1>6, <1>7 DEF RowInv
<1>9. \A r : FinishedInv(r)' <=> FinishedInv(r)
  BY <1>1, <1>4 DEF FinishedInv
<1> QED BY <1>8, <1>9

LEMMA StudyInitInv ==
  ASSUME StudyInit
  PROVE  StudyInv
<1> DEFINE Pairs == AllItems \X AllModes
<1>1. PICK study \in Studies :
        todo = FlattenSeq([i \in 1 .. Len(study[1]) |-> [m \in 1 .. Len(study[2]) |-> <<study[1][i], study[2][m]>>]])
  BY DEF StudyInit
<1> DEFINE items == study[1]
           modes == study[2]
           A == Seq(Pairs)
           line(i) == [m \in 1 .. Len(modes) |-> <<items[i], modes[m]>>]
           table == [i \in 1 .. Len(items) |-> line(i)]
<1>2. /\ items \in Seq(ToSet(items)) /\ modes \in Seq(ToSet(modes))
      /\ ToSet(items) \subseteq AllItems /\ ToSet(modes) \subseteq AllModes
  BY StudyAssumption DEF AllItems, AllModes
<1>3. todo = FlattenSeq(table)
  BY <1>1
<1> HIDE DEF items, modes
<1>4. items \in Seq(AllItems) /\ modes \in Seq(AllModes)
  <2> DEFINE I == ToSet(items)
             M == ToSet(modes)
  <2>1. items \in Seq(I) /\ modes \in Seq(M) /\ I \subseteq AllItems /\ M \subseteq AllModes
    BY <1>2
  <2> HIDE DEF I, M
  <2> QED BY <2>1
<1>5. /\ Len(items) \in Nat /\ \A i \in 1 .. Len(items) : items[i] \in AllItems
      /\ Len(modes) \in Nat /\ \A m \in 1 .. Len(modes) : modes[m] \in AllModes
  BY <1>4, LenProperties, ElementOfSeq
<1>6. \A i \in 1 .. Len(items) : line(i) \in A
  BY <1>5
<1> HIDE DEF line, A
<1>7. table \in Seq(A)
  BY <1>5, <1>6
<1>8. FlattenSeq(table) \in A
  <2> HIDE DEF table, Pairs
  <2>1. table \in Seq(Seq(Pairs))
    BY <1>7 DEF A
  <2>2. FlattenSeq(table) \in Seq(Pairs)
    BY <2>1, FlattenType
  <2> QED BY <2>2 DEF A
<1>9. rows = <<>> /\ rows \in Seq(FinishedRows) /\ Len(rows) = 0
  BY EmptySeq DEF StudyInit
<1>10. \A i \in 1 .. Len(rows) : FinishedInv(rows[i])
  BY <1>9
<1>11. WithinReach /\ row = Nobody /\ options \in Options
  BY DEF StudyInit, WithinReach
<1>12. todo \in Seq(AllItems \X AllModes)
  BY <1>3, <1>8 DEF A
<1> QED BY <1>9, <1>10, <1>11, <1>12 DEF StudyInv

\* A row that begins shows Mozc's first candidates.
LEMMA RowBegins ==
  ASSUME options \in Options, NEW item \in AllItems, NEW mode \in AllModes, NEW segments, NEW l, NEW x,
         segments = IF IsJoint(item) THEN item.segments ELSE Prepared(item.reading, item.segments),
         l \in {0, Len(segments)} \/ (IsJoint(item) /\ l = 1), IsJoint(item) => l = 1,
         x = [item |-> item, mode |-> mode, segments |-> segments, tops |-> Tops(segments),
              left |-> l, traces |-> <<>>]
  PROVE  RowInv(x)
<1>1. IsOptions
  BY OptionsFacts
<1>2. item.segments \in Seq(Segments) /\ Keys(item.segments) = item.reading
  BY ItemFacts
<1>3. segments \in Seq(Segments) /\ Keys(segments) = item.reading
  BY <1>2, PreparedFacts
<1>4. /\ Len(segments) \in Nat /\ \A i \in 1 .. Len(segments) : segments[i] \in Segments
      /\ Tops(segments) \in Seq(Text) /\ Len(Tops(segments)) = Len(segments)
      /\ \A i \in 1 .. Len(segments) : Tops(segments)[i] = segments[i].candidates[1]
  BY <1>3, SegmentFacts, LenProperties, ElementOfSeq
<1>5. IsJoint(item) => Len(segments) > 1
  BY DEF IsJoint
<1>6. l \in 0 .. Len(segments) /\ l \in Nat
  BY <1>4, <1>5
<1>7. Len(x.traces) = 0 /\ x.traces \in Seq(Traces)
  BY EmptySeq
<1>8. ASSUME ~options.dedup, ~options.reps, NEW i \in 1 .. Len(segments)
      PROVE  segments[i].candidates[1] \in ToSet(ListOf(segments[i]))
  <2>1. BeginsWith(ListOf(segments[i]), segments[i].candidates[1])
    BY <1>1, <1>4, <1>8, SentFacts
  <2> DEFINE u == ListOf(segments[i])
             c == segments[i].candidates[1]
  <2>2. u \in Seq(Text) /\ u # <<>> /\ u[1] = c
    BY <2>1 DEF BeginsWith
  <2> HIDE DEF u, c
  <2>3. DOMAIN u = 1 .. Len(u) /\ Len(u) \in Nat /\ Len(u) # 0
    BY <2>2, EmptySeq, LenProperties
  <2>4. c \in ToSet(u)
    BY <2>2, <2>3 DEF ToSet
  <2> QED BY <2>4 DEF u, c
<1> HIDE DEF Segments, Text
<1>9. x \in RowsInProgress
  BY <1>3, <1>4, <1>6, <1>7 DEF RowsInProgress
<1>10. /\ x.item = item /\ x.mode = mode /\ x.segments = segments /\ x.tops = Tops(segments) /\ x.left = l
  OBVIOUS
<1>11. TopsAreListed(x)
  BY <1>4, <1>8, <1>10 DEF TopsAreListed
<1>12. ~IsJoint(item) => SegmentwiseRow(x)
  BY <1>4, <1>10, <1>11 DEF SegmentwiseRow
<1>13. IsJoint(item) => JointRow(x)
  BY <1>4, <1>5, <1>10 DEF JointRow
<1>14. \A k \in 1 .. Len(x.traces) :
         IsFollowed(x.traces[k], x.tops, x.left, ContextForMode(x.item, x.mode).after)
  BY <1>7
<1> QED BY <1>3, <1>4, <1>6, <1>9, <1>10, <1>12, <1>13, <1>14 DEF RowInv

\* What a step leaves alone.
LEMMA OthersKept ==
  ASSUME StudyInv, options' = options
  PROVE  /\ options' \in Options
         /\ UNCHANGED todo => todo' \in Seq(AllItems \X AllModes)
         /\ (row' # Nobody => RowInv(row')) => (row # Nobody => RowInv(row))'
         /\ UNCHANGED rows => (rows \in Seq(FinishedRows))' /\ (\A i \in 1 .. Len(rows) : FinishedInv(rows[i]))'
         /\ UNCHANGED report => WithinReach'
<1>1. \A x : RowInv(x)' <=> RowInv(x)
  BY SameOptions
<1>2. (row' # Nobody => RowInv(row')) => (row # Nobody => RowInv(row))'
  BY <1>1
<1>3. \A r : FinishedInv(r)' <=> FinishedInv(r)
  BY SameOptions
<1>4. UNCHANGED rows => (\A i \in 1 .. Len(rows) : FinishedInv(rows[i]))'
  BY <1>3 DEF StudyInv
<1>5. UNCHANGED report => WithinReach'
  BY DEF WithinReach, StudyInv
<1> QED BY <1>2, <1>4, <1>5 DEF StudyInv

\* What stands behind a place does not change with what stands up to there.
LEMMA SameBehind ==
  ASSUME NEW S, NEW s \in Seq(S), NEW u \in Seq(S), Len(u) = Len(s), NEW j \in 1 .. Len(s),
         \A i \in j + 1 .. Len(s) : u[i] = s[i]
  PROVE  From(u, j + 1) = From(s, j + 1)
<1>1. Len(s) \in Nat /\ j \in Nat /\ j <= Len(s)
  BY LenProperties
<1>2. From(u, j + 1) \in Seq(S) /\ From(s, j + 1) \in Seq(S)
  BY <1>1, PartTypes
<1>3. CASE j = Len(s)
  <2>1. From(u, j + 1) = <<>> /\ From(s, j + 1) = <<>>
    BY <1>1, <1>3, SubSeqEmpty DEF From
  <2> QED BY <2>1
<1>4. CASE j # Len(s)
  <2> DEFINE m == j + 1
             n == Len(s)
  <2>1. m \in 1 .. n /\ n \in 1 .. n /\ m - 1 \in Nat /\ n \in Nat
    BY <1>1, <1>4
  <2>2. \A i \in m .. n : u[i] = s[i]
    OBVIOUS
  <2>3. From(u, m) = SubSeq(u, m, n) /\ From(s, m) = SubSeq(s, m, n)
    BY DEF From
  <2> HIDE DEF m
  <2>4. /\ Len(SubSeq(u, m, n)) = n - m + 1 /\ \A i \in 1 .. n - m + 1 : SubSeq(u, m, n)[i] = u[m + i - 1]
        /\ Len(SubSeq(s, m, n)) = n - m + 1 /\ \A i \in 1 .. n - m + 1 : SubSeq(s, m, n)[i] = s[m + i - 1]
    BY <2>1, SubSeqProperties
  <2>5. SubSeq(u, m, n) \in Seq(S) /\ SubSeq(s, m, n) \in Seq(S)
    BY <1>2, <2>3 DEF m
  <2>6. \A i \in 1 .. n - m + 1 : m + i - 1 \in m .. n
    BY <2>1
  <2> DEFINE p == SubSeq(u, m, n)
             q == SubSeq(s, m, n)
             d == n - m + 1
  <2>7. \A i \in 1 .. d : p[i] = q[i]
    BY <2>2, <2>4, <2>6
  <2>8. p \in Seq(S) /\ q \in Seq(S) /\ Len(p) = d /\ Len(q) = d
    BY <2>4, <2>5
  <2> HIDE DEF p, q, d
  <2>9. p = q
    BY <2>7, <2>8, SeqEqual
  <2> QED BY <2>3, <2>9 DEF m, p, q
<1> QED BY <1>3, <1>4

\* A call for a segment keeps what is known of the row.
LEMMA SegmentRanked ==
  ASSUME options \in Options, NEW x, RowInv(x), x.left > 0, ~IsJoint(x.item),
         NEW a \in Answer(Sent(x.segments[x.left])), NEW b \in Text, NEW t, NEW y,
         t = [segment |-> x.left, before |-> b,
              after |-> FlattenSeq(From(x.tops, x.left + 1)) \o ContextForMode(x.item, x.mode).after, answer |-> a],
         y = [x EXCEPT !.left = @ - 1, !.tops[x.left] = IF a.late THEN @ ELSE a.selected,
                       !.traces = Append(@, t)]
  PROVE  RowInv(y)
<1> DEFINE l == x.left
           tops == x.tops
           n == Len(tops)
           segments == x.segments
           traces == x.traces
           after == ContextForMode(x.item, x.mode).after
           tops2 == [tops EXCEPT ![l] = IF a.late THEN tops[l] ELSE a.selected]
           seg == segments[l]
<1>1. /\ x.item \in AllItems /\ x.mode \in AllModes /\ segments \in Seq(Segments) /\ tops \in Seq(Text)
      /\ l \in Nat /\ traces \in Seq(Traces)
      /\ x = [item |-> x.item, mode |-> x.mode, segments |-> segments, tops |-> tops, left |-> l, traces |-> traces]
  BY DEF RowInv, RowsInProgress
<1>2. /\ Keys(segments) = x.item.reading /\ l \in 0 .. n
      /\ \A k \in 1 .. Len(traces) : IsFollowed(traces[k], tops, l, after)
      /\ AllLate(traces) => tops = Tops(segments)
      /\ SegmentwiseRow(x)
  BY DEF RowInv
<1>3. n \in Nat /\ l \in 1 .. n /\ l \in 1 .. Len(segments) /\ n = Len(segments)
  BY <1>1, <1>2, LenProperties DEF SegmentwiseRow
<1>4. seg \in Segments /\ IsOptions
  BY <1>1, <1>3, ElementOfSeq, OptionsFacts
<1>5. BeginsWith(Sent(seg), seg.candidates[1]) /\ (~options.dedup /\ ~options.reps => Sent(seg) = ListOf(seg))
  BY <1>4, SentFacts
<1>6. a \in Answers /\ a.selected \in ToSet(Sent(seg))
  BY <1>5, AnswerFacts
<1>7. a.selected \in Text /\ a.late \in BOOLEAN
  BY <1>6 DEF Answers
<1>8. y = [item |-> x.item, mode |-> x.mode, segments |-> segments, tops |-> tops2, left |-> l - 1,
           traces |-> Append(traces, t)]
  BY <1>1
<1> HIDE DEF l, tops, n, segments, traces, after, seg, Text
<1>9. /\ tops2 \in Seq(Text) /\ Len(tops2) = n
      /\ \A i \in 1 .. n : i # l => tops2[i] = tops[i]
      /\ a.late => tops2 = tops
      /\ ~a.late => tops2[l] = a.selected
  <2>1. DOMAIN tops = 1 .. n /\ \A i \in 1 .. n : tops[i] \in Text
    BY <1>1, LenProperties, ElementOfSeq DEF n
  <2>2. tops2 \in [1 .. n -> Text]
    BY <1>1, <1>3, <1>7, <2>1 DEF n
  <2>3. tops2 \in Seq(Text) /\ Len(tops2) = n
    <3> HIDE DEF tops2
    <3> QED BY <1>3, <2>2
  <2>4. a.late => tops2 = tops
    BY <1>1, <1>3, <2>1
  <2> QED BY <1>3, <2>1, <2>3, <2>4
<1> HIDE DEF tops2
<1>10. \A j \in l .. n : From(tops2, j + 1) = From(tops, j + 1)
  <2> SUFFICES ASSUME NEW j \in l .. n PROVE From(tops2, j + 1) = From(tops, j + 1)
    OBVIOUS
  <2>1. j \in 1 .. Len(tops) /\ Len(tops2) = Len(tops)
    BY <1>3, <1>9 DEF n
  <2>2. \A i \in j + 1 .. Len(tops) : tops2[i] = tops[i]
    BY <1>3, <1>9 DEF n
  <2> QED BY <1>1, <1>9, <2>1, <2>2, SameBehind
<1>11. after \in Text
  BY <1>1, ContextFacts DEF after
<1>12. FlattenSeq(From(tops, l + 1)) \o after \in Text
  <2>1. From(tops, l + 1) \in Seq(Text)
    BY <1>1, PartTypes
  <2>2. FlattenSeq(From(tops, l + 1)) \in Text
    BY <2>1, FlattenType DEF Text
  <2> QED BY <1>11, <2>2, ConcatProperties DEF Text
<1> DEFINE follows == FlattenSeq(From(tops, l + 1)) \o after
<1>13. t = [segment |-> l, before |-> b, after |-> follows, answer |-> a] /\ follows \in Text
  BY <1>12 DEF l, tops, after
<1> HIDE DEF follows
<1>14. t \in Traces /\ t.answer = a /\ t.after = FlattenSeq(From(tops, l + 1)) \o after
  <2>1. t \in Traces
    <3>1. l \in Nat \cup {Nobody} /\ b \in Text /\ a \in Answers
      BY <1>1, <1>6
    <3> QED BY ONLY <1>13, <3>1 DEF Traces
  <2>2. t.answer = a /\ t.after = follows
    BY ONLY <1>13
  <2> QED BY <2>1, <2>2 DEF follows
<1> DEFINE more == Append(traces, t)
<1>15. /\ more \in Seq(Traces) /\ Len(more) = Len(traces) + 1 /\ Len(traces) \in Nat
       /\ \A k \in 1 .. Len(traces) : more[k] = traces[k]
       /\ more[Len(traces) + 1] = t
  BY <1>1, <1>14, AppendProperties, LenProperties
<1> HIDE DEF more
<1>25. y = [item |-> x.item, mode |-> x.mode, segments |-> segments, tops |-> tops2, left |-> l - 1, traces |-> more]
  BY ONLY <1>8 DEF more
<1>16. ASSUME NEW k \in 1 .. Len(more) PROVE IsFollowed(more[k], tops2, l - 1, after)
  <2>1. CASE k = Len(traces) + 1
    <3>1. l \in (l - 1) + 1 .. Len(tops2) /\ l \in l .. n
      BY <1>3, <1>9
    <3>2. more[k].after = FlattenSeq(From(tops2, l + 1)) \o after
      BY <1>10, <1>14, <1>15, <2>1, <3>1
    <3> QED BY <3>1, <3>2 DEF IsFollowed
  <2>2. CASE k \in 1 .. Len(traces)
    <3>1. more[k] = traces[k] /\ IsFollowed(traces[k], tops, l, after)
      BY <1>2, <1>15, <2>2
    <3>2. PICK j \in l + 1 .. Len(tops) : traces[k].after = FlattenSeq(From(tops, j + 1)) \o after
      BY <3>1 DEF IsFollowed
    <3>3. j \in (l - 1) + 1 .. Len(tops2) /\ j \in l .. n
      BY <1>3, <1>9, <3>2 DEF n
    <3>4. more[k].after = FlattenSeq(From(tops2, j + 1)) \o after
      BY <1>10, <3>1, <3>2, <3>3
    <3> QED BY <3>3, <3>4 DEF IsFollowed
  <2> QED BY <1>15, <2>1, <2>2
<1>17. AllLate(more) => tops2 = Tops(segments)
  <2> SUFFICES ASSUME AllLate(more) PROVE tops2 = Tops(segments)
    OBVIOUS
  <2>1. a.late
    BY <1>14, <1>15 DEF AllLate
  <2>2. AllLate(traces)
    BY <1>15 DEF AllLate
  <2> QED BY <1>2, <1>9, <2>1, <2>2
<1>18. /\ y.item = x.item /\ y.mode = x.mode /\ y.segments = segments /\ y.tops = tops2 /\ y.left = l - 1
       /\ y.traces = more
  BY ONLY <1>25
<1>19. y \in RowsInProgress
  <2>1. l - 1 \in Nat
    BY <1>3
  <2> QED BY <1>1, <1>9, <1>15, <1>25, <2>1 DEF RowsInProgress
<1>20. TopsAreListed(y)
  <2> SUFFICES ASSUME ~options.dedup, ~options.reps, NEW i \in 1 .. Len(tops2)
               PROVE  tops2[i] \in ToSet(ListOf(segments[i]))
    BY <1>18 DEF TopsAreListed
  <2>1. tops[i] \in ToSet(ListOf(segments[i]))
    BY <1>2, <1>9 DEF SegmentwiseRow, TopsAreListed, tops, n, segments
  <2>2. CASE i = l /\ ~a.late
    <3>1. tops2[i] = a.selected /\ a.selected \in ToSet(ListOf(seg))
      BY <1>5, <1>6, <1>9, <2>2
    <3> QED BY <2>2, <3>1 DEF seg
  <2>3. CASE i # l \/ a.late
    BY <1>9, <2>1, <2>3
  <2> QED BY <2>2, <2>3
<1>21. SegmentwiseRow(y)
  BY <1>2, <1>3, <1>9, <1>18, <1>20 DEF SegmentwiseRow, segments
<1>22. y.left \in 0 .. Len(y.tops)
  BY <1>3, <1>9, <1>18
<1>23. \A k \in 1 .. Len(y.traces) : IsFollowed(y.traces[k], y.tops, y.left, ContextForMode(y.item, y.mode).after)
  BY <1>16, <1>18 DEF after
<1>24. Keys(y.segments) = y.item.reading /\ (AllLate(y.traces) => y.tops = Tops(y.segments)) /\ ~IsJoint(y.item)
  BY <1>2, <1>17, <1>18
<1> QED BY <1>19, <1>21, <1>22, <1>23, <1>24 DEF RowInv

\* The call for a whole reading keeps what is known of the row.
LEMMA JointRanked ==
  ASSUME options \in Options, NEW x, RowInv(x), x.left > 0, IsJoint(x.item),
         NEW a \in Answer(JointSent(x.segments)), NEW b \in Text, NEW t, NEW y,
         t = [segment |-> Nobody, before |-> b, after |-> ContextForMode(x.item, x.mode).after, answer |-> a],
         y = [x EXCEPT !.left = 0, !.tops = IF a.late THEN @ ELSE <<a.selected>>, !.traces = <<t>>]
  PROVE  RowInv(y)
<1> DEFINE tops == x.tops
           segments == x.segments
           after == ContextForMode(x.item, x.mode).after
           tops2 == IF a.late THEN tops ELSE <<a.selected>>
           more == <<t>>
<1>1. /\ x.item \in AllItems /\ x.mode \in AllModes /\ segments \in Seq(Segments) /\ tops \in Seq(Text)
      /\ x = [item |-> x.item, mode |-> x.mode, segments |-> segments, tops |-> tops,
              left |-> x.left, traces |-> x.traces]
  BY DEF RowInv, RowsInProgress
<1>2. /\ Keys(segments) = x.item.reading
      /\ Len(tops) > 0 /\ tops = Tops(segments)
  BY DEF RowInv, JointRow
<1>3. y = [item |-> x.item, mode |-> x.mode, segments |-> segments, tops |-> tops2, left |-> 0, traces |-> more]
  BY <1>1
<1>4. IsOptions /\ options.joint > 0
  BY OptionsFacts DEF IsJoint
<1>5. BeginsWith(JointSent(segments), FlattenSeq(Tops(segments)))
  BY <1>1, <1>4, JointSentFacts
<1>6. a \in Answers /\ a.sent = JointSent(segments)
  BY <1>5, AnswerFacts
<1>7. a.selected \in Text /\ a.late \in BOOLEAN
  BY <1>6 DEF Answers
<1> HIDE DEF tops, segments, after, Text
<1>8. tops2 \in Seq(Text) /\ Len(tops2) \in Nat /\ Len(tops2) > 0
  <2>1. tops2 \in Seq(Text) /\ Len(tops2) > 0
    BY <1>1, <1>2, <1>7
  <2> HIDE DEF tops2
  <2> QED BY <2>1, LenProperties
<1>9. a.late => tops2 = tops
  BY DEF tops2
<1>10. after \in Text
  BY <1>1, ContextFacts DEF after
<1>11. t = [segment |-> Nobody, before |-> b, after |-> after, answer |-> a]
  BY DEF after
<1> HIDE DEF tops2
<1>12. t \in Traces /\ t.answer = a /\ t.after = after
  <2>1. b \in Text /\ Nobody \in Nat \cup {Nobody}
    OBVIOUS
  <2> QED BY ONLY <1>6, <1>10, <1>11, <2>1 DEF Traces
<1>13. more \in Seq(Traces) /\ Len(more) = 1 /\ more[1] = t
  BY <1>12
<1> HIDE DEF more
<1>14. IsFollowed(t, tops2, 0, after)
  <2> DEFINE j == Len(tops2)
  <2>1. j \in 0 + 1 .. Len(tops2)
    BY <1>8
  <2>2. From(tops2, j + 1) = <<>>
    <3>1. j + 1 \in Int /\ j \in Int /\ j < j + 1
      BY <1>8
    <3> QED BY <3>1, SubSeqEmpty DEF From
  <2>3. FlattenSeq(<<>>) = <<>>
    <3>1. <<>> \in Seq(Seq(Characters))
      BY EmptySeq
    <3> QED BY <3>1, FlattenType
  <2>4. <<>> \o after = after
    BY <1>10, ConcatEmptySeq DEF Text
  <2>5. t.after = FlattenSeq(From(tops2, j + 1)) \o after
    BY <1>12, <2>2, <2>3, <2>4
  <2> QED BY <2>1, <2>5 DEF IsFollowed
<1>15. /\ y.item = x.item /\ y.mode = x.mode /\ y.segments = segments /\ y.tops = tops2 /\ y.left = 0
       /\ y.traces = more
  BY ONLY <1>3
<1>16. y \in RowsInProgress
  <2>1. 0 \in Nat
    OBVIOUS
  <2> QED BY ONLY <1>1, <1>3, <1>8, <1>13, <2>1 DEF RowsInProgress
<1>17. \A k \in 1 .. Len(y.traces) : IsFollowed(y.traces[k], y.tops, y.left, ContextForMode(y.item, y.mode).after)
  <2> SUFFICES ASSUME NEW k \in 1 .. Len(more) PROVE IsFollowed(more[k], tops2, 0, after)
    BY <1>15 DEF after
  <2>1. k = 1
    BY <1>13
  <2> QED BY <1>13, <1>14, <2>1
<1>18. AllLate(y.traces) => y.tops = Tops(y.segments)
  <2>1. AllLate(more) => a.late
    BY <1>12, <1>13 DEF AllLate
  <2> QED BY <1>2, <1>9, <1>15, <2>1
<1>19. a.sent[1] = FlattenSeq(Tops(segments))
  BY <1>5, <1>6 DEF BeginsWith
<1>20. JointRow(y)
  <2>1. y.traces[1].answer.sent[1] = FlattenSeq(Tops(y.segments))
    BY <1>12, <1>13, <1>15, <1>19
  <2> QED BY <1>8, <1>13, <1>15, <2>1 DEF JointRow
<1>21. y.left \in 0 .. Len(y.tops)
  BY <1>8, <1>15
<1>22. Keys(y.segments) = y.item.reading /\ IsJoint(y.item)
  BY <1>2, <1>15
<1> QED BY <1>16, <1>17, <1>18, <1>20, <1>21, <1>22 DEF RowInv

\* What is known of a row in progress with no call left makes the finished row.
LEMMA RowFinishes ==
  ASSUME options \in Options, NEW x, RowInv(x), x.left = 0, NEW raw, NEW ai, NEW r,
         raw = FlattenSeq(Tops(x.segments)), ai = FlattenSeq(x.tops),
         r = [item |-> x.item, mode |-> x.mode, traces |-> x.traces, raw |-> raw, ai |-> ai,
              raw_correct |-> raw \in x.item.acceptable, ai_correct |-> ai \in x.item.acceptable]
  PROVE  FinishedInv(r)
<1> DEFINE tops == x.tops
           segments == x.segments
           after == ContextForMode(x.item, x.mode).after
<1>1. /\ x.item \in AllItems /\ x.mode \in AllModes /\ segments \in Seq(Segments) /\ tops \in Seq(Text)
      /\ x.traces \in Seq(Traces)
  BY DEF RowInv, RowsInProgress
<1>2. Tops(segments) \in Seq(Text)
  BY <1>1, SegmentFacts
<1>3. raw \in Text /\ ai \in Text
  BY <1>1, <1>2, FlattenType DEF Text
<1>4. /\ r.item = x.item /\ r.mode = x.mode /\ r.traces = x.traces /\ r.raw = raw /\ r.ai = ai
      /\ r.raw_correct = (raw \in x.item.acceptable) /\ r.ai_correct = (ai \in x.item.acceptable)
  OBVIOUS
<1>5. r \in FinishedRows
  <2> DEFINE p == raw \in x.item.acceptable
             q == ai \in x.item.acceptable
  <2>1. p \in BOOLEAN /\ q \in BOOLEAN
    OBVIOUS
  <2>2. r = [item |-> x.item, mode |-> x.mode, traces |-> x.traces, raw |-> raw, ai |-> ai,
             raw_correct |-> p, ai_correct |-> q]
    OBVIOUS
  <2> HIDE DEF p, q
  <2> QED BY ONLY <1>1, <1>3, <2>1, <2>2 DEF FinishedRows
<1>6. after \in Text
  BY <1>1, ContextFacts
<1>7. \A k \in 1 .. Len(x.traces) : IsFollowed(x.traces[k], tops, 0, after)
  BY DEF RowInv
<1> HIDE DEF after, tops, segments
<1>8. ASSUME NEW k \in 1 .. Len(x.traces) PROVE IsSuffix(x.traces[k].after, ai \o after)
  <2>1. PICK j \in 0 + 1 .. Len(tops) : x.traces[k].after = FlattenSeq(From(tops, j + 1)) \o after
    BY <1>7 DEF IsFollowed
  <2>2. j + 1 \in 1 .. Len(tops) + 1 /\ j \in Nat /\ (j + 1) - 1 = j
    BY <1>1, LenProperties
  <2> DEFINE i == j + 1
             u == SubSeq(tops, 1, i - 1)
             v == From(tops, i)
  <2> HIDE DEF i
  <2>3. i \in 1 .. Len(tops) + 1
    BY <2>2 DEF i
  <2> HIDE DEF Text
  <2>4. u \in Seq(Text) /\ v \in Seq(Text) /\ u \o v = tops
    BY <1>1, <2>3, SplitAt
  <2> HIDE DEF u, v
  <2>5. FlattenSeq(u \o v) = FlattenSeq(u) \o FlattenSeq(v)
    BY <2>4, FlattenConcat DEF Text
  <2>6. FlattenSeq(u) \in Text /\ FlattenSeq(v) \in Text
    BY <2>4, FlattenType DEF Text
  <2> DEFINE a == FlattenSeq(u)
             b == FlattenSeq(v)
  <2>7. ai = a \o b
    BY <2>4, <2>5 DEF tops
  <2>8. x.traces[k].after = b \o after
    BY <2>1 DEF v, i
  <2>9. a \in Seq(Characters) /\ b \in Seq(Characters) /\ after \in Seq(Characters)
    BY <1>6, <2>6 DEF Text
  <2> HIDE DEF a, b
  <2>10. MayRegroup(a, b, after)
    BY <2>9, ThreeBehind
  <2>11. (a \o b) \o after = a \o (b \o after)
    BY <2>10 DEF MayRegroup
  <2>12. b \o after \in Seq(Characters)
    BY <2>9, ConcatProperties
  <2>13. IsSuffix(b \o after, a \o (b \o after))
    BY <2>9, <2>12, SuffixOfConcat
  <2> QED BY <2>7, <2>8, <2>11, <2>13
<1>9. \A k \in 1 .. Len(r.traces) : IsSuffix(r.traces[k].after, r.ai \o ContextForMode(r.item, r.mode).after)
  BY <1>4, <1>8 DEF after
<1>10. AllLate(r.traces) => r.ai = r.raw
  BY <1>4 DEF RowInv
<1>11. IsJoint(x.item) => r.traces[1].answer.sent[1] = r.raw
  BY <1>4 DEF RowInv, JointRow
<1>12. ASSUME ~IsJoint(x.item), ~options.dedup, ~options.reps, ai \in x.item.acceptable
       PROVE  CanCompose(Augmented(x.item), x.item.acceptable, 0)
  <2>1. Len(tops) = Len(segments) /\ segments = Prepared(x.item.reading, x.item.segments) /\ TopsAreListed(x)
    BY <1>12 DEF RowInv, SegmentwiseRow, tops, segments
  <2>2. \A i \in 1 .. Len(segments) : tops[i] \in ToSet(ListOf(segments[i]))
    BY <1>12, <2>1 DEF TopsAreListed, tops, segments
  <2>3. FlattenSeq(tops) \in x.item.acceptable
    BY <1>12 DEF tops
  <2>4. CanCompose(AugmentedLists(segments), x.item.acceptable, 0)
    BY <1>1, <2>1, <2>2, <2>3, AugmentedReachable, OptionsFacts
  <2> QED BY <2>1, <2>4 DEF Augmented
<1> QED BY <1>4, <1>5, <1>9, <1>10, <1>11, <1>12 DEF FinishedInv

-----------------------------------------------------------------------------
(* The steps.                                                                *)

LEMMA BeginRowInv ==
  ASSUME StudyInv, BeginRow
  PROVE  StudyInv'
<1> DEFINE Pairs == AllItems \X AllModes
           item == Head(todo)[1]
           mode == Head(todo)[2]
           segments == IF IsJoint(item) THEN item.segments ELSE Prepared(item.reading, item.segments)
           c == ContextForMode(item, mode)
           called == c.before # <<>> \/ c.after # <<>> \/ Len(segments) > 1 \/ Len(item.reading) >= 6
           l == IF IsJoint(item) THEN 1 ELSE IF called THEN Len(segments) ELSE 0
<1>1. /\ row' = [item |-> item, mode |-> mode, segments |-> segments, tops |-> Tops(segments),
                 left |-> l, traces |-> <<>>]
      /\ todo' = Tail(todo) /\ todo # <<>>
      /\ UNCHANGED <<options, rows, report>>
  BY DEF BeginRow
<1>2. Head(todo) \in Pairs /\ Tail(todo) \in Seq(Pairs)
  <2>1. todo \in Seq(Pairs) /\ todo # <<>>
    BY <1>1 DEF StudyInv
  <2> HIDE DEF Pairs
  <2> QED BY <2>1, HeadTailProperties
<1>3. item \in AllItems /\ mode \in AllModes
  BY <1>2
<1>4. (l \in {0, Len(segments)} \/ (IsJoint(item) /\ l = 1)) /\ (IsJoint(item) => l = 1)
  OBVIOUS
<1>5. segments = IF IsJoint(item) THEN item.segments ELSE Prepared(item.reading, item.segments)
  OBVIOUS
<1>6. options \in Options
  BY DEF StudyInv
<1> HIDE DEF item, mode, segments, l, c, called
<1>7. RowInv(row')
  BY <1>1, <1>3, <1>4, <1>5, <1>6, RowBegins
<1>8. todo' \in Seq(AllItems \X AllModes)
  BY <1>1, <1>2
<1> QED BY <1>1, <1>7, <1>8, OthersKept DEF StudyInv

LEMMA BeforeType ==
  ASSUME StudyInv, row # Nobody, NEW i \in 1 .. Len(row.tops)
  PROVE  Before(i) \in Text
<1> DEFINE b == ContextForMode(row.item, row.mode).before
           tops == row.tops
           u == SubSeq(tops, 1, i - 1)
<1>1. row.item \in AllItems /\ tops \in Seq(Text)
  BY DEF StudyInv, RowInv, RowsInProgress
<1>2. b \in Text
  BY <1>1, ContextFacts
<1> HIDE DEF b, tops, Text
<1>3. i - 1 \in Nat /\ i - 1 <= Len(tops)
  BY <1>1, LenProperties DEF tops
<1>4. u \in Seq(Text)
  BY <1>1, <1>3, PartTypes
<1> HIDE DEF u
<1>5. FlattenSeq(u) \in Text
  BY <1>4, FlattenType DEF Text
<1>6. b \o FlattenSeq(u) \in Text
  BY <1>2, <1>5, ConcatProperties DEF Text
<1> QED BY <1>6 DEF Before, b, u, tops

LEMMA RankSegmentInv ==
  ASSUME StudyInv, RankSegment
  PROVE  StudyInv'
<1>1. /\ row # Nobody /\ row.left > 0 /\ ~IsJoint(row.item)
      /\ UNCHANGED <<options, todo, rows, report>>
  BY DEF RankSegment
<1>2. RowInv(row) /\ options \in Options
  BY <1>1 DEF StudyInv
<1>3. PICK a \in Answer(Sent(row.segments[row.left])) :
        row' = [row EXCEPT !.left = @ - 1,
                           !.tops[row.left] = IF a.late THEN @ ELSE a.selected,
                           !.traces = Append(@, [segment |-> row.left, before |-> Before(row.left),
                                                 after |-> After(row.left), answer |-> a])]
  BY DEF RankSegment
<1>4. row.left \in 1 .. Len(row.tops)
  BY <1>1, <1>2 DEF RowInv
<1> DEFINE b == Before(row.left)
           t == [segment |-> row.left, before |-> b,
                 after |-> FlattenSeq(From(row.tops, row.left + 1)) \o ContextForMode(row.item, row.mode).after,
                 answer |-> a]
<1>5. b \in Text
  BY <1>1, <1>4, BeforeType
<1>6. row' = [row EXCEPT !.left = @ - 1, !.tops[row.left] = IF a.late THEN @ ELSE a.selected,
                         !.traces = Append(@, t)]
  BY <1>3 DEF After
<1>7. t = [segment |-> row.left, before |-> b,
           after |-> FlattenSeq(From(row.tops, row.left + 1)) \o ContextForMode(row.item, row.mode).after,
           answer |-> a]
  OBVIOUS
<1> HIDE DEF b, t
<1>8. RowInv(row')
  BY <1>1, <1>2, <1>5, <1>6, <1>7, SegmentRanked
<1> QED BY <1>1, <1>8, OthersKept DEF StudyInv

LEMMA RankJointInv ==
  ASSUME StudyInv, RankJoint
  PROVE  StudyInv'
<1>1. /\ row # Nobody /\ row.left > 0 /\ IsJoint(row.item)
      /\ UNCHANGED <<options, todo, rows, report>>
  BY DEF RankJoint
<1>2. RowInv(row) /\ options \in Options
  BY <1>1 DEF StudyInv
<1>3. PICK a \in Answer(JointSent(row.segments)) :
        row' = [row EXCEPT !.left = 0,
                           !.tops = IF a.late THEN @ ELSE <<a.selected>>,
                           !.traces = << [segment |-> Nobody, before |-> Before(1),
                                          after |-> ContextForMode(row.item, row.mode).after, answer |-> a] >>]
  BY DEF RankJoint
<1>4. 1 \in 1 .. Len(row.tops)
  <2>1. row.tops \in Seq(Text) /\ Len(row.tops) > 0
    BY <1>1, <1>2 DEF RowInv, RowsInProgress, JointRow
  <2> DEFINE tops == row.tops
  <2>2. tops \in Seq(Text) /\ Len(tops) > 0
    BY <2>1
  <2> HIDE DEF tops, Text
  <2>3. 1 \in 1 .. Len(tops)
    BY <2>2, LenProperties
  <2> QED BY <2>3 DEF tops
<1> DEFINE b == Before(1)
           t == [segment |-> Nobody, before |-> b, after |-> ContextForMode(row.item, row.mode).after, answer |-> a]
<1>5. b \in Text
  BY <1>1, <1>4, BeforeType
<1>6. row' = [row EXCEPT !.left = 0, !.tops = IF a.late THEN @ ELSE <<a.selected>>, !.traces = <<t>>]
  BY <1>3
<1>7. t = [segment |-> Nobody, before |-> b, after |-> ContextForMode(row.item, row.mode).after, answer |-> a]
  OBVIOUS
<1> HIDE DEF b, t
<1>8. RowInv(row')
  BY <1>1, <1>2, <1>5, <1>6, <1>7, JointRanked
<1> QED BY <1>1, <1>8, OthersKept DEF StudyInv

LEMMA FinishRowInv ==
  ASSUME StudyInv, FinishRow
  PROVE  StudyInv'
<1> DEFINE raw == FlattenSeq(Tops(row.segments))
           ai == FlattenSeq(row.tops)
           r == [item |-> row.item, mode |-> row.mode, traces |-> row.traces, raw |-> raw, ai |-> ai,
                 raw_correct |-> raw \in row.item.acceptable, ai_correct |-> ai \in row.item.acceptable]
<1>1. /\ row # Nobody /\ row.left = 0 /\ rows' = Append(rows, r) /\ row' = Nobody
      /\ UNCHANGED <<options, todo, report>>
  BY DEF FinishRow
<1>2. RowInv(row) /\ options \in Options /\ rows \in Seq(FinishedRows)
      /\ \A i \in 1 .. Len(rows) : FinishedInv(rows[i])
  BY <1>1 DEF StudyInv
<1>3. FinishedInv(r)
  BY <1>1, <1>2, RowFinishes
<1>4. r \in FinishedRows
  BY <1>3 DEF FinishedInv
<1> HIDE DEF r
<1>5. /\ rows' \in Seq(FinishedRows) /\ Len(rows') = Len(rows) + 1 /\ Len(rows) \in Nat
      /\ \A i \in 1 .. Len(rows) : rows'[i] = rows[i]
      /\ rows'[Len(rows) + 1] = r
  BY <1>1, <1>2, <1>4, AppendProperties, LenProperties
<1>6. \A i \in 1 .. Len(rows') : FinishedInv(rows'[i])
  BY <1>2, <1>3, <1>5
<1>7. \A q : FinishedInv(q)' <=> FinishedInv(q)
  BY <1>1, SameOptions
<1>8. (\A i \in 1 .. Len(rows) : FinishedInv(rows[i]))'
  BY <1>6, <1>7
<1>9. (rows \in Seq(FinishedRows))'
  BY <1>5
<1> QED BY <1>1, <1>8, <1>9, OthersKept DEF StudyInv

LEMMA ReportInv ==
  ASSUME StudyInv, Report
  PROVE  StudyInv'
<1> DEFINE failed == \E r \in ToSet(rows) : IsJoint(r.item)
           table == [i \in 1 .. Len(rows) |-> Analyzed(rows[i])]
<1>1. /\ report' = [TypeError |-> failed, rows |-> IF failed THEN <<>> ELSE table]
      /\ UNCHANGED <<options, todo, row, rows>>
  BY DEF Report
<1>2. rows \in Seq(FinishedRows) /\ \A i \in 1 .. Len(rows) : FinishedInv(rows[i])
  BY DEF StudyInv
<1>3. DOMAIN rows = 1 .. Len(rows) /\ Len(rows) \in Nat
  BY <1>2, LenProperties
<1>4. ASSUME ~failed, NEW i \in 1 .. Len(rows), ~options.dedup, ~options.reps, table[i].ai_ok
      PROVE  table[i].all_reachable
  <2> DEFINE r == rows[i]
  <2>1. ~IsJoint(r.item)
    BY <1>3, <1>4 DEF ToSet
  <2>2. r.ai \in r.item.acceptable
    BY <1>4 DEF Analyzed
  <2>3. FinishedInv(r)
    BY <1>2
  <2>4. CanCompose(Augmented(r.item), r.item.acceptable, 0)
    BY <1>4, <2>1, <2>2, <2>3 DEF FinishedInv
  <2> QED BY <2>4 DEF Analyzed
<1>5. DOMAIN table = 1 .. Len(rows)
  OBVIOUS
<1>6. ASSUME ~options.dedup, ~options.reps, NEW a \in ToSet(report'.rows), a.ai_ok
      PROVE  a.all_reachable
  <2>1. CASE failed
    <3>1. report'.rows = <<>>
      BY <1>1, <2>1
    <3>2. ToSet(report'.rows) = {}
      BY <3>1, EmptySeq DEF ToSet
    <3> QED BY <3>2
  <2>2. CASE ~failed
    <3>1. report'.rows = table
      BY <1>1, <2>2
    <3> HIDE DEF table
    <3>2. PICK i \in 1 .. Len(rows) : a = table[i]
      BY <1>5, <3>1 DEF ToSet
    <3> QED BY <1>4, <1>6, <2>2, <3>2
  <2> QED BY <2>1, <2>2
<1>7. WithinReach'
  BY <1>1, <1>6 DEF WithinReach
<1>8. (row' # Nobody => RowInv(row')) 
  BY <1>1 DEF StudyInv
<1> QED BY <1>1, <1>7, <1>8, OthersKept DEF StudyInv

LEMMA StudyInvStep ==
  ASSUME StudyInv, [StudyNext]_studyVars
  PROVE  StudyInv'
<1>1. CASE BeginRow
  BY <1>1, BeginRowInv
<1>2. CASE RankSegment
  BY <1>2, RankSegmentInv
<1>3. CASE RankJoint
  BY <1>3, RankJointInv
<1>4. CASE FinishRow
  BY <1>4, FinishRowInv
<1>5. CASE Report
  BY <1>5, ReportInv
<1>6. CASE UNCHANGED studyVars
  <2>1. options' = options /\ row' = row /\ UNCHANGED todo /\ UNCHANGED rows /\ UNCHANGED report
    BY <1>6 DEF studyVars
  <2>2. row' # Nobody => RowInv(row')
    BY <2>1 DEF StudyInv
  <2> QED BY <2>1, <2>2, OthersKept DEF StudyInv
<1> QED BY <1>1, <1>2, <1>3, <1>4, <1>5, <1>6 DEF StudyNext

-----------------------------------------------------------------------------
(* What the invariant says of the finished rows.                             *)

LEMMA RowsFacts ==
  ASSUME StudyInv
  PROVE  /\ Len(rows) \in Nat /\ DOMAIN rows = 1 .. Len(rows)
         /\ \A i \in 1 .. Len(rows) : FinishedInv(rows[i])
         /\ \A i \in 1 .. Len(rows) :
              /\ Len(rows[i].traces) \in Nat
              /\ DOMAIN rows[i].traces = 1 .. Len(rows[i].traces)
         /\ \A r \in ToSet(rows) : \E i \in 1 .. Len(rows) : r = rows[i]
<1>1. rows \in Seq(FinishedRows) /\ \A i \in 1 .. Len(rows) : FinishedInv(rows[i])
  BY DEF StudyInv
<1>2. Len(rows) \in Nat /\ DOMAIN rows = 1 .. Len(rows)
  BY <1>1, LenProperties
<1>3. ASSUME NEW i \in 1 .. Len(rows)
      PROVE  Len(rows[i].traces) \in Nat /\ DOMAIN rows[i].traces = 1 .. Len(rows[i].traces)
  <2> DEFINE traces == rows[i].traces
  <2>1. traces \in Seq(Traces)
    BY <1>1 DEF FinishedInv, FinishedRows
  <2> HIDE DEF traces
  <2>2. Len(traces) \in Nat /\ DOMAIN traces = 1 .. Len(traces)
    BY <2>1, LenProperties
  <2> QED BY <2>2 DEF traces
<1>4. \A r \in ToSet(rows) : \E i \in 1 .. Len(rows) : r = rows[i]
  BY <1>2 DEF ToSet
<1> QED BY <1>1, <1>2, <1>3, <1>4

LEMMA FollowingIsFinalHolds ==
  ASSUME StudyInv
  PROVE  FollowingIsFinal
<1> SUFFICES ASSUME NEW r \in ToSet(rows), NEW t \in ToSet(r.traces)
             PROVE  IsSuffix(t.after, r.ai \o ContextForMode(r.item, r.mode).after)
  BY DEF FollowingIsFinal
<1>1. PICK i \in 1 .. Len(rows) : r = rows[i]
  BY RowsFacts
<1>2. FinishedInv(r) /\ DOMAIN r.traces = 1 .. Len(r.traces)
  BY <1>1, RowsFacts
<1>3. PICK k \in 1 .. Len(r.traces) : t = r.traces[k]
  BY <1>2 DEF ToSet
<1> QED BY <1>2, <1>3 DEF FinishedInv

LEMMA BaselineIsFirstHolds ==
  ASSUME StudyInv
  PROVE  BaselineIsFirst
<1> SUFFICES ASSUME NEW r \in ToSet(rows), IsJoint(r.item) PROVE r.traces[1].answer.sent[1] = r.raw
  BY DEF BaselineIsFirst
<1>1. FinishedInv(r)
  BY RowsFacts
<1> QED BY <1>1 DEF FinishedInv

\* Of two sets, the elements of the one only are as many more than those of the other
\* only as it has more.
LEMMA Difference ==
  ASSUME NEW D, IsFiniteSet(D), NEW R \in SUBSET D, NEW A \in SUBSET D
  PROVE  Cardinality(A) - Cardinality(R) = Cardinality(A \ R) - Cardinality(R \ A)
<1> DEFINE B == A \cap R
<1>1. /\ IsFiniteSet(A) /\ IsFiniteSet(R) /\ IsFiniteSet(B) /\ IsFiniteSet(A \ R) /\ IsFiniteSet(R \ A)
  <2>1. B \in SUBSET D /\ A \ R \in SUBSET D /\ R \ A \in SUBSET D
    OBVIOUS
  <2> QED BY <2>1, FS_Subset
<1>2. /\ A = B \cup (A \ R) /\ B \cap (A \ R) = {}
      /\ R = B \cup (R \ A) /\ B \cap (R \ A) = {}
  OBVIOUS
<1> HIDE DEF B
<1>3. Cardinality(A) = Cardinality(B) + Cardinality(A \ R) - 0
  <2>1. Cardinality(B \cup (A \ R)) = Cardinality(B) + Cardinality(A \ R) - Cardinality(B \cap (A \ R))
    BY <1>1, FS_Union
  <2> QED BY <1>2, <2>1, FS_EmptySet
<1>4. Cardinality(R) = Cardinality(B) + Cardinality(R \ A) - 0
  <2>1. Cardinality(B \cup (R \ A)) = Cardinality(B) + Cardinality(R \ A) - Cardinality(B \cap (R \ A))
    BY <1>1, FS_Union
  <2> QED BY <1>2, <2>1, FS_EmptySet
<1>5. Cardinality(B) \in Nat /\ Cardinality(A \ R) \in Nat /\ Cardinality(R \ A) \in Nat
  BY <1>1, FS_CardinalityType
<1> QED BY <1>3, <1>4, <1>5

LEMMA LateChangesNothingHolds ==
  ASSUME StudyInv
  PROVE  LateChangesNothing
<1> DEFINE D == DOMAIN rows
           n == Len(rows)
           R == {i \in D : rows[i].raw_correct}
           A == {i \in D : rows[i].ai_correct}
           C == {i \in D : rows[i].ai # rows[i].raw}
           L == {i \in D : \A t \in ToSet(rows[i].traces) : t.answer.late}
           G == {i \in D : rows[i].raw_correct /\ ~rows[i].ai_correct}
           V == {i \in D : ~rows[i].raw_correct /\ rows[i].ai_correct}
<1>1. n \in Nat /\ D = 1 .. n
  BY RowsFacts
<1>2. IsFiniteSet(D) /\ Cardinality(D) = n
  <2>1. 1 \in Int /\ n \in Int
    BY <1>1
  <2>2. IsFiniteSet(1 .. n) /\ Cardinality(1 .. n) = IF 1 > n THEN 0 ELSE n - 1 + 1
    BY <2>1, FS_Interval
  <2> HIDE DEF n, D
  <2> QED BY <1>1, <2>2
<1>3. C \cap L = {}
  <2> SUFFICES ASSUME NEW i \in D, i \in L PROVE rows[i].ai = rows[i].raw
    OBVIOUS
  <2>1. FinishedInv(rows[i]) /\ DOMAIN rows[i].traces = 1 .. Len(rows[i].traces)
    BY <1>1, RowsFacts
  <2>2. AllLate(rows[i].traces)
    BY <2>1 DEF AllLate, ToSet
  <2> QED BY <2>1, <2>2 DEF FinishedInv
<1>4. G = R \ A /\ V = A \ R /\ C \in SUBSET D /\ L \in SUBSET D /\ R \in SUBSET D /\ A \in SUBSET D
  OBVIOUS
<1>5. LateChangesNothing <=> /\ Cardinality(C) <= n - Cardinality(L)
                             /\ Cardinality(A) - Cardinality(R) = Cardinality(V) - Cardinality(G)
  BY DEF LateChangesNothing, Summary
<1> HIDE DEF D, n, R, A, C, L, G, V
<1>6. Cardinality(C) <= n - Cardinality(L)
  <2>1. IsFiniteSet(C) /\ IsFiniteSet(L) /\ C \cup L \in SUBSET D
    BY <1>2, <1>4, FS_Subset
  <2>2. Cardinality(C \cup L) = Cardinality(C) + Cardinality(L) - Cardinality(C \cap L)
    BY <2>1, FS_Union
  <2>3. Cardinality(C \cup L) <= n
    BY <1>2, <2>1, FS_Subset
  <2>4. Cardinality(C) \in Nat /\ Cardinality(L) \in Nat /\ Cardinality({}) = 0
    BY <2>1, FS_CardinalityType, FS_EmptySet
  <2>5. Cardinality(C \cup L) = Cardinality(C) + Cardinality(L) - 0
    BY <1>3, <2>2, <2>4
  <2> QED BY <1>1, <2>3, <2>4, <2>5
<1>7. Cardinality(A) - Cardinality(R) = Cardinality(V) - Cardinality(G)
  BY <1>2, <1>4, Difference
<1> QED BY <1>5, <1>6, <1>7

\* A row without features is neither a recovery nor a change for the script that
\* takes it in.
LEMMA CalibrationsAgreeHolds ==
  ASSUME StudyInv
  PROVE  CalibrationsAgree
<1> SUFFICES ASSUME NEW m \in Leads, NEW g \in Leads
             PROVE  /\ Metrics(m, g).recoveries = Evaluate(m, g).recoveries
                    /\ Metrics(m, g).changed = Evaluate(m, g).changed
  BY DEF CalibrationsAgree
<1> DEFINE F == {j \in DOMAIN rows : HasFeatures(rows[j])}
           some == [i \in F |-> Project(rows[i], Accepts(rows[i], m, g))]
           all == [i \in DOMAIN rows |-> ProjectedSurface(rows[i], m, g)]
           Recovered(s, S) == {i \in S : ~rows[i].raw_correct /\ s[i] = rows[i].item.expected}
           Changed(s, S) == {i \in S : s[i] # rows[i].raw}
<1>1. DOMAIN some = F /\ DOMAIN all = DOMAIN rows
  OBVIOUS
<1>2. \A i \in F : i \in DOMAIN rows /\ some[i] = all[i]
  BY DEF Project, Accepts, ProjectedSurface
<1>3. \A i \in DOMAIN rows \ F : all[i] = rows[i].raw
  BY DEF ProjectedSurface
<1>4. \A i \in DOMAIN rows : rows[i].raw = rows[i].item.expected => rows[i].raw_correct
  <2> SUFFICES ASSUME NEW i \in DOMAIN rows, rows[i].raw = rows[i].item.expected PROVE rows[i].raw_correct
    OBVIOUS
  <2>1. FinishedInv(rows[i])
    BY RowsFacts
  <2>2. rows[i].item \in AllItems
    BY <2>1 DEF FinishedInv, FinishedRows
  <2>3. rows[i].item.expected \in rows[i].item.acceptable
    BY <2>2, ItemFacts
  <2> QED BY <2>1, <2>3 DEF FinishedInv
<1>5. /\ Metrics(m, g).recoveries = Cardinality(Recovered(some, DOMAIN some))
      /\ Metrics(m, g).changed = Cardinality(Changed(some, DOMAIN some))
  BY DEF Metrics, Counts
<1>6. /\ Evaluate(m, g).recoveries = Cardinality(Recovered(all, DOMAIN all))
      /\ Evaluate(m, g).changed = Cardinality(Changed(all, DOMAIN all))
  BY DEF Evaluate, Counts
<1> HIDE DEF some, all, F
<1>7. Recovered(some, F) = Recovered(all, DOMAIN rows)
  BY <1>2, <1>3, <1>4
<1>8. Changed(some, F) = Changed(all, DOMAIN rows)
  BY <1>2, <1>3
<1> QED BY <1>1, <1>5, <1>6, <1>7, <1>8

\* Joining segments keeps the reading; what the ranker was told to follow is what the
\* row shows; Mozc's surface is the first hypothesis; a correct answer is within
\* reach of all candidates; late answers change nothing; and both calibrations
\* count the same (mozc_candidate_pipeline_study.py:160-252,
\* report_human_prefix_benchmark.py:135, calibrate_confidence_models.py:112-134).
THEOREM StudyIsSound == StudySpec => []StudySound
<1>1. StudyInit => StudyInv
  BY StudyInitInv
<1>2. StudyInv /\ [StudyNext]_studyVars => StudyInv'
  BY StudyInvStep
<1>3. StudyInv => StudySound
  <2> SUFFICES ASSUME StudyInv PROVE StudySound
    OBVIOUS
  <2>1. KeepsReading
    BY DEF StudyInv, RowInv, KeepsReading
  <2>2. WithinReach
    BY DEF StudyInv
  <2> QED BY <2>1, <2>2, FollowingIsFinalHolds, BaselineIsFirstHolds, LateChangesNothingHolds,
             CalibrationsAgreeHolds DEF StudySound
<1> QED BY <1>1, <1>2, <1>3, PTL DEF StudySpec
=============================================================================
