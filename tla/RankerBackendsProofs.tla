------------------------ MODULE RankerBackendsProofs ------------------------
(***************************************************************************)
(* Proofs about the backends of RankerBackends for any settings, requests, *)
(* networks, lexical frames and tables.                                    *)
(***************************************************************************)
EXTENDS RankerBackends, OrderingProofs

-----------------------------------------------------------------------------
(* Least and greatest numbers.                                               *)

\* A function on the numbers up to n is a sequence of length n.
LEMMA FunctionIsSequence ==
  ASSUME NEW n \in Nat, NEW S, NEW f \in [1..n -> S]
  PROVE  f \in Seq(S) /\ Len(f) = n
OBVIOUS

\* Every set of natural numbers that is not empty has a least one.
LEMMA LeastNumber ==
  ASSUME NEW T, T \subseteq Nat, T # {}
  PROVE  Min(T) \in T /\ \A y \in T : Min(T) <= y
<1> DEFINE R == {ss \in Nat \X Nat : ss[1] < ss[2]}
<1>1. IsWellFoundedOn(R, Nat)
  BY NatLessThanWellFounded DEF OpToRel
<1>2. \A x \in Nat, y \in Nat : x < y => <<x, y>> \in R
  <2> SUFFICES ASSUME NEW x \in Nat, NEW y \in Nat, x < y PROVE <<x, y>> \in R
    OBVIOUS
  <2>1. <<x, y>>[1] = x /\ <<x, y>>[2] = y
    OBVIOUS
  <2> QED
    BY <2>1
<1> HIDE DEF R
<1>3. PICK x \in T : \A y \in T : <<y, x>> \notin R
  BY <1>1, WFMin
<1>4. ASSUME NEW y \in T PROVE x <= y
  <2>1. x \in Nat /\ y \in Nat /\ <<y, x>> \notin R
    BY <1>3
  <2>2. ~(y < x)
    BY <1>2, <2>1
  <2> QED
    BY <2>1, <2>2
<1> QED
  BY <1>3, <1>4 DEF Min

\* Every bounded set of natural numbers that is not empty has a greatest one.
LEMMA GreatestNumber ==
  ASSUME NEW n \in Nat, NEW T, T \subseteq 0..n, T # {}
  PROVE  Max(T) \in T /\ \A y \in T : y <= Max(T)
<1> DEFINE U == {n - x : x \in T}
<1>1. U \subseteq Nat /\ U # {}
  <2>1. \A x \in T : x \in Int /\ n - x \in Nat
    OBVIOUS
  <2> QED
    BY <2>1
<1>2. Min(U) \in U /\ \A y \in U : Min(U) <= y
  BY <1>1, LeastNumber
<1>3. PICK x \in T : Min(U) = n - x
  BY <1>2
<1>4. \A y \in T : x >= y
  BY <1>2, <1>3
<1>5. \A y \in T : x >= y /\ (Max(T) >= y)
  BY <1>4 DEF Max
<1> QED
  BY <1>3, <1>4, <1>5 DEF Max

\* The best of some candidates is the evidence of one of them.
LEMMA BestIsOne ==
  ASSUME NEW n \in Nat, NEW ev \in [1..n -> Int], NEW S, S \subseteq 1..n, S # {}
  PROVE  /\ \E i \in S : Best(ev, S) = ev[i]
         /\ Best(ev, S) \in Int
         /\ \A j \in S : ev[j] <= Best(ev, S)
<1> DEFINE Top(k, i) == i \in S /\ \A j \in S : j <= k => ev[j] <= ev[i]
           I == {k \in 0..n : (\A j \in S : j > k) \/ \E i \in S : Top(k, i)}
<1>1. 0 \in I
  OBVIOUS
<1>2. ASSUME NEW k \in 1..n, k - 1 \in I PROVE k \in I
  <2>1. \A j \in S : j \in 1..n /\ ev[j] \in Int /\ (j <= k <=> j = k \/ j <= k - 1)
    OBVIOUS
  <2>2. CASE k \notin S
    <3>1. \A j \in S : j <= k <=> j <= k - 1
      BY <2>1, <2>2
    <3>2. CASE \A j \in S : j > k - 1
      BY <2>1, <2>2, <3>2
    <3>3. CASE \E i \in S : Top(k - 1, i)
      BY <3>1, <3>3
    <3> QED
      BY <1>2, <3>2, <3>3
  <2>3. CASE k \in S
    <3>1. CASE \A j \in S : j > k - 1
      <4>1. Top(k, k)
        BY <2>1, <2>3, <3>1
      <4> QED
        BY <2>3, <4>1
    <3>2. CASE \E i \in S : Top(k - 1, i)
      <4>1. PICK i \in S : Top(k - 1, i)
        BY <3>2
      <4>2. CASE ev[k] <= ev[i]
        <5>1. Top(k, i)
          BY <2>1, <4>1, <4>2
        <5> QED
          BY <5>1
      <4>3. CASE ~(ev[k] <= ev[i])
        <5>1. Top(k, k)
          BY <2>1, <2>3, <4>1, <4>3
        <5> QED
          BY <2>3, <5>1
      <4> QED
        BY <4>2, <4>3
    <3> QED
      BY <1>2, <3>1, <3>2
  <2> QED
    BY <2>2, <2>3
<1> HIDE DEF I
<1>3. \A k \in 0..n : k \in I
  BY <1>1, <1>2, InductionUpTo
<1>4. n \in I
  BY <1>3
<1>5. PICK i \in S : \A j \in S : ev[j] <= ev[i]
  <2>1. \A j \in S : j \in Int /\ j <= n
    OBVIOUS
  <2>5. PICK s \in S : TRUE
    OBVIOUS
  <2>2. ~(s > n)
    BY <2>1
  <2>3. (\A j \in S : j > n) \/ \E i \in S : Top(n, i)
    BY <1>4 DEF I
  <2>4. \E i \in S : Top(n, i)
    BY <2>2, <2>3, <2>5
  <2> QED
    BY <2>1, <2>4
<1> DEFINE E == {ev[j] : j \in S}
<1>6. ev[i] \in E /\ \A y \in E : ev[i] >= y
  BY <1>5
<1>7. Best(ev, S) \in E /\ \A y \in E : Best(ev, S) >= y
  <2>1. Best(ev, S) = CHOOSE x \in E : \A y \in E : x >= y
    BY DEF Best, Max
  <2> HIDE DEF E
  <2> QED
    BY <1>6, <2>1
<1> QED
  BY <1>7

-----------------------------------------------------------------------------
(* What is added to a score.                                                 *)

\* Hundredths are scores, in the order of their numbers.
LEMMA HundredthsFacts ==
  /\ \A n \in Int : Hundredths(n) \in Int
  /\ \A n \in Nat : Hundredths(n) \in Nat
  /\ \A m, n \in Int : m <= n => Hundredths(m) <= Hundredths(n)
BY DEF Hundredths

\* A lexical frame adds a natural number.
LEMMA FrameBonusType ==
  ASSUME NEW context, NEW text
  PROVE  FrameBonus(context, text) \in Nat
<1> DEFINE fits == {i \in DOMAIN Rules :
                      /\ Rules[i].word \in Bases(text)
                      /\ \E n \in Rules[i].needles :
                            Occurs(n, context.prefix \o text \o context.suffix)}
<1>1. FrameBonus(context, text) = IF fits = {} THEN 0 ELSE Rules[Min(fits)].bonus
  BY DEF FrameBonus
<1>2. fits \subseteq DOMAIN Rules /\ DOMAIN Rules \subseteq Nat
  <2>1. DOMAIN Rules = 1..Len(Rules)
    BY ScoringAssumption
  <2> QED
    BY <2>1
<1> HIDE DEF fits
<1>3. CASE fits # {}
  <2>1. Min(fits) \in DOMAIN Rules
    BY <1>2, <1>3, LeastNumber
  <2>2. Rules[Min(fits)].bonus \in Nat
    BY <2>1, ScoringAssumption DEF IsRule
  <2> QED
    BY <1>1, <1>3, <2>2
<1> QED
  BY <1>1, <1>3

\* The context, the style and the dictionary turn integer scores into integer
\* scores.
LEMMA AdjustedType ==
  ASSUME NEW c, NEW r, NEW raw \in [DOMAIN r.texts -> Int]
  PROVE  Adjusted(c, r, raw) \in [DOMAIN r.texts -> Int]
<1> SUFFICES ASSUME NEW i \in DOMAIN r.texts
             PROVE  raw[i] + StyleBonus(r.texts[i], ToSet(r.texts))
                    + FrameBonus(Context(c, r), r.texts[i])
                    - (IF c.lexical THEN LexicalPenalty(r.texts[i], r.reading) ELSE 0)
                    - EchoPenalty(r.texts[i], r.reading, ToSet(r.texts)) \in Int
  BY DEF Adjusted
<1>1. StyleBonus(r.texts[i], ToSet(r.texts)) \in {0, Hundredths(100)}
  BY DEF StyleBonus
<1>2. FrameBonus(Context(c, r), r.texts[i]) \in Nat
  BY FrameBonusType
<1>3. LexicalPenalty(r.texts[i], r.reading) \in {0, Hundredths(150)}
  BY DEF LexicalPenalty
<1>4. EchoPenalty(r.texts[i], r.reading, ToSet(r.texts)) \in {0, Hundredths(125)}
  BY DEF EchoPenalty
<1>5. raw[i] \in Int
  OBVIOUS
<1>6. (IF c.lexical THEN LexicalPenalty(r.texts[i], r.reading) ELSE 0) \in {0, Hundredths(150)}
  BY <1>3
<1> QED
  BY <1>1, <1>2, <1>4, <1>5, <1>6, HundredthsFacts

-----------------------------------------------------------------------------
(* Sorting.                                                                  *)

\* Candidate i goes before candidate j.
Before(score, i, j) == score[i] > score[j] \/ (score[i] = score[j] /\ i < j)

\* order lists n candidates by their scores, equal ones in Mozc's order.
IsSortedBy(perm, score, n) ==
  /\ perm \in [1..n -> 1..n]
  /\ \A i \in 1..n : \E k \in 1..n : perm[k] = i
  /\ \A k, l \in 1..n : k < l <=> Before(score, perm[k], perm[l])

\* Sorting does so.
LEMMA SortedFacts ==
  ASSUME NEW n \in Nat, NEW score \in [1..n -> Int]
  PROVE  IsSortedBy(Sorted(score), score, n)
<1> DEFINE before == [j \in DOMAIN score |-> {i \in DOMAIN score : Before(score, i, j)}]
           S == DOMAIN score
<1>1. S = 1..n /\ IsFiniteSet(S) /\ Cardinality(S) = n
  <2>1. 1 \in Int /\ n \in Int
    OBVIOUS
  <2>2. IsFiniteSet(1..n) /\ Cardinality(1..n) = IF 1 > n THEN 0 ELSE n - 1 + 1
    BY <2>1, FS_Interval
  <2> QED
    BY <2>2
<1>2. IsTotalOrder(S, before)
  <2>1. before \in [S -> SUBSET S]
    OBVIOUS
  <2>2. \A i \in S : i \notin before[i]
    BY <1>1 DEF Before
  <2>3. ASSUME NEW i \in S, NEW j \in S, i \in before[j] PROVE before[i] \subseteq before[j]
    <3>1. ASSUME NEW k \in S, Before(score, k, i) PROVE Before(score, k, j)
      <4>1. score[i] \in Int /\ score[j] \in Int /\ score[k] \in Int
            /\ i \in Int /\ j \in Int /\ k \in Int
        BY <1>1
      <4>2. Before(score, i, j)
        BY <2>3
      <4> QED
        BY <3>1, <4>1, <4>2 DEF Before
    <3> QED
      BY <2>3, <3>1
  <2>4. ASSUME NEW i \in S, NEW j \in S, i # j PROVE i \in before[j] \/ j \in before[i]
    <3>1. score[i] \in Int /\ score[j] \in Int /\ i \in Int /\ j \in Int
      BY <1>1
    <3>2. Before(score, i, j) \/ Before(score, j, i)
      BY <2>4, <3>1 DEF Before
    <3> QED
      BY <3>2
  <2> QED
    BY <2>1, <2>2, <2>3, <2>4 DEF IsTotalOrder
<1>3. Sorted(score) = Listed(S, before)
  BY DEF Sorted, Before
<1>4. \A i, j \in S : i \in before[j] <=> Before(score, i, j)
  OBVIOUS
<1> HIDE DEF before, S
<1> DEFINE L == Listed(S, before)
<1>5. /\ L \in [1..n -> S]
      /\ \A i \in S : \E k \in 1..n : L[k] = i
      /\ \A k, l \in 1..n : k < l <=> L[k] \in before[L[l]]
  <2>1. /\ Cardinality(S) \in Nat
        /\ Listed(S, before) \in [1..Cardinality(S) -> S]
        /\ \A i \in S : \E k \in 1..Cardinality(S) : Listed(S, before)[k] = i
        /\ \A k, l \in 1..Cardinality(S) :
             k < l <=> Listed(S, before)[k] \in before[Listed(S, before)[l]]
    <3>1. IsFiniteSet(S)
      BY <1>1
    <3> QED
      BY <1>2, <3>1, ListedInOrder
  <2> QED
    BY <1>1, <2>1
<1>6. \A k, l \in 1..n : L[k] \in S /\ L[l] \in S
  BY <1>5
<1> HIDE DEF L
<1>7. \A k, l \in 1..n : k < l <=> Before(score, L[k], L[l])
  BY <1>4, <1>5, <1>6
<1>8. Sorted(score) = L
  BY <1>3 DEF L
<1> QED
  BY <1>1, <1>5, <1>7, <1>8 DEF IsSortedBy

\* A sorted list has each candidate once.
LEMMA SortedIsBijection ==
  ASSUME NEW n \in Nat, NEW score \in [1..n -> Int], NEW perm, IsSortedBy(perm, score, n)
  PROVE  perm \in Bijection(1..n, 1..n)
<1>1. perm \in [1..n -> 1..n] /\ \A i \in 1..n : \E k \in 1..n : perm[k] = i
  BY DEF IsSortedBy
<1>2. ASSUME NEW k \in 1..n, NEW l \in 1..n, perm[k] = perm[l] PROVE k = l
  <2>1. perm[k] \in 1..n /\ score[perm[k]] \in Int
    BY <1>1
  <2>2. ~Before(score, perm[k], perm[k])
    BY <2>1 DEF Before
  <2>3. ~(k < l) /\ ~(l < k)
    BY <1>2, <2>2 DEF IsSortedBy
  <2> QED
    BY <2>3
<1> QED
  BY <1>1, <1>2 DEF Bijection, Injection, Surjection, IsInjective

-----------------------------------------------------------------------------
(* The scores of the backends.                                               *)

\* A request has candidates, each with a prior, a frame bonus of the rules and a
\* score by every network.
LEMMA RequestFacts ==
  ASSUME NEW r \in Requests
  PROVE  /\ r.texts \in Seq(Text) /\ Len(r.texts) \in Nat \ {0}
         /\ DOMAIN r.texts = 1..Len(r.texts)
         /\ \A i \in 1..Len(r.texts) :
              /\ i - 1 \in DOMAIN Prior /\ Prior[i - 1] \in Int
              /\ RuleBonus(RuleSentence(r), RuleRight(r), r.texts[i]) \in Int
<1>1. r.texts \in Seq(Text) /\ r.texts # <<>>
  BY BackendAssumption DEF Request
<1>2. DOMAIN r.texts = 1..Len(r.texts) /\ Len(r.texts) \in Nat \ {0}
  BY <1>1
<1> QED
  BY <1>1, <1>2, BackendAssumption, ScoringAssumption

LEMMA ModelFacts ==
  ASSUME NEW r \in Requests, NEW m \in Models, NEW i \in 1..Len(r.texts)
  PROVE  m.word[r.texts[i]] \in Int /\ m.sentence[r.texts[i]] \in Int
<1>1. r.texts[i] \in DOMAIN m.word
  BY RequestFacts, BackendAssumption
<1>2. m \in Model(DOMAIN m.word)
  BY BackendAssumption
<1>3. /\ m.word \in [DOMAIN m.word -> Int]
      /\ m.sentence \in [DOMAIN m.word -> Int]
  BY <1>2 DEF Model
<1> QED
  BY <1>1, <1>3

LEMMA OnnxScoresType ==
  ASSUME NEW r \in Requests, NEW m \in Models
  PROVE  OnnxScores(r, m) \in [1..Len(r.texts) -> Int]
BY RequestFacts, ModelFacts DEF OnnxScores

\* Scoring each distinct surface once and mapping the scores back gives each
\* candidate the score of its own surface.
LEMMA RuriScoresAreOnnxScores ==
  ASSUME NEW r \in Requests, NEW m
  PROVE  RuriScores(r, m) = OnnxScores(r, m)
<1> DEFINE n == Len(r.texts)
           texts == r.texts
           U == {i \in DOMAIN texts : \A j \in 1..(i - 1) : texts[j] # texts[i]}
           unique == UniqueTexts(texts)
           batch == [k \in DOMAIN unique |-> m.sentence[texts[unique[k]]]]
           index(i) == CHOOSE k \in DOMAIN unique : texts[unique[k]] = texts[i]
<1>1. n \in Nat /\ DOMAIN texts = 1..n
  BY RequestFacts
<1>2. IsListOf(unique, n, U)
  BY <1>1, KeptIdentity DEF UniqueTexts
<1>3. DOMAIN unique = 1..Len(unique)
  BY <1>2 DEF IsListOf
<1> HIDE DEF unique
<1>4. ASSUME NEW i \in 1..n PROVE \E k \in DOMAIN unique : texts[unique[k]] = texts[i]
  <2> DEFINE Same == {j \in 1..n : texts[j] = texts[i]}
             first == Min(Same)
  <2>1. Same \subseteq Nat /\ Same # {}
    BY <1>1
  <2> HIDE DEF Same
  <2>2. first \in Same /\ \A j \in Same : first <= j
    BY <2>1, LeastNumber
  <2> HIDE DEF first
  <2>3. first \in 1..n /\ texts[first] = texts[i]
    BY <2>2 DEF Same
  <2>4. ASSUME NEW j \in 1..(first - 1) PROVE texts[j] # texts[first]
    <3>1. j \in 1..n /\ ~(first <= j)
      BY <1>1, <2>3
    <3> QED
      BY <2>2, <2>3, <3>1 DEF Same
  <2>5. first \in U
    BY <1>1, <2>3, <2>4
  <2> HIDE DEF U
  <2>6. PICK k \in 1..Len(unique) : unique[k] = first
    BY <1>2, <2>3, <2>5 DEF IsListOf
  <2> QED
    BY <1>3, <2>3, <2>6
<1>5. ASSUME NEW i \in 1..n PROVE batch[index(i)] = m.sentence[texts[i]]
  BY <1>4
<1>6. RuriScores(r, m) = [i \in DOMAIN texts |-> batch[index(i)]]
  BY DEF RuriScores, unique
<1> HIDE DEF batch, index
<1> QED
  BY <1>1, <1>5, <1>6 DEF OnnxScores

\* The evidence of the neural backends is one function of the settings, the
\* request and the network.
LEMMA EvidenceFacts ==
  ASSUME NEW c, NEW r \in Requests, NEW m \in Models
  PROVE  /\ Evidence(c, r, m) = Adjusted(c, r, OnnxScores(r, m))
         /\ Evidence(c, r, m) \in [1..Len(r.texts) -> Int]
<1>1. Evidence(c, r, m) = Adjusted(c, r, OnnxScores(r, m))
  BY RuriScoresAreOnnxScores DEF Evidence
<1>2. DOMAIN r.texts = 1..Len(r.texts)
  BY RequestFacts
<1> QED
  BY <1>1, <1>2, OnnxScoresType, AdjustedType

\* The two halves of the batch of pairs are the views.
LEMMA Halves ==
  ASSUME NEW S, NEW a \in Seq(S), NEW b \in Seq(S), Len(a) = Len(b)
  PROVE  /\ SubSeq(a \o b, 1, Len(a)) = a
         /\ SubSeq(a \o b, Len(a) + 1, 2 * Len(a)) = b
<1> DEFINE n == Len(a)
           ab == a \o b
<1>1. n \in Nat /\ a \in [1..n -> S] /\ b \in [1..n -> S]
  OBVIOUS
<1>2. /\ ab \in Seq(S) /\ Len(ab) = n + n
      /\ \A i \in 1..(n + n) : ab[i] = IF i <= n THEN a[i] ELSE b[i - n]
  <2>1. /\ a \o b \in Seq(S) /\ Len(a \o b) = Len(a) + Len(b)
        /\ \A i \in 1..Len(a) + Len(b) : (a \o b)[i] = IF i <= Len(a) THEN a[i] ELSE b[i - Len(a)]
    BY ConcatProperties
  <2> QED
    BY <2>1
<1>3. \A i \in 1..(n + n) : ab[i] \in S
  BY <1>1, <1>2
<1> DEFINE left == SubSeq(ab, 1, n)
           right == SubSeq(ab, n + 1, 2 * n)
<1> HIDE DEF n, ab
<1>4. left \in Seq(S) /\ Len(left) = n /\ \A i \in 1..n : left[i] = ab[i]
  <2>1. 1 \in Int /\ n \in Int /\ \A i \in 1..n : ab[i] \in S
    BY <1>1, <1>3
  <2>2. /\ SubSeq(ab, 1, n) \in Seq(S)
        /\ Len(SubSeq(ab, 1, n)) = IF 1 <= n THEN n - 1 + 1 ELSE 0
        /\ \A i \in 1..(n - 1 + 1) : SubSeq(ab, 1, n)[i] = ab[1 + i - 1]
    BY <2>1, SubSeqProperties
  <2> QED
    BY <1>1, <2>2
<1>5. right \in Seq(S) /\ Len(right) = n /\ \A i \in 1..n : right[i] = ab[n + i]
  <2> DEFINE lo == n + 1
             hi == 2 * n
  <2>1. lo \in Int /\ hi \in Int /\ \A i \in lo..hi : ab[i] \in S
    BY <1>1, <1>3
  <2>2. lo = n + 1 /\ hi = 2 * n
    OBVIOUS
  <2> HIDE DEF lo, hi
  <2>3. /\ SubSeq(ab, lo, hi) \in Seq(S)
        /\ Len(SubSeq(ab, lo, hi)) = IF lo <= hi THEN hi - lo + 1 ELSE 0
        /\ \A i \in 1..(hi - lo + 1) : SubSeq(ab, lo, hi)[i] = ab[lo + i - 1]
    BY <2>1, SubSeqProperties
  <2>4. right = SubSeq(ab, lo, hi)
    BY <2>2
  <2> QED
    BY <1>1, <2>2, <2>3, <2>4
<1> HIDE DEF left, right
<1>6. \A i \in 1..n : left[i] = a[i]
  BY <1>1, <1>2, <1>4
<1>7. ASSUME NEW i \in 1..n PROVE right[i] = b[i]
  <2>1. n + i \in 1..(n + n) /\ ~(n + i <= n) /\ (n + i) - n = i
    BY <1>1
  <2> QED
    BY <1>2, <1>5, <2>1
<1>8. left = a /\ right = b
  <2>1. left \in [1..n -> S] /\ right \in [1..n -> S]
    BY <1>4, <1>5
  <2> QED
    BY <1>1, <1>6, <1>7, <2>1
<1> QED
  BY <1>8 DEF left, right, n, ab

\* Qwen's score of a candidate.
LEMMA QwenScoresFacts ==
  ASSUME NEW c, NEW r \in Requests, NEW m \in Models
  PROVE  LET n == Len(r.texts)
             word(i) == m.word[r.texts[i]]
             sentence(i) == m.sentence[r.texts[i]]
         IN  QwenScores(c, r, m) = [i \in 1..n |->
               IF c.backend = "qwen" THEN word(i)
               ELSE 45 * word(i) + 55 * sentence(i) - 100 * (i - 1)]
<1> DEFINE n == Len(r.texts)
           a == [i \in 1..n |-> m.word[r.texts[i]]]
           b == OnnxScores(r, m)
<1>1. n \in Nat /\ DOMAIN r.texts = 1..n
  BY RequestFacts
<1>2. a \in [1..n -> Int] /\ b \in [1..n -> Int]
  BY ModelFacts, OnnxScoresType
<1>3. a \in Seq(Int) /\ b \in Seq(Int) /\ Len(a) = n /\ Len(b) = n
  BY <1>1, <1>2
<1>4. \A i \in 1..n : a[i] = m.word[r.texts[i]] /\ b[i] = m.sentence[r.texts[i]]
  BY <1>1 DEF OnnxScores
<1>5. QwenScores(c, r, m) =
        LET words == SubSeq(a \o b, 1, n)
            sentences == SubSeq(a \o b, n + 1, 2 * n)
        IN  IF c.backend = "qwen" THEN words
            ELSE [i \in 1..n |-> 45 * words[i] + 55 * sentences[i] - 100 * (i - 1)]
  BY DEF QwenScores
<1> HIDE DEF a, b
<1>6. SubSeq(a \o b, 1, n) = a /\ SubSeq(a \o b, n + 1, 2 * n) = b
  <2>1. /\ SubSeq(a \o b, 1, Len(a)) = a
        /\ SubSeq(a \o b, Len(a) + 1, 2 * Len(a)) = b
    BY <1>3, Halves
  <2> QED
    BY <1>3, <2>1
<1>7. QwenScores(c, r, m) =
        IF c.backend = "qwen" THEN a
        ELSE [i \in 1..n |-> 45 * a[i] + 55 * b[i] - 100 * (i - 1)]
  BY <1>5, <1>6
<1> QED
  BY <1>4, <1>7 DEF a

\* Rounding moves a score by less than the last digit kept.
LEMMA RoundedNear ==
  ASSUME NEW x \in Int
  PROVE  /\ Rounded(x) \in Int /\ Rounded(x) - 5 <= x /\ x <= Rounded(x) + 4
         /\ \E q \in Int : Rounded(x) = 10 * q
BY DEF Rounded

\* It does not turn scores round.
LEMMA RoundedMonotone ==
  ASSUME NEW x \in Int, NEW y \in Int, x <= y
  PROVE  Rounded(x) <= Rounded(y)
<1>1. PICK p \in Int : Rounded(x) = 10 * p
  BY RoundedNear
<1>2. PICK q \in Int : Rounded(y) = 10 * q
  BY RoundedNear
<1>3. 10 * p - 5 <= x /\ y <= 10 * q + 4
  BY RoundedNear, <1>1, <1>2
<1>4. p <= q
  BY <1>3
<1> QED
  BY <1>1, <1>2, <1>4

\* Whatever the backend, scores are integers, and of two candidates with the
\* same surface the first has at least the score of the second.
LEMMA ScoresFacts ==
  ASSUME NEW c \in Configs, NEW r \in Requests, NEW m \in Models
  PROVE  /\ Scores(c, r, m) \in [1..Len(r.texts) -> Int]
         /\ \A i, j \in 1..Len(r.texts) :
              i < j /\ r.texts[i] = r.texts[j] => Scores(c, r, m)[i] >= Scores(c, r, m)[j]
<1> DEFINE n == Len(r.texts)
<1>1. n \in Nat /\ DOMAIN r.texts = 1..n
  BY RequestFacts
<1>2. CASE IsNeural(c)
  <2> DEFINE ev == Evidence(c, r, m)
  <2>1. Scores(c, r, m) = Final(c, ev)
    BY <1>2 DEF Scores, IsNeural
  <2>2. ev \in [1..n -> Int]
    BY EvidenceFacts
  <2>3. \A i \in 1..n : Prior[i - 1] \in Int
    BY RequestFacts
  <2>4. ASSUME NEW i \in 1..n, NEW j \in 1..n, i < j, r.texts[i] = r.texts[j]
        PROVE  ev[i] = ev[j] /\ Prior[i - 1] <= Prior[j - 1]
    <3>1. OnnxScores(r, m)[i] = OnnxScores(r, m)[j]
      BY <1>1, <2>4 DEF OnnxScores
    <3>2. ev = Adjusted(c, r, OnnxScores(r, m))
      BY EvidenceFacts
    <3>3. ev[i] = ev[j]
      BY <1>1, <2>4, <3>1, <3>2 DEF Adjusted
    <3>4. i - 1 \in DOMAIN Prior /\ j - 1 \in DOMAIN Prior /\ i - 1 <= j - 1
      BY <2>4, RequestFacts
    <3> QED
      BY <3>3, <3>4, ScoringAssumption
  <2> HIDE DEF ev
  <2> DEFINE exact(i) == ev[i] - Prior[i - 1]
             score(i) == IF c.backend = "ruri" THEN Rounded(exact(i)) ELSE exact(i)
  <2>5. Final(c, ev) = [i \in 1..n |-> score(i)]
    BY <2>2 DEF Final
  <2>6. ASSUME NEW i \in 1..n PROVE exact(i) \in Int
    BY <2>2, <2>3
  <2>7. ASSUME NEW i \in 1..n, NEW j \in 1..n, i < j, r.texts[i] = r.texts[j]
        PROVE  exact(j) <= exact(i)
    <3>1. ev[i] \in Int /\ ev[j] \in Int /\ Prior[i - 1] \in Int /\ Prior[j - 1] \in Int
      BY <2>2, <2>3
    <3>2. ev[i] = ev[j] /\ Prior[i - 1] <= Prior[j - 1]
      BY <2>4, <2>7
    <3> QED
      BY <3>1, <3>2
  <2> HIDE DEF exact
  <2>8. ASSUME NEW i \in 1..n PROVE score(i) \in Int
    BY <2>6, RoundedNear
  <2>9. ASSUME NEW i \in 1..n, NEW j \in 1..n, i < j, r.texts[i] = r.texts[j]
        PROVE  score(i) >= score(j)
    <3>1. exact(i) \in Int /\ exact(j) \in Int /\ exact(j) <= exact(i)
      BY <2>6, <2>7, <2>9
    <3>2. Rounded(exact(j)) <= Rounded(exact(i)) /\ Rounded(exact(i)) \in Int /\ Rounded(exact(j)) \in Int
      BY <3>1, RoundedMonotone, RoundedNear
    <3> QED
      BY <3>1, <3>2
  <2> HIDE DEF score
  <2> QED
    BY <2>1, <2>5, <2>8, <2>9
<1>3. CASE c.backend \in {"qwen", "dual"}
  <2> DEFINE word(i) == m.word[r.texts[i]]
             sentence(i) == m.sentence[r.texts[i]]
             score(i) == IF c.backend = "qwen" THEN word(i)
                         ELSE 45 * word(i) + 55 * sentence(i) - 100 * (i - 1)
  <2>1. Scores(c, r, m) = QwenScores(c, r, m)
    BY <1>3 DEF Scores, IsNeural
  <2>2. QwenScores(c, r, m) = [i \in 1..n |-> score(i)]
    BY QwenScoresFacts
  <2>3. ASSUME NEW i \in 1..n PROVE word(i) \in Int /\ sentence(i) \in Int
    BY ModelFacts
  <2>4. ASSUME NEW i \in 1..n, NEW j \in 1..n, r.texts[i] = r.texts[j]
        PROVE  word(i) = word(j) /\ sentence(i) = sentence(j)
    BY <2>4
  <2> HIDE DEF word, sentence
  <2>5. ASSUME NEW i \in 1..n PROVE score(i) \in Int
    BY <1>1, <2>3
  <2>6. ASSUME NEW i \in 1..n, NEW j \in 1..n, i < j, r.texts[i] = r.texts[j]
        PROVE  score(i) >= score(j)
    <3>1. /\ word(i) \in Int /\ sentence(i) \in Int /\ i \in Int /\ j \in Int
          /\ word(i) = word(j) /\ sentence(i) = sentence(j)
      BY <2>3, <2>4, <2>6
    <3> QED
      BY <2>6, <3>1
  <2> HIDE DEF score
  <2> QED
    BY <2>1, <2>2, <2>5, <2>6
<1>4. CASE c.backend = "rule"
  <2> DEFINE bonus(i) == RuleBonus(RuleSentence(r), RuleRight(r), r.texts[i])
             score(i) == 100 * (n - i) + bonus(i)
  <2>1. Scores(c, r, m) = [i \in 1..n |-> score(i)]
    BY <1>1, <1>4 DEF Scores, IsNeural, RuleScores
  <2>2. ASSUME NEW i \in 1..n PROVE bonus(i) \in Int
    BY RequestFacts
  <2>3. ASSUME NEW i \in 1..n, NEW j \in 1..n, r.texts[i] = r.texts[j]
        PROVE  bonus(i) = bonus(j)
    BY <2>3
  <2> HIDE DEF bonus
  <2>4. ASSUME NEW i \in 1..n PROVE score(i) \in Int
    BY <1>1, <2>2
  <2>5. ASSUME NEW i \in 1..n, NEW j \in 1..n, i < j, r.texts[i] = r.texts[j]
        PROVE  score(i) >= score(j)
    <3>1. bonus(i) \in Int /\ bonus(i) = bonus(j) /\ i \in Int /\ j \in Int
      BY <2>2, <2>3, <2>5
    <3> QED
      BY <1>1, <2>5, <3>1
  <2> HIDE DEF score
  <2> QED
    BY <2>1, <2>4, <2>5
<1>5. IsNeural(c) \/ c.backend \in {"qwen", "dual"} \/ c.backend = "rule"
  BY BackendAssumption DEF Config, IsNeural
<1> QED
  BY <1>2, <1>3, <1>4, <1>5

-----------------------------------------------------------------------------
(* The context.                                                              *)

\* A piece of a sequence.
LEMMA Piece ==
  ASSUME NEW S, NEW s \in Seq(S), NEW i \in Nat \ {0}, NEW j \in Nat, i <= j + 1, j <= Len(s)
  PROVE  /\ SubSeq(s, i, j) \in Seq(S) /\ Len(SubSeq(s, i, j)) = j - i + 1
         /\ \A k \in 1..(j - i + 1) : SubSeq(s, i, j)[k] = s[i + k - 1]
<1>1. i \in Int /\ j \in Int /\ \A k \in i..j : s[k] \in S
  OBVIOUS
<1>2. /\ SubSeq(s, i, j) \in Seq(S)
      /\ Len(SubSeq(s, i, j)) = IF i <= j THEN j - i + 1 ELSE 0
      /\ \A k \in 1..(j - i + 1) : SubSeq(s, i, j)[k] = s[i + k - 1]
  BY <1>1, SubSeqProperties
<1> QED
  BY <1>2

\* The cut of the context to a number of characters.
LEMMA Cuts ==
  ASSUME NEW S, NEW s \in Seq(S), NEW max \in Nat
  PROVE  /\ AtMostLast(s, max) \in Seq(S) /\ AtMostFirst(s, max) \in Seq(S)
         /\ max = 0 => AtMostLast(s, max) = <<>> /\ AtMostFirst(s, max) = <<>>
<1> DEFINE n == Len(s)
           i == IF n > max THEN n - max + 1 ELSE 1
           j == IF n > max THEN max ELSE n
<1>1. /\ i \in Nat \ {0} /\ n \in Nat /\ i <= n + 1 /\ n <= Len(s)
      /\ 1 \in Nat \ {0} /\ j \in Nat /\ 1 <= j + 1 /\ j <= Len(s)
      /\ max = 0 => i = n + 1 /\ j = 0
  OBVIOUS
<1>2. AtMostLast(s, max) = SubSeq(s, i, n) /\ AtMostFirst(s, max) = SubSeq(s, 1, j)
  BY DEF AtMostLast, AtMostFirst
<1> HIDE DEF i, j, n
<1>3. /\ SubSeq(s, i, n) \in Seq(S) /\ Len(SubSeq(s, i, n)) = n - i + 1
      /\ SubSeq(s, 1, j) \in Seq(S) /\ Len(SubSeq(s, 1, j)) = j - 1 + 1
  BY <1>1, Piece
<1>4. ASSUME max = 0 PROVE SubSeq(s, i, n) = <<>> /\ SubSeq(s, 1, j) = <<>>
  <2>1. Len(SubSeq(s, i, n)) = 0 /\ Len(SubSeq(s, 1, j)) = 0
    BY <1>1, <1>3, <1>4
  <2> QED
    BY <1>3, <2>1, EmptySeq
<1> QED
  BY <1>2, <1>3, <1>4

\* Nothing is left of an empty context.
LEMMA NoContext ==
  AfterLastBoundary(<<>>) = <<>> /\ BeforeFirstBoundary(<<>>) = <<>>
<1> DEFINE s == <<>>
           last == Max({0} \cup {i \in 1..Len(s) : s[i] \in Boundaries})
           first == Min({Len(s) + 1} \cup {i \in 1..Len(s) : s[i] \in Boundaries})
<1>1. s \in Seq({}) /\ Len(s) = 0
  OBVIOUS
<1>2. {i \in 1..Len(s) : s[i] \in Boundaries} = {}
  BY <1>1
<1>3. last = 0 /\ first = 1
  <2>1. last = Max({0}) /\ first = Min({1})
    BY <1>1, <1>2
  <2>2. Max({0}) = 0 /\ Min({1}) = 1
    BY DEF Max, Min
  <2> QED
    BY <2>1, <2>2
<1>4. SubSeq(s, 1 + last, Len(s)) = <<>> /\ SubSeq(s, 1, first - 1) = <<>>
  BY <1>1, <1>3, SubSeqEmpty
<1> QED
  BY <1>4 DEF AfterLastBoundary, BeforeFirstBoundary

\* h is all of s up to the first end of a sentence.
LEMMA HeadIsOneSentence ==
  ASSUME NEW S, NEW s \in Seq(S)
  PROVE  LET h == BeforeFirstBoundary(s)
         IN  /\ IsPrefix(h, s) /\ ~Has(h, Boundaries)
             /\ \A p \in Prefixes(s) : ~Has(p, Boundaries) => Len(p) <= Len(h)
<1> DEFINE n == Len(s)
           ends == {n + 1} \cup {i \in 1..n : s[i] \in Boundaries}
           b == Min(ends) - 1
           h == SubSeq(s, 1, b)
<1>1. n \in Nat
  OBVIOUS
<1>2. BeforeFirstBoundary(s) = h
  BY DEF BeforeFirstBoundary
<1>3. ends \subseteq 1..(n + 1) /\ ends \subseteq Nat /\ ends # {}
  BY <1>1
<1>4. Min(ends) \in ends /\ \A i \in ends : Min(ends) <= i
  BY <1>3, LeastNumber
<1>5. b \in 0..n /\ (b < n => s[b + 1] \in Boundaries)
  BY <1>1, <1>3, <1>4
<1>6. \A i \in 1..b : s[i] \notin Boundaries
  BY <1>1, <1>3, <1>4
<1> HIDE DEF b
<1>7. Len(h) = b /\ \A k \in 1..b : h[k] = s[k]
  <2>1. 1 \in Nat \ {0} /\ b \in Nat /\ 1 <= b + 1 /\ b <= Len(s)
    BY <1>1, <1>5
  <2>2. Len(SubSeq(s, 1, b)) = b - 1 + 1 /\ \A k \in 1..(b - 1 + 1) : SubSeq(s, 1, b)[k] = s[1 + k - 1]
    BY <2>1, Piece
  <2> QED
    BY <2>1, <2>2
<1>8. IsPrefix(h, s)
  BY <1>1, <1>5, <1>7 DEF IsPrefix
<1>9. ~Has(h, Boundaries)
  BY <1>6, <1>7 DEF Has
<1>10. ASSUME NEW p \in Prefixes(s), ~Has(p, Boundaries) PROVE Len(p) <= b
  <2>1. PICK l \in 0..n : p = SubSeq(s, 1, l)
    BY DEF Prefixes
  <2>2. Len(p) = l /\ \A k \in 1..l : p[k] = s[k]
    <3>1. 1 \in Nat \ {0} /\ l \in Nat /\ 1 <= l + 1 /\ l <= Len(s)
      BY <1>1
    <3>2. Len(SubSeq(s, 1, l)) = l - 1 + 1 /\ \A k \in 1..(l - 1 + 1) : SubSeq(s, 1, l)[k] = s[1 + k - 1]
      BY <3>1, Piece
    <3> QED
      BY <2>1, <3>1, <3>2
  <2>3. ASSUME b < l PROVE FALSE
    <3>1. b + 1 \in 1..l /\ b < n
      BY <1>1, <1>5, <2>3
    <3> QED
      BY <1>5, <1>10, <2>2, <3>1 DEF Has
  <2> QED
    BY <1>1, <1>5, <2>2, <2>3
<1> QED
  BY <1>2, <1>7, <1>8, <1>9, <1>10

\* The end of s after its last end of a sentence.
LEMMA TailIsOneSentence ==
  ASSUME NEW S, NEW s \in Seq(S)
  PROVE  LET t == AfterLastBoundary(s)
         IN  /\ IsSuffix(t, s) /\ ~Has(t, Boundaries)
             /\ \A p \in Suffixes(s) : ~Has(p, Boundaries) => Len(p) <= Len(t)
<1> DEFINE n == Len(s)
           ends == {0} \cup {i \in 1..n : s[i] \in Boundaries}
           b == Max(ends)
           t == SubSeq(s, 1 + b, n)
           m == n - b
<1>1. n \in Nat
  OBVIOUS
<1>2. AfterLastBoundary(s) = t
  BY DEF AfterLastBoundary
<1>3. ends \subseteq 0..n /\ ends # {}
  OBVIOUS
<1>4. b \in ends /\ \A i \in ends : i <= b
  BY <1>1, <1>3, GreatestNumber
<1>5. b \in 0..n /\ (b > 0 => s[b] \in Boundaries)
  BY <1>1, <1>3, <1>4
<1>6. \A i \in (b + 1)..n : s[i] \notin Boundaries
  BY <1>1, <1>4, <1>5
<1> HIDE DEF b
<1>7. t \in Seq(S) /\ Len(t) = m /\ m \in 0..n /\ \A k \in 1..m : t[k] = s[b + k]
  <2> DEFINE i == 1 + b
  <2>1. i \in Nat \ {0} /\ n \in Nat /\ i <= n + 1 /\ n <= Len(s)
    BY <1>1, <1>5
  <2> HIDE DEF i
  <2>2. /\ SubSeq(s, i, n) \in Seq(S) /\ Len(SubSeq(s, i, n)) = n - i + 1
        /\ \A k \in 1..(n - i + 1) : SubSeq(s, i, n)[k] = s[i + k - 1]
    BY <2>1, Piece
  <2>3. n - i + 1 = m /\ m \in 0..n /\ \A k \in 1..m : i + k - 1 = b + k
    BY <1>1, <1>5 DEF i
  <2>4. t = SubSeq(s, i, n)
    BY DEF i
  <2> HIDE DEF t, m
  <2> QED
    BY <2>2, <2>3, <2>4
<1> HIDE DEF t
<1>8. IsSuffix(t, s)
  <2> DEFINE r == Reverse(t)
             q == Reverse(s)
  <2>1. /\ r = [i \in 1..m |-> t[(m - i) + 1]]
        /\ q = [i \in 1..n |-> s[(n - i) + 1]]
    BY <1>7 DEF Reverse
  <2>2. /\ r \in Seq(S) /\ Len(r) = m /\ q \in Seq(S) /\ Len(q) = n
    <3>1. \A i \in 1..m : t[(m - i) + 1] \in S
      BY <1>7
    <3>2. \A i \in 1..n : s[(n - i) + 1] \in S
      BY <1>1
    <3>3. r \in [1..m -> S] /\ q \in [1..n -> S] /\ m \in Nat
      BY <1>1, <1>5, <2>1, <3>1, <3>2
    <3> HIDE DEF r, q, m
    <3>4. r \in Seq(S) /\ Len(r) = m
      BY <3>3, FunctionIsSequence
    <3>5. n \in Nat
      BY <1>1
    <3>6. q \in Seq(S) /\ Len(q) = n
      BY <3>3, <3>5, FunctionIsSequence
    <3> QED
      BY <3>4, <3>6
  <2>3. ASSUME NEW i \in 1..m PROVE r[i] = q[i]
    <3>1. i \in 1..n /\ (m - i) + 1 \in 1..m /\ b + ((m - i) + 1) = (n - i) + 1
      BY <1>1, <1>5
    <3> QED
      BY <1>7, <2>1, <3>1
  <2> HIDE DEF r, q, m
  <2>4. SubSeq(r, 1, m) = SubSeq(q, 1, m)
    BY <1>7, <2>2, <2>3
  <2> QED
    BY <1>7, <2>2, <2>4 DEF IsSuffix, IsPrefix, r, q
<1>9. ~Has(t, Boundaries)
  <2>1. \A k \in 1..m : b + k \in (b + 1)..n
    BY <1>1, <1>5
  <2> QED
    BY <1>6, <1>7, <2>1 DEF Has
<1>10. ASSUME NEW p \in Suffixes(s), ~Has(p, Boundaries) PROVE Len(p) <= m
  <2>1. CASE p = <<>>
    BY <1>1, <1>5, <2>1
  <2>2. CASE p # <<>>
    <3>1. PICK l \in 1..n : p = SubSeq(s, l, n)
      BY <2>2 DEF Suffixes
    <3>2. l \in Nat \ {0} /\ n \in Nat /\ l <= n + 1 /\ n <= Len(s)
      BY <1>1
    <3>3. Len(p) = n - l + 1 /\ \A k \in 1..(n - l + 1) : p[k] = s[l + k - 1]
      BY <3>1, <3>2, Piece
    <3>4. ASSUME l <= b PROVE FALSE
      <4>1. b - l + 1 \in 1..(n - l + 1) /\ l + (b - l + 1) - 1 = b /\ b > 0
        BY <1>1, <1>5, <3>2, <3>4
      <4>2. p[b - l + 1] \in Boundaries
        BY <1>5, <3>3, <4>1
      <4> QED
        BY <1>10, <3>3, <4>1, <4>2 DEF Has
    <3> QED
      BY <1>1, <1>5, <3>2, <3>3, <3>4
  <2> QED
    BY <2>1, <2>2
<1> QED
  BY <1>2, <1>7, <1>8, <1>9, <1>10

-----------------------------------------------------------------------------
(* The gate.                                                                 *)

\* answer has each of n candidates once, and a candidate is behind another one
\* only if it goes behind it by the scores, or if that one is Mozc's first.
IsGated(result, score, n) ==
  /\ result \in Bijection(1..n, 1..n)
  /\ \A k, l \in 1..n : k < l => result[k] = 1 \/ Before(score, result[k], result[l])

\* A sorted list is one.
LEMMA SortedIsGated ==
  ASSUME NEW n \in Nat, NEW score \in [1..n -> Int], NEW perm, IsSortedBy(perm, score, n)
  PROVE  IsGated(perm, score, n)
<1>1. perm \in Bijection(1..n, 1..n)
  BY SortedIsBijection
<1> QED
  BY <1>1 DEF IsGated, IsSortedBy

\* So is a sorted list with Mozc's first candidate moved to the front.
LEMMA FrontedIsGated ==
  ASSUME NEW n \in Nat, n >= 1, NEW score \in [1..n -> Int], NEW perm,
         IsSortedBy(perm, score, n)
  PROVE  IsGated(<<1>> \o Kept(perm, (1..n) \ {1}), score, n)
<1> DEFINE T == (1..n) \ {1}
           K == Kept(perm, T)
           h == Len(K)
           result == <<1>> \o K
<1>1. /\ perm \in Seq(1..n) /\ Len(perm) = n /\ perm \in [1..n -> 1..n]
      /\ \A i \in 1..n : \E k \in 1..n : perm[k] = i
      /\ \A k, l \in 1..n : k < l <=> Before(score, perm[k], perm[l])
      /\ \A k, l \in 1..n : perm[k] = perm[l] => k = l
  <2>1. perm \in Bijection(1..n, 1..n)
    BY SortedIsBijection
  <2> QED
    <3>1. perm \in [1..n -> 1..n] /\ \A k, l \in 1..n : perm[k] = perm[l] => k = l
      BY <2>1 DEF Bijection, Injection, IsInjective
    <3>2. perm \in Seq(1..n) /\ Len(perm) = n
      BY <3>1, FunctionIsSequence
    <3> QED
      BY <3>1, <3>2 DEF IsSortedBy
<1>2. K \in Seq(1..n) /\ \E from : IsKept(from, K, perm, T)
  BY <1>1, KeptFacts
<1>3. PICK from : IsKept(from, K, perm, T)
  BY <1>2
<1>11. h = Len(K) /\ h \in Nat
  BY <1>2
<1> HIDE DEF K, h
<1>4. /\ from \in [1..h -> 1..n] /\ h \in Nat
      /\ \A k \in 1..h : K[k] = perm[from[k]] /\ K[k] \in T
      /\ \A k, l \in 1..h : k < l <=> from[k] < from[l]
      /\ \A i \in 1..n : perm[i] \in T => \E k \in 1..h : from[k] = i
  BY <1>1, <1>3, <1>11 DEF IsKept
<1>5. /\ result \in Seq(1..n) /\ Len(result) = 1 + h /\ result[1] = 1
      /\ \A k \in 2..(1 + h) : result[k] = K[k - 1]
  <2> DEFINE e == <<1>>
  <2>1. e \in Seq(1..n) /\ Len(e) = 1 /\ e[1] = 1
    OBVIOUS
  <2> HIDE DEF e
  <2>2. /\ e \o K \in Seq(1..n) /\ Len(e \o K) = Len(e) + Len(K)
        /\ \A k \in 1..Len(e) + Len(K) : (e \o K)[k] = IF k <= Len(e) THEN e[k] ELSE K[k - Len(e)]
    BY <1>2, <2>1, ConcatProperties
  <2>3. /\ e \o K \in Seq(1..n) /\ Len(e \o K) = 1 + h
        /\ \A k \in 1..(1 + h) : (e \o K)[k] = IF k <= 1 THEN e[k] ELSE K[k - 1]
    BY <2>1, <2>2 DEF h
  <2>4. 1 \in 1..(1 + h) /\ \A k \in 2..(1 + h) : k \in 1..(1 + h) /\ ~(k <= 1)
    BY <1>4
  <2> QED
    BY <2>1, <2>3, <2>4 DEF e
<1> HIDE DEF result
<1>6. ASSUME NEW k \in 1..(1 + h), NEW l \in 1..(1 + h), k < l
      PROVE  result[k] # result[l] /\ (result[k] = 1 \/ Before(score, result[k], result[l]))
  <2>1. l \in 2..(1 + h) /\ l - 1 \in 1..h
    BY <1>4, <1>6
  <2>2. result[l] = K[l - 1] /\ result[l] \in T
    BY <1>4, <1>5, <2>1
  <2>3. CASE k = 1
    BY <1>5, <2>2, <2>3
  <2>4. CASE k # 1
    <3>1. k \in 2..(1 + h) /\ k - 1 \in 1..h /\ k - 1 < l - 1
      BY <1>4, <1>6, <2>4
    <3>2. from[k - 1] < from[l - 1] /\ from[k - 1] \in 1..n /\ from[l - 1] \in 1..n
      BY <1>4, <2>1, <3>1
    <3>3. result[k] = perm[from[k - 1]] /\ result[l] = perm[from[l - 1]]
      BY <1>4, <1>5, <2>1, <3>1
    <3>4. from[k - 1] # from[l - 1]
      BY <3>2
    <3>5. perm[from[k - 1]] # perm[from[l - 1]]
      BY <1>1, <3>2, <3>4
    <3>6. Before(score, perm[from[k - 1]], perm[from[l - 1]])
      BY <1>1, <3>2
    <3> QED
      BY <3>3, <3>5, <3>6
  <2> QED
    BY <2>3, <2>4
<1>7. ASSUME NEW i \in 1..n PROVE \E k \in 1..(1 + h) : result[k] = i
  <2>1. CASE i = 1
    <3>1. 1 \in 1..(1 + h)
      BY <1>4
    <3> QED
      BY <1>5, <2>1, <3>1
  <2>2. CASE i # 1
    <3>1. PICK u \in 1..n : perm[u] = i
      BY <1>1
    <3>2. PICK k \in 1..h : from[k] = u
      BY <1>4, <2>2, <3>1
    <3>3. k + 1 \in 2..(1 + h) /\ k + 1 \in 1..(1 + h) /\ (k + 1) - 1 = k
      BY <1>4
    <3>4. K[k] = i
      BY <1>4, <3>1, <3>2
    <3>5. result[k + 1] = K[(k + 1) - 1]
      BY <1>5, <3>3
    <3>6. result[k + 1] = i
      BY <3>3, <3>4, <3>5
    <3> QED
      BY <3>3, <3>6
  <2> QED
    BY <2>1, <2>2
<1>8. result \in Bijection(1..(1 + h), 1..n)
  <2>1. result \in [1..(1 + h) -> 1..n]
    BY <1>5
  <2>2. ASSUME NEW k \in 1..(1 + h), NEW l \in 1..(1 + h), result[k] = result[l] PROVE k = l
    <3>1. ~(k < l) /\ ~(l < k)
      BY <1>6, <2>2
    <3> QED
      BY <1>4, <3>1
  <2> QED
    BY <1>7, <2>1, <2>2 DEF Bijection, Injection, Surjection, IsInjective
<1>9. 1 + h = n
  <2>1. /\ IsFiniteSet(1..(1 + h)) /\ Cardinality(1..(1 + h)) = 1 + h
        /\ Cardinality(1..n) = n
    <3> DEFINE g == 1 + h
    <3>1. 1 \in Int /\ n \in Int /\ g \in Int /\ g >= 1
      BY <1>4
    <3> HIDE DEF g
    <3>2. /\ IsFiniteSet(1..g)
          /\ Cardinality(1..g) = IF 1 > g THEN 0 ELSE g - 1 + 1
          /\ Cardinality(1..n) = IF 1 > n THEN 0 ELSE n - 1 + 1
      BY <3>1, FS_Interval
    <3>3. IsFiniteSet(1..g) /\ Cardinality(1..g) = g /\ Cardinality(1..n) = n
      BY <3>1, <3>2
    <3> QED
      BY <3>3 DEF g
  <2>2. Cardinality(1..(1 + h)) = Cardinality(1..n)
    BY <1>8, <2>1, FS_Bijection DEF ExistsBijection
  <2> QED
    BY <2>1, <2>2
<1>10. IsGated(result, score, n)
  BY <1>6, <1>8, <1>9 DEF IsGated
<1> QED
  BY <1>10 DEF result, K

\* What a backend returns of its sorted candidates is one, too.
LEMMA DecidedIsGated ==
  ASSUME NEW c \in Configs, NEW r \in Requests, NEW m \in Models
  PROVE  LET score == Scores(c, r, m)
         IN  IsGated(Decided(c, r, m, Sorted(score)), score, Len(r.texts))
<1> DEFINE n == Len(r.texts)
           score == Scores(c, r, m)
           perm == Sorted(score)
           ev == Evidence(c, r, m)
<1>1. n \in Nat /\ n >= 1 /\ score \in [1..n -> Int]
  BY RequestFacts, ScoresFacts
<1>2. DOMAIN ev = 1..n
  BY EvidenceFacts
<1>3. \/ Decided(c, r, m, perm) = perm
      \/ Decided(c, r, m, perm) = <<1>> \o Kept(perm, (1..n) \ {1})
  BY <1>2 DEF Decided, Gate
<1> HIDE DEF n, score, ev
<1>4. IsSortedBy(perm, score, n)
  BY <1>1, SortedFacts
<1> HIDE DEF perm
<1>5. IsGated(perm, score, n)
  BY <1>1, <1>4, SortedIsGated
<1>6. IsGated(<<1>> \o Kept(perm, (1..n) \ {1}), score, n)
  BY <1>1, <1>4, FrontedIsGated
<1>7. IsGated(Decided(c, r, m, perm), score, n)
  BY <1>3, <1>5, <1>6
<1> QED
  BY <1>7 DEF n, score, perm

\* If Mozc's first candidate does not come first, one of the gate's branches
\* is open and the sorted list is returned.
LEMMA GateOpens ==
  ASSUME NEW n \in Nat, NEW ev \in [1..n -> Int], NEW ranked \in [1..n -> 1..n],
         n >= 1, NEW texts, NEW reading, NEW context,
         Gate(ranked, ev, texts, reading, context)[1] # 1
  PROVE  /\ Gate(ranked, ev, texts, reading, context) = ranked /\ ranked[1] # 1
         /\ Structural(Case(ranked, ev, texts, reading, context))
         /\ Overrides(Case(ranked, ev, texts, reading, context))
<1> DEFINE c == Case(ranked, ev, texts, reading, context)
           K == Kept(ranked, DOMAIN ev \ {1})
<1>1. ranked \in Seq(1..n) /\ 1 \in 1..n
  <2>1. ranked \in Seq(1..n)
    BY FunctionIsSequence
  <2>2. 1 \in 1..n
    OBVIOUS
  <2> QED
    BY <2>1, <2>2
<1>2. (<<1>> \o K)[1] = 1
  <2>1. K \in Seq(1..n)
    BY <1>1, KeptFacts
  <2> HIDE DEF K
  <2> DEFINE e == <<1>>
  <2>2. e \in Seq(1..n) /\ Len(e) = 1 /\ e[1] = 1
    BY <1>1
  <2> HIDE DEF e
  <2>3. /\ e \o K \in Seq(1..n) /\ Len(e \o K) = Len(e) + Len(K)
        /\ \A k \in 1..Len(e) + Len(K) : (e \o K)[k] = IF k <= Len(e) THEN e[k] ELSE K[k - Len(e)]
    BY <2>1, <2>2, ConcatProperties
  <2>4. 1 \in 1..Len(e) + Len(K) /\ 1 <= Len(e)
    BY <2>1, <2>2
  <2>5. (e \o K)[1] = 1
    BY <2>2, <2>3, <2>4
  <2> QED
    BY <2>5 DEF e
<1> HIDE DEF K
<1>3. Gate(ranked, ev, texts, reading, context) =
        IF ranked[1] = 1 \/ (Structural(c) /\ Overrides(c)) THEN ranked ELSE <<1>> \o K
  BY DEF Gate, K
<1> HIDE DEF c
<1>4. Gate(ranked, ev, texts, reading, context) = ranked /\ ranked[1] # 1 /\ Structural(c) /\ Overrides(c)
  BY <1>2, <1>3
<1> QED
  BY <1>4 DEF c

\* Of the leads the branches ask for, none is below the least.
LEMMA LeadsCompared ==
  ASSUME NEW d \in Int, NEW m \in Int, m <= d
  PROVE  /\ m >= Hundredths(75) => d >= Hundredths(75)
         /\ d >= Hundredths(180) => d >= Hundredths(75)
         /\ d >= Hundredths(75) => d >= Hundredths(35)
         /\ d >= Hundredths(55) => d >= Hundredths(35)
BY HundredthsFacts

\* What the gate lets past Mozc's first candidate has the evidence that every
\* one of its branches asks for.
LEMMA GateAsksForEvidence ==
  ASSUME NEW n \in Nat, NEW ev \in [1..n -> Int], NEW perm \in [1..n -> 1..n],
         n >= 1, NEW texts, NEW reading, NEW context,
         Gate(perm, ev, texts, reading, context)[1] # 1
  PROVE  LET top == Gate(perm, ev, texts, reading, context)[1]
         IN  /\ top = perm[1]
             /\ ev[top] - ev[1] >= IF SurfaceType(texts[top], reading) = "passthrough"
                                   THEN Hundredths(75) ELSE Hundredths(35)
<1> DEFINE c == Case(perm, ev, texts, reading, context)
           top == perm[1]
           others == DOMAIN ev \ {top}
<1>1. top \in 1..n /\ 1 \in 1..n
  <2>1. 1 \in 1..n
    OBVIOUS
  <2> QED
    BY <2>1
<1>3. /\ Gate(perm, ev, texts, reading, context) = perm
      /\ Structural(c) /\ Overrides(c) /\ top # 1
  <2>1. /\ Gate(perm, ev, texts, reading, context) = perm /\ perm[1] # 1
        /\ Structural(Case(perm, ev, texts, reading, context))
        /\ Overrides(Case(perm, ev, texts, reading, context))
    BY GateOpens
  <2> QED
    BY <2>1
<1>4. /\ c.delta = ev[top] - ev[1] /\ c.margin = ev[top] - Best(ev, others)
      /\ c.type = SurfaceType(texts[top], reading)
      /\ c.numeric => c.type = "numeric"
  BY DEF Case
<1>5. c.delta \in Int /\ c.margin \in Int /\ c.margin <= c.delta
  <2>1. others \subseteq 1..n /\ 1 \in others
    BY <1>1, <1>3
  <2>2. Best(ev, others) \in Int /\ ev[1] <= Best(ev, others)
    BY <2>1, BestIsOne
  <2>3. ev[top] \in Int /\ ev[1] \in Int
    BY <1>1
  <2> QED
    <3> DEFINE d == c.delta
               mm == c.margin
               b == Best(ev, others)
    <3>1. d = ev[top] - ev[1] /\ mm = ev[top] - b
      BY <1>4
    <3> HIDE DEF d, mm, b, top
    <3>2. \A x, y, z \in Int : y <= z => x - y \in Int /\ x - z \in Int /\ x - z <= x - y
      OBVIOUS
    <3>3. ev[top] \in Int /\ ev[1] \in Int /\ b \in Int /\ ev[1] <= b
      BY <2>2, <2>3 DEF b
    <3>4. d \in Int /\ mm \in Int /\ mm <= d
      BY <3>1, <3>2, <3>3
    <3> QED
      BY <3>4 DEF d, mm
<1> HIDE DEF c
<1>6. c.delta >= IF c.type = "passthrough" THEN Hundredths(75) ELSE Hundredths(35)
  <2> DEFINE d == c.delta
             margin == c.margin
             needed == NeededDelta(c)
             least == IF c.type = "passthrough" THEN Hundredths(75) ELSE Hundredths(35)
  <2>1. /\ needed \in {Hundredths(180), Hundredths(55)} /\ least \in {Hundredths(75), Hundredths(35)}
        /\ c.type = "passthrough" => needed = Hundredths(180)
        /\ c.type # "passthrough" => least = Hundredths(35)
    BY DEF NeededDelta
  <2>2. d \in Int /\ margin \in Int /\ margin <= d
    BY <1>5
  <2>3. \/ c.high /\ margin >= Hundredths(75)
        \/ d >= needed
        \/ d >= Hundredths(180)
        \/ c.numeric /\ d >= Hundredths(35)
        \/ d >= Hundredths(35) /\ c.type \notin {"passthrough", "kana"}
    BY <1>3 DEF Overrides
  <2>4. c.numeric => c.type # "passthrough"
    BY <1>4
  <2> HIDE DEF d, margin, needed, least
  <2>5. /\ d >= needed => d >= Hundredths(180) \/ d >= Hundredths(55)
        /\ margin >= Hundredths(75) => d >= Hundredths(75)
        /\ d >= Hundredths(180) => d >= Hundredths(75)
        /\ d >= Hundredths(75) => d >= Hundredths(35)
        /\ d >= Hundredths(55) => d >= Hundredths(35)
    <3>1. /\ margin >= Hundredths(75) => d >= Hundredths(75)
          /\ d >= Hundredths(180) => d >= Hundredths(75)
          /\ d >= Hundredths(75) => d >= Hundredths(35)
          /\ d >= Hundredths(55) => d >= Hundredths(35)
      BY <2>2, LeadsCompared
    <3>2. d >= needed => d >= Hundredths(180) \/ d >= Hundredths(55)
      <4>1. needed = Hundredths(180) \/ needed = Hundredths(55)
        BY <2>1
      <4> QED
        BY <4>1, Zenon
    <3> QED
      BY <3>1, <3>2, Zenon
  <2>6. ASSUME c.type = "passthrough" PROVE d >= least
    <3>1. needed = Hundredths(180) /\ ~c.numeric
      BY <2>1, <2>4, <2>6
    <3>2. d >= Hundredths(75)
      BY <2>3, <2>5, <2>6, <3>1
    <3>3. least = Hundredths(75)
      BY <2>6 DEF least
    <3> QED
      BY <3>2, <3>3
  <2>7. ASSUME c.type # "passthrough" PROVE d >= least
    <3>1. least = Hundredths(35)
      BY <2>1, <2>7
    <3>2. d >= Hundredths(75) \/ d >= needed \/ d >= Hundredths(180) \/ d >= Hundredths(35)
      BY <2>3, <2>5
    <3>3. d >= Hundredths(35)
      BY <2>5, <3>2, Zenon
    <3> QED
      BY <3>1, <3>3
  <2>8. d >= least
    BY <2>6, <2>7
  <2> QED
    BY <2>8 DEF d, least
<1> QED
  BY <1>3, <1>4, <1>6

-----------------------------------------------------------------------------
(* More evidence for the best candidate.                                     *)

\* The exponential function of the code has a value for every difference of
\* scores; the tables that TLC evaluates end somewhere.
ExpIsTotal == Nat \subseteq DOMAIN Exp

Raised(ev, top, more) == [ev EXCEPT ![top] = @ + more]

\* The gate does not become less sure of a candidate that gains evidence.
LEMMA ConfidenceGrows ==
  ASSUME ExpIsTotal, NEW n \in Nat, NEW ev \in [1..n -> Int], NEW top \in 1..n,
         NEW more \in Nat, NEW percent \in {80, 35}, Confident(ev, top, percent)
  PROVE  Confident(Raised(ev, top, more), top, percent)
<1> DEFINE ev2 == Raised(ev, top, more)
           b == Best(ev, 1..n)
           b2 == Best(ev2, 1..n)
           w == [j \in 1..n |-> Exp[b - ev[j]]]
           w2 == [j \in 1..n |-> Exp[b2 - ev2[j]]]
<1>1. /\ ev2 \in [1..n -> Int] /\ ev2[top] = ev[top] + more
      /\ \A j \in 1..n : j # top => ev2[j] = ev[j]
  BY DEF Raised
<1>2. \A x, y \in Nat : Exp[x] \in Nat /\ (x <= y => Exp[y] <= Exp[x])
  BY ScoringAssumption DEF ExpIsTotal
<1> HIDE DEF ev2
<1>3. /\ b \in Int /\ \A j \in 1..n : ev[j] <= b
      /\ b2 \in Int /\ \A j \in 1..n : ev2[j] <= b2
      /\ \E i \in 1..n : b = ev[i]
      /\ \E i \in 1..n : b2 = ev2[i]
  <2> DEFINE S == 1..n
  <2>1. S \subseteq 1..n /\ S # {}
    OBVIOUS
  <2> HIDE DEF S
  <2>2. /\ \E i \in S : Best(ev, S) = ev[i]
        /\ Best(ev, S) \in Int /\ \A j \in S : ev[j] <= Best(ev, S)
    BY <2>1, BestIsOne
  <2>3. /\ \E i \in S : Best(ev2, S) = ev2[i]
        /\ Best(ev2, S) \in Int /\ \A j \in S : ev2[j] <= Best(ev2, S)
    BY <1>1, <2>1, BestIsOne
  <2> QED
    BY <2>2, <2>3 DEF S
<1> HIDE DEF b, b2
<1>4. b <= b2
  <2>1. PICK i \in 1..n : b = ev[i]
    BY <1>3
  <2>2. ev[i] \in Int /\ ev2[i] \in Int /\ ev[i] <= ev2[i]
    BY <1>1
  <2> QED
    BY <1>3, <2>1, <2>2
<1>5. b2 - ev2[top] <= b - ev[top]
  <2>1. PICK i \in 1..n : b2 = ev2[i]
    BY <1>3
  <2>2. ev[top] \in Int /\ ev[top] <= b
    BY <1>3
  <2>3. ev2[top] \in Int /\ ev[top] <= ev2[top]
    <3>1. \A x \in Int : x + more \in Int /\ x <= x + more
      OBVIOUS
    <3> QED
      BY <1>1, <2>2, <3>1
  <2>4. CASE i = top
    <3>1. \A x, y, z \in Int : x <= y => z - z <= y - x
      OBVIOUS
    <3> QED
      BY <1>3, <2>1, <2>2, <2>3, <2>4, <3>1
  <2>5. CASE i # top
    <3>1. b2 <= b
      BY <1>1, <1>3, <2>1, <2>5
    <3>2. \A u, v, y, z \in Int : u <= v /\ y <= z => u - z <= v - y
      OBVIOUS
    <3> QED
      BY <1>3, <2>2, <2>3, <3>1, <3>2
  <2> QED
    BY <2>4, <2>5
<1>6. ASSUME NEW j \in 1..n PROVE b - ev[j] \in Nat /\ b2 - ev2[j] \in Nat
  <2>1. ev[j] \in Int /\ ev2[j] \in Int /\ ev[j] <= b /\ ev2[j] <= b2
    BY <1>1, <1>3
  <2>2. \A x, y \in Int : x <= y => y - x \in Nat
    OBVIOUS
  <2> QED
    BY <1>3, <2>1, <2>2
<1>7. w \in [1..n -> Nat] /\ w2 \in [1..n -> Nat]
  BY <1>2, <1>6
<1>8. w2[top] >= w[top]
  <2>1. b - ev[top] \in Nat /\ b2 - ev2[top] \in Nat
    BY <1>6
  <2>2. Exp[b - ev[top]] <= Exp[b2 - ev2[top]] /\ Exp[b - ev[top]] \in Nat
        /\ Exp[b2 - ev2[top]] \in Nat
    BY <1>2, <1>5, <2>1
  <2> QED
    BY <2>2
<1>9. ASSUME NEW j \in 1..n, j # top PROVE w2[j] <= w[j]
  <2>1. b - ev[j] \in Nat /\ b2 - ev2[j] \in Nat /\ ev2[j] = ev[j] /\ ev[j] \in Int
    BY <1>1, <1>6, <1>9
  <2>2. \A x, y, z \in Int : x <= y => x - z <= y - z
    OBVIOUS
  <2>3. b - ev[j] <= b2 - ev2[j]
    BY <1>3, <1>4, <2>1, <2>2
  <2>4. Exp[b2 - ev2[j]] <= Exp[b - ev[j]]
    BY <1>2, <2>1, <2>3
  <2> QED
    BY <2>4
<1>10. /\ Confident(ev, top, percent) <=> 100 * w[top] >= percent * Total(w)
       /\ Confident(ev2, top, percent) <=> 100 * w2[top] >= percent * Total(w2)
  <2>1. DOMAIN ev = 1..n /\ DOMAIN ev2 = 1..n
    BY <1>1
  <2> QED
    BY <2>1 DEF Confident, b, b2
<1> HIDE DEF w, w2
<1>11. /\ Total(w) \in Int /\ Total(w2) \in Int
       /\ Total(w2) - Total(w) <= w2[top] - w[top]
  <2>1. w \in [1..n -> Int] /\ w2 \in [1..n -> Int]
    BY <1>7
  <2> QED
    BY <1>8, <1>9, <2>1, TotalGrows
<1>12. w[top] \in Nat /\ w2[top] \in Nat
  BY <1>7
<1> DEFINE x == w[top]
           y == w2[top]
           s == Total(w)
           t == Total(w2)
<1>13. x \in Nat /\ y \in Nat /\ s \in Int /\ t \in Int /\ t - s <= y - x /\ y >= x
  BY <1>8, <1>11, <1>12
<1> HIDE DEF x, y, s, t
<1>14. 100 * x >= percent * s => 100 * y >= percent * t
  <2>1. CASE percent = 80
    BY <1>13, <2>1
  <2>2. CASE percent = 35
    BY <1>13, <2>2
  <2> QED
    BY <2>1, <2>2
<1> QED
  BY <1>10, <1>14 DEF x, y, s, t, ev2

\* c has what b has, and as much evidence or more.
IsStronger(c, b) ==
  /\ b.delta \in Int /\ c.delta \in Int /\ b.delta <= c.delta
  /\ b.margin \in Int /\ c.margin \in Int /\ b.margin <= c.margin
  /\ b.high => c.high
  /\ b.medium => c.medium
  /\ c.type = b.type /\ c.numeric = b.numeric /\ c.frame = b.frame
  /\ c.external = b.external /\ c.internal = b.internal

LEMMA OverridesStays ==
  ASSUME NEW b, NEW c, IsStronger(c, b), Overrides(b)
  PROVE  Overrides(c)
<1>1. /\ NeededDelta(b) \in Int /\ NeededDelta(c) = NeededDelta(b)
      /\ NeededMargin(b) \in Int /\ NeededMargin(c) = NeededMargin(b)
  BY HundredthsFacts DEF IsStronger, NeededDelta, NeededMargin
<1> DEFINE d == b.delta
           e == c.delta
           p == b.margin
           q == c.margin
           nd == NeededDelta(b)
           nm == NeededMargin(b)
<1>2. d \in Int /\ e \in Int /\ d <= e /\ p \in Int /\ q \in Int /\ p <= q /\ nd \in Int /\ nm \in Int
  BY <1>1 DEF IsStronger
<1>3. \/ b.high /\ p >= Hundredths(75)
      \/ d >= nd /\ p >= nm
      \/ b.medium /\ d >= Hundredths(180) /\ p >= nm
      \/ b.numeric /\ d >= Hundredths(35)
      \/ /\ b.frame >= Hundredths(250) /\ d >= Hundredths(35) /\ p >= Hundredths(-25)
         /\ b.type \notin {"passthrough", "kana"}
  BY DEF Overrides
<1> HIDE DEF d, e, p, q, nd, nm
<1>4. /\ p >= Hundredths(75) => q >= Hundredths(75)
      /\ p >= Hundredths(-25) => q >= Hundredths(-25)
      /\ p >= nm => q >= nm
      /\ d >= nd => e >= nd
      /\ d >= Hundredths(180) => e >= Hundredths(180)
      /\ d >= Hundredths(35) => e >= Hundredths(35)
  BY <1>2, HundredthsFacts
<1>5. \/ c.high /\ q >= Hundredths(75)
      \/ e >= nd /\ q >= nm
      \/ c.medium /\ e >= Hundredths(180) /\ q >= nm
      \/ c.numeric /\ e >= Hundredths(35)
      \/ /\ c.frame >= Hundredths(250) /\ e >= Hundredths(35) /\ q >= Hundredths(-25)
         /\ c.type \notin {"passthrough", "kana"}
  BY <1>3, <1>4 DEF IsStronger
<1> QED
  BY <1>1, <1>5 DEF Overrides, e, q, nd, nm

\* Evidence that grows stays a number.
LEMMA SumIsInt == \A x \in Int, y \in Nat : x + y \in Int
OBVIOUS

\* Functions that agree on a set have the same values on it.
LEMMA SameImage ==
  ASSUME NEW S, NEW f, NEW g, \A i \in S : f[i] = g[i]
  PROVE  {f[i] : i \in S} = {g[i] : i \in S}
OBVIOUS

\* What the gate looks at when its best candidate gains evidence.
LEMMA CaseGrows ==
  ASSUME ExpIsTotal, NEW n \in Nat, NEW ev \in [1..n -> Int], NEW ranked \in [1..n -> 1..n],
         NEW texts, NEW reading, NEW context, NEW more \in Nat,
         1 \in 1..n, ranked[1] # 1, \A k \in 2..n : ranked[k] # ranked[1]
  PROVE  IsStronger(Case(ranked, Raised(ev, ranked[1], more), texts, reading, context),
                    Case(ranked, ev, texts, reading, context))
<1> DEFINE top == ranked[1]
           ev2 == Raised(ev, top, more)
           others == (1..n) \ {top}
           b == Case(ranked, ev, texts, reading, context)
           c == Case(ranked, ev2, texts, reading, context)
<1>1. /\ top \in 1..n /\ DOMAIN ev = 1..n /\ DOMAIN ev2 = 1..n
      /\ ev2 \in [1..n -> Int] /\ ev2[top] = ev[top] + more
      /\ \A j \in 1..n : j # top => ev2[j] = ev[j]
  <2>1. top \in 1..n
    OBVIOUS
  <2> HIDE DEF top
  <2>2. ev[top] \in Int /\ more \in Nat
    BY <2>1
  <2>3. ev[top] + more \in Int
    BY <2>2, SumIsInt, Zenon
  <2>4. ev2 = [ev EXCEPT ![top] = ev[top] + more]
    BY DEF Raised
  <2> HIDE DEF ev2
  <2>5. ev2 \in [1..n -> Int]
    BY <2>3, <2>4
  <2>6. DOMAIN ev = 1..n /\ DOMAIN ev2 = 1..n
    BY <2>5
  <2>7. ev2[top] = ev[top] + more
    BY <2>1, <2>4
  <2>8. \A j \in 1..n : j # top => ev2[j] = ev[j]
    BY <2>4
  <2> QED
    BY <2>1, <2>5, <2>6, <2>7, <2>8
<1>2. Len(ranked) = n
  OBVIOUS
<1>3. Confident(ev, top, 80) => Confident(ev2, top, 80)
  BY <1>1, ConfidenceGrows
<1>4. Confident(ev, top, 35) => Confident(ev2, top, 35)
  BY <1>1, ConfidenceGrows
<1> HIDE DEF ev2, top
<1>5. Best(ev2, others) = Best(ev, others)
  <2>1. \A i \in others : ev2[i] = ev[i]
    BY <1>1
  <2> HIDE DEF others
  <2>2. {ev2[i] : i \in others} = {ev[i] : i \in others}
    BY <2>1, SameImage
  <2> QED
    BY <2>2 DEF Best
<1>6. Best(ev, others) \in Int
  <2>1. others \subseteq 1..n /\ others # {}
    BY DEF top
  <2> HIDE DEF others
  <2> QED
    BY <2>1, BestIsOne
<1>7. {k \in 2..Len(ranked) : ev2[ranked[k]] = Best(ev2, others)}
        = {k \in 2..Len(ranked) : ev[ranked[k]] = Best(ev, others)}
  <2>1. ASSUME NEW k \in 2..n PROVE ev2[ranked[k]] = ev[ranked[k]]
    <3>1. k \in 1..n
      OBVIOUS
    <3>2. ranked[k] \in 1..n /\ ranked[k] # top
      BY <3>1, Zenon DEF top
    <3>3. \A j \in 1..n : j # top => ev2[j] = ev[j]
      BY <1>1
    <3> HIDE DEF others, b, c
    <3> QED
      BY <3>2, <3>3, Zenon
  <2> QED
    BY <1>2, <1>5, <2>1
<1>8. /\ b.delta = ev[top] - ev[1] /\ c.delta = ev2[top] - ev2[1]
      /\ b.margin = ev[top] - Best(ev, others) /\ c.margin = ev2[top] - Best(ev2, others)
      /\ b.high = Confident(ev, top, 80) /\ c.high = Confident(ev2, top, 80)
      /\ b.medium = Confident(ev, top, 35) /\ c.medium = Confident(ev2, top, 35)
      /\ c.type = b.type /\ c.frame = b.frame
      /\ c.external = b.external /\ c.internal = b.internal
  BY <1>1 DEF Case, top
<1>9. c.numeric = b.numeric
  <2> DEFINE numeric(runner) == /\ SurfaceType(texts[top], reading) = "numeric"
                                /\ SurfaceType(texts[runner], reading) = "numeric"
                                /\ NumericFamily(texts[top]) = NumericFamily(texts[runner])
             places(e) == {k \in 2..Len(ranked) : e[ranked[k]] = Best(e, others)}
  <2>1. b.numeric = numeric(ranked[Min(places(ev))]) /\ c.numeric = numeric(ranked[Min(places(ev2))])
    BY <1>1 DEF Case, top
  <2>2. places(ev) = places(ev2)
    BY <1>7
  <2> HIDE DEF numeric, places
  <2> QED
    BY <2>1, <2>2
<1> HIDE DEF b, c, others
<1>10. /\ ev[top] \in Int /\ ev[1] \in Int /\ ev2[1] = ev[1]
  BY <1>1 DEF top
<1> DEFINE x == ev[top]
           y == ev[1]
           z == Best(ev, others)
<1>11. /\ x \in Int /\ y \in Int /\ z \in Int
       /\ b.delta = x - y /\ c.delta = (x + more) - y
       /\ b.margin = x - z /\ c.margin = (x + more) - z
  BY <1>1, <1>5, <1>6, <1>8, <1>10
<1> HIDE DEF x, y, z
<1>12. /\ b.delta \in Int /\ c.delta \in Int /\ b.delta <= c.delta
       /\ b.margin \in Int /\ c.margin \in Int /\ b.margin <= c.margin
  <2>1. /\ x - y \in Int /\ (x + more) - y \in Int /\ x - y <= (x + more) - y
        /\ x - z \in Int /\ (x + more) - z \in Int /\ x - z <= (x + more) - z
    BY <1>11
  <2> QED
    BY <1>11, <2>1
<1>13. IsStronger(c, b)
  BY <1>3, <1>4, <1>8, <1>9, <1>12 DEF IsStronger
<1> QED
  BY <1>13 DEF b, c, ev2, top

\* ranked lists n candidates, its first once, and it is not Mozc's first.
IsGateInput(ranked, ev, n) ==
  /\ n \in Nat /\ n >= 1 /\ ev \in [1..n -> Int] /\ ranked \in [1..n -> 1..n]
  /\ ranked[1] # 1 /\ \A k \in 2..n : ranked[k] # ranked[1]

\* Once the gate lets the best candidate pass, more evidence for it does not
\* change that.
LEMMA GateStaysOpen ==
  ASSUME ExpIsTotal, NEW n, NEW ev, NEW ranked, IsGateInput(ranked, ev, n),
         NEW texts, NEW reading, NEW context, NEW more \in Nat,
         Gate(ranked, ev, texts, reading, context)[1] = ranked[1]
  PROVE  Gate(ranked, Raised(ev, ranked[1], more), texts, reading, context)[1] = ranked[1]
<1> DEFINE ev2 == Raised(ev, ranked[1], more)
           b == Case(ranked, ev, texts, reading, context)
           c == Case(ranked, ev2, texts, reading, context)
<1>6. /\ n \in Nat /\ n >= 1 /\ ev \in [1..n -> Int] /\ ranked \in [1..n -> 1..n]
      /\ ranked[1] # 1 /\ \A k \in 2..n : ranked[k] # ranked[1]
  BY DEF IsGateInput
<1>1. Structural(b) /\ Overrides(b)
  <2>1. Gate(ranked, ev, texts, reading, context)[1] # 1
    BY <1>6
  <2>2. /\ Structural(Case(ranked, ev, texts, reading, context))
        /\ Overrides(Case(ranked, ev, texts, reading, context))
    BY <1>6, <2>1, GateOpens
  <2> QED
    BY <2>2
<1>2. IsStronger(c, b)
  <2>1. 1 \in 1..n
    BY <1>6
  <2> QED
    BY <1>6, <2>1, CaseGrows
<1>3. Gate(ranked, ev2, texts, reading, context) =
        IF ranked[1] = 1 \/ (Structural(c) /\ Overrides(c))
        THEN ranked ELSE <<1>> \o Kept(ranked, DOMAIN ev2 \ {1})
  BY DEF Gate
<1> HIDE DEF b, c, ev2
<1>4. Structural(c)
  BY <1>1, <1>2 DEF Structural, IsStronger
<1>5. Overrides(c)
  BY <1>1, <1>2, OverridesStays
<1> QED
  BY <1>3, <1>4, <1>5, <1>6 DEF ev2

-----------------------------------------------------------------------------
(* The steps.                                                                *)

\* What is known while a request is ranked.
Ranking(c, r, m, ranked, returned, place) ==
  /\ place \in {"asked", "scored", "ranked"} => r \in Requests /\ m \in Models
  /\ place \in {"scored", "ranked"} => ranked = Sorted(Scores(c, r, m))
  /\ place = "ranked" => returned = Decided(c, r, m, ranked)

\* What is known of a backend that is loaded.
Loading(c, where, path, place) ==
  /\ c \in Configs
  /\ place \in {"load", "failed", "ready", "asked", "scored", "ranked"}
  /\ where \in {None, "cpu", "gpu"} /\ path \in {None} \cup Files
  /\ place \notin {"load", "failed"} => DeviceIsChosen(c, where)

Inv ==
  /\ Loading(config, device, file, at)
  /\ Ranking(config, request, model, order, answer, at)

\* A model file is found in the list it was looked for in.
LEMMA ResolveType ==
  ASSUME NEW roots, NEW R, roots \in Seq(R), NEW S, NEW files, files \in Seq(S)
  PROVE  Resolve(roots, files) \in {None} \cup ToSet(files)
<1> DEFINE has(r) == {k \in DOMAIN files : files[k] \in roots[r]}
           first == {r \in DOMAIN roots : has(r) # {}}
<1>1. Resolve(roots, files) = IF first = {} THEN None ELSE files[Min(has(Min(first)))]
  BY DEF Resolve
<1>2. first \subseteq Nat /\ \A r : has(r) \subseteq DOMAIN files /\ has(r) \subseteq Nat
  <2>1. DOMAIN files \subseteq Nat /\ DOMAIN roots \subseteq Nat
    OBVIOUS
  <2> QED
    BY <2>1
<1>3. ASSUME first # {} PROVE files[Min(has(Min(first)))] \in ToSet(files)
  <2>1. Min(first) \in first
    BY <1>2, <1>3, LeastNumber
  <2>2. has(Min(first)) # {}
    BY <2>1
  <2>3. Min(has(Min(first))) \in has(Min(first))
    BY <1>2, <2>2, LeastNumber
  <2>4. Min(has(Min(first))) \in DOMAIN files
    BY <1>2, <2>3
  <2> QED
    BY <2>4 DEF ToSet
<1> QED
  BY <1>1, <1>3

\* What torch loads is the file, on the device it is asked for.
LEMMA TorchType ==
  ASSUME NEW path, NEW on, Torch(path, on) # None
  PROVE  Torch(path, on) = [file |-> path, device |-> on]
BY DEF Torch

LEMMA LoadedType ==
  ASSUME config \in Configs, Loaded # None
  PROVE  /\ Loaded.device \in {"cpu", "gpu"} /\ Loaded.file \in {None} \cup Files
         /\ DeviceIsChosen(config, Loaded.device)
<1>1. /\ config.roots \in Seq(SUBSET Files) /\ config.compute \in {"auto", "cpu", "gpu"}
      /\ config.cwd \in SUBSET Files /\ config.argument \in {None, "cpu", "gpu"}
      /\ config.backend \in {"onnx", "ruri", "qwen", "dual", "rule"}
  BY BackendAssumption DEF Config
<1>2. \A files : (\E S : files \in Seq(S)) => Resolve(config.roots, files) \in {None} \cup ToSet(files)
  BY <1>1, ResolveType
<1>3. ToSet(GpuFiles) \subseteq Files /\ ToSet(CpuFiles) \subseteq Files
  <2> DEFINE S == ToSet(GpuFiles) \cup ToSet(CpuFiles)
             both == GpuFiles \o CpuFiles
  <2>1. GpuFiles \in Seq(S) /\ CpuFiles \in Seq(S)
    BY BackendAssumption
  <2> HIDE DEF S
  <2>2. /\ both \in Seq(S) /\ Len(both) = Len(GpuFiles) + Len(CpuFiles)
        /\ \A i \in 1..Len(GpuFiles) + Len(CpuFiles) :
             both[i] = IF i <= Len(GpuFiles) THEN GpuFiles[i] ELSE CpuFiles[i - Len(GpuFiles)]
    BY <2>1, ConcatProperties
  <2>3. /\ DOMAIN GpuFiles = 1..Len(GpuFiles) /\ DOMAIN CpuFiles = 1..Len(CpuFiles)
        /\ Len(GpuFiles) \in Nat /\ Len(CpuFiles) \in Nat
        /\ DOMAIN both = 1..Len(GpuFiles) + Len(CpuFiles)
    BY <2>1, <2>2
  <2> HIDE DEF both
  <2>4. ASSUME NEW i \in DOMAIN GpuFiles PROVE GpuFiles[i] \in ToSet(both)
    <3>1. i \in DOMAIN both /\ both[i] = GpuFiles[i]
      BY <2>2, <2>3
    <3> QED
      BY <3>1 DEF ToSet
  <2>5. ASSUME NEW i \in DOMAIN CpuFiles PROVE CpuFiles[i] \in ToSet(both)
    <3> DEFINE k == Len(GpuFiles) + i
    <3>1. /\ k \in 1..Len(GpuFiles) + Len(CpuFiles) /\ ~(k <= Len(GpuFiles))
          /\ k - Len(GpuFiles) = i
      BY <2>3
    <3>2. k \in DOMAIN both /\ both[k] = CpuFiles[i]
      BY <2>2, <2>3, <3>1
    <3> QED
      BY <3>2 DEF ToSet
  <2> QED
    BY <2>4, <2>5 DEF Files, ToSet, both
<1>4. CASE config.backend = "onnx"
  <2> DEFINE useGpu == config.compute # "cpu" /\ config.present
             files == IF useGpu THEN GpuFiles ELSE CpuFiles
             path == Resolve(config.roots, files)
             active == useGpu /\ config.session = "gpu"
  <2>1. files \in Seq(ToSet(files)) /\ ToSet(files) \subseteq Files
    BY <1>3, BackendAssumption
  <2>2. path \in {None} \cup Files
    BY <1>2, <2>1
  <2>3. /\ Loaded = [file |-> path, device |-> IF active THEN "gpu" ELSE "cpu"]
        /\ ~(config.compute = "gpu" /\ ~active)
    BY <1>4 DEF Loaded, Onnx
  <2>4. config.compute = "cpu" => ~active
    OBVIOUS
  <2> HIDE DEF path, active
  <2> QED
    BY <1>1, <2>2, <2>3, <2>4 DEF DeviceIsChosen
<1>5. CASE config.backend = "ruri"
  <2> DEFINE tuned == Resolve(Append(config.roots, config.cwd), <<"tuned">>)
             original == Resolve(config.roots, <<"original">>)
             path == IF tuned # None THEN tuned ELSE original
             on == IF config.argument # None THEN config.argument
                   ELSE IF config.compute # "auto" THEN config.compute
                   ELSE IF config.present THEN "gpu" ELSE "cpu"
  <2>1. tuned \in {None} \cup ToSet(<<"tuned">>) /\ original \in {None} \cup ToSet(<<"original">>)
    <3>1. <<"tuned">> \in Seq({"tuned"}) /\ <<"original">> \in Seq({"original"})
      OBVIOUS
    <3>2. Append(config.roots, config.cwd) \in Seq(SUBSET Files)
      BY <1>1
    <3> QED
      BY <1>2, <3>1, <3>2, ResolveType
  <2>2. ToSet(<<"tuned">>) \subseteq Files /\ ToSet(<<"original">>) \subseteq Files
    BY DEF ToSet, Files
  <2>3. path \in {None} \cup Files
    BY <2>1, <2>2
  <2>4. /\ on \in {"cpu", "gpu"}
        /\ config.compute # "auto" /\ config.argument = None => on = config.compute
    BY <1>1
  <2>5. Loaded = Torch(path, on)
    BY <1>5 DEF Loaded, Ruri
  <2> HIDE DEF path, on
  <2>6. Loaded = [file |-> path, device |-> on]
    BY <2>5, TorchType
  <2> QED
    BY <1>5, <2>3, <2>4, <2>6 DEF DeviceIsChosen
<1>6. CASE config.backend \in {"qwen", "dual"}
  <2> DEFINE on == IF config.argument # None THEN config.argument ELSE "cpu"
  <2>1. Loaded = Torch("qwen", on) /\ on \in {"cpu", "gpu"}
    BY <1>1, <1>6 DEF Loaded, Qwen
  <2> HIDE DEF on
  <2>2. Loaded = [file |-> "qwen", device |-> on]
    BY <2>1, TorchType
  <2> QED
    BY <1>6, <2>1, <2>2 DEF DeviceIsChosen, Files
<1>7. CASE config.backend = "rule"
  BY <1>7 DEF Loaded, RuleBased, DeviceIsChosen
<1> QED
  BY <1>1, <1>4, <1>5, <1>6, <1>7

LEMMA InvHolds == Spec => []Inv
<1>1. Init => Inv
  BY DEF Init, Inv, Loading, Ranking
<1>2. Inv /\ [Next]_vars => Inv'
  <2> SUFFICES ASSUME Inv, [Next]_vars PROVE Inv'
    OBVIOUS
  <2> USE DEF Inv
  <2>1. CASE Load
    <3>1. Loading(config, device, file, at)'
      <4>1. CASE Loaded = None
        BY <2>1, <4>1 DEF Load, Loading
      <4>2. CASE Loaded # None
        BY <2>1, <4>2, LoadedType DEF Load, Loading
      <4> QED
        BY <4>1, <4>2
    <3>2. Ranking(config, request, model, order, answer, at)'
      BY <2>1 DEF Load, Ranking
    <3> QED
      BY <3>1, <3>2
  <2>2. CASE Ask
    BY <2>2 DEF Ask, Loading, Ranking
  <2>3. CASE Score
    BY <2>3 DEF Score, Loading, Ranking
  <2>4. CASE Decide
    BY <2>4 DEF Decide, Loading, Ranking
  <2>5. CASE Return
    BY <2>5 DEF Return, Loading, Ranking
  <2>6. CASE Stop
    BY <2>6 DEF Stop, vars, Loading, Ranking
  <2>7. CASE UNCHANGED vars
    BY <2>7 DEF vars, Loading, Ranking
  <2> QED
    BY <2>1, <2>2, <2>3, <2>4, <2>5, <2>6, <2>7 DEF Next
<1> QED
  BY <1>1, <1>2, PTL DEF Spec

-----------------------------------------------------------------------------
(* Theorems.                                                                 *)

\* A backend that is ready runs a model file of its lists, where the settings say
\* if it reads them and no argument overrules them; what it sorts and what it
\* returns are the request's candidates, each once.
THEOREM RankingIsBijection == Spec => []TypeOK
<1>1. Inv => TypeOK
  <2> SUFFICES ASSUME Inv PROVE TypeOK
    OBVIOUS
  <2>1. ASSUME at \in {"scored", "ranked"} PROVE order \in Bijection(1..N, 1..N)
    <3>1. /\ config \in Configs /\ request \in Requests /\ model \in Models
          /\ order = Sorted(Scores(config, request, model))
      BY <2>1 DEF Inv, Loading, Ranking
    <3>2. N \in Nat /\ Scores(config, request, model) \in [1..N -> Int]
      BY <3>1, RequestFacts, ScoresFacts DEF N
    <3> QED
      BY <3>1, <3>2, SortedFacts, SortedIsBijection
  <2>2. ASSUME at = "ranked" PROVE answer \in Bijection(1..N, 1..N)
    <3>1. /\ config \in Configs /\ request \in Requests /\ model \in Models
          /\ order = Sorted(Scores(config, request, model))
          /\ answer = Decided(config, request, model, order)
      BY <2>2 DEF Inv, Loading, Ranking
    <3> QED
      BY <3>1, DecidedIsGated DEF IsGated, N
  <2> QED
    BY <2>1, <2>2 DEF Inv, Loading, TypeOK
<1> QED
  BY <1>1, InvHolds, PTL

\* The neural backends sort by what each surface is worth by itself, though the
\* PyTorch backend scores each distinct surface once and rounds: a candidate goes
\* before one that is worth more only within the last digit kept, and of equal
\* ones the first of Mozc's goes first.
THEOREM NeuralOrderFollowsScores == Spec => []OrderFollowsScores
<1>1. Inv => OrderFollowsScores
  <2> DEFINE ev == Adjusted(config, request, OnnxScores(request, model))
             exact(i) == ev[i] - Prior[i - 1]
             rounds == config.backend = "ruri"
             step == IF rounds THEN 10 ELSE 1
             score == Scores(config, request, model)
  <2> SUFFICES ASSUME Inv, at = "scored", IsNeural(config),
                      NEW k \in 1..N, NEW l \in 1..N, k < l
               PROVE  /\ exact(order[l]) - exact(order[k]) < step
                      /\ exact(order[l]) - exact(order[k]) = 0 => order[k] < order[l]
    BY DEF OrderFollowsScores
  <2>1. config \in Configs /\ request \in Requests /\ model \in Models /\ order = Sorted(score)
    BY DEF Inv, Loading, Ranking
  <2>2. N \in Nat /\ score \in [1..N -> Int] /\ ev \in [1..N -> Int]
    <3>1. N \in Nat /\ Scores(config, request, model) \in [1..N -> Int]
      BY <2>1, RequestFacts, ScoresFacts DEF N
    <3>2. /\ Evidence(config, request, model) = Adjusted(config, request, OnnxScores(request, model))
          /\ Evidence(config, request, model) \in [1..N -> Int]
      BY <2>1, EvidenceFacts DEF N
    <3> QED
      BY <3>1, <3>2
  <2>3. IsSortedBy(order, score, N)
    BY <2>1, <2>2, SortedFacts
  <2>4. ASSUME NEW i \in 1..N
        PROVE  exact(i) \in Int /\ score[i] = IF rounds THEN Rounded(exact(i)) ELSE exact(i)
    <3>1. Prior[i - 1] \in Int
      BY <2>1, RequestFacts DEF N
    <3>2. score = Final(config, ev)
      BY <2>1, EvidenceFacts DEF Scores, IsNeural
    <3> QED
      BY <2>2, <3>1, <3>2 DEF Final
  <2> HIDE DEF score, ev, exact, rounds
  <2>5. order[k] \in 1..N /\ order[l] \in 1..N /\ Before(score, order[k], order[l])
    BY <2>3 DEF IsSortedBy
  <2> DEFINE x == exact(order[k])
             y == exact(order[l])
  <2>6. x \in Int /\ y \in Int
    BY <2>4, <2>5
  <2>7. CASE rounds
    <3>1. score[order[k]] = Rounded(x) /\ score[order[l]] = Rounded(y)
      BY <2>4, <2>5, <2>7
    <3> HIDE DEF x, y
    <3>2. /\ Rounded(x) \in Int /\ Rounded(y) \in Int
          /\ Rounded(x) - 5 <= x /\ y <= Rounded(y) + 4
      BY <2>6, RoundedNear
    <3>3. Rounded(x) >= Rounded(y)
      BY <2>5, <3>1, <3>2 DEF Before
    <3>4. y - x < 10
      BY <2>6, <3>2, <3>3
    <3>5. ASSUME y - x = 0 PROVE order[k] < order[l]
      <4>1. x = y
        BY <2>6, <3>5
      <4> QED
        BY <2>5, <3>1, <3>2, <4>1 DEF Before
    <3> QED
      BY <2>7, <3>4, <3>5 DEF x, y
  <2>8. CASE ~rounds
    <3>1. score[order[k]] = x /\ score[order[l]] = y
      BY <2>4, <2>5, <2>8
    <3> HIDE DEF x, y
    <3>2. x > y \/ (x = y /\ order[k] < order[l])
      BY <2>5, <3>1 DEF Before
    <3>3. y - x < 1 /\ (y - x = 0 => order[k] < order[l])
      BY <2>6, <3>2
    <3> QED
      BY <2>8, <3>3 DEF x, y
  <2> QED
    BY <2>7, <2>8
<1> QED
  BY <1>1, InvHolds, PTL

\* Candidates with the same surface are returned in Mozc's order by every
\* backend.
THEOREM RepeatsAreInOrder == Spec => []RepeatsKeepOrder
<1>1. Inv => RepeatsKeepOrder
  <2> SUFFICES ASSUME Inv, at = "ranked", NEW i \in 1..N, NEW j \in 1..N,
                      i < j, request.texts[i] = request.texts[j]
               PROVE  Position(i) < Position(j)
    BY DEF RepeatsKeepOrder
  <2> DEFINE score == Scores(config, request, model)
  <2>1. /\ config \in Configs /\ request \in Requests /\ model \in Models
        /\ order = Sorted(score)
        /\ answer = Decided(config, request, model, order)
    BY DEF Inv, Loading, Ranking
  <2>2. N \in Nat /\ score \in [1..N -> Int] /\ score[i] >= score[j]
    BY <2>1, RequestFacts, ScoresFacts DEF N
  <2>3. IsGated(answer, score, N)
    BY <2>1, DecidedIsGated DEF N
  <2> HIDE DEF score
  <2>4. ASSUME NEW x \in 1..N PROVE Position(x) \in 1..N /\ answer[Position(x)] = x
    <3>1. \E k \in 1..N : answer[k] = x
      BY <2>3 DEF IsGated, Bijection, Surjection
    <3> QED
      BY <3>1 DEF Position
  <2>5. Position(i) # Position(j)
    BY <2>4
  <2>6. ~(Position(j) < Position(i))
    <3> SUFFICES ASSUME Position(j) < Position(i) PROVE FALSE
      OBVIOUS
    <3>1. j = 1 \/ Before(score, j, i)
      BY <2>3, <2>4 DEF IsGated
    <3>2. score[i] \in Int /\ score[j] \in Int
      BY <2>2
    <3> QED
      BY <2>2, <3>1, <3>2 DEF Before
  <2> QED
    BY <2>2, <2>4, <2>5, <2>6
<1> QED
  BY <1>1, InvHolds, PTL

\* A candidate that replaces Mozc's first has the evidence that the gate's
\* weakest branch asks for.
THEOREM PromotionNeedsEvidence == Spec => []PromotedHasEvidence
<1>1. Inv => PromotedHasEvidence
  <2> DEFINE ev == Evidence(config, request, model)
             texts == request.texts
             reading == request.reading
             context == Context(config, request)
             n == Len(texts)
             top == answer[1]
  <2> SUFFICES ASSUME Inv, at = "ranked", IsNeural(config), answer[1] # 1
               PROVE  IF SurfaceType(texts[top], reading) = "passthrough"
                      THEN ev[top] - ev[1] >= Hundredths(75) ELSE ev[top] - ev[1] >= Hundredths(35)
    BY DEF PromotedHasEvidence
  <2>1. /\ config \in Configs /\ request \in Requests /\ model \in Models
        /\ order = Sorted(Scores(config, request, model))
        /\ answer = Decided(config, request, model, order)
    BY DEF Inv, Loading, Ranking
  <2>2. answer = Gate(order, ev, texts, reading, context)
    BY <2>1 DEF Decided
  <2>3. n \in Nat /\ n >= 1 /\ ev \in [1..n -> Int]
    <3>1. Len(request.texts) \in Nat \ {0}
      BY <2>1, RequestFacts
    <3>2. Evidence(config, request, model) \in [1..Len(request.texts) -> Int]
      BY <2>1, EvidenceFacts
    <3> QED
      BY <3>1, <3>2
  <2>4. order \in [1..n -> 1..n]
    BY <2>1, <2>3, ScoresFacts, SortedFacts DEF IsSortedBy
  <2> HIDE DEF ev, texts, reading, context, n
  <2>5. Gate(order, ev, texts, reading, context)[1] # 1
    BY <2>2
  <2>6. LET best == Gate(order, ev, texts, reading, context)[1]
        IN  /\ best = order[1]
            /\ ev[best] - ev[1] >= IF SurfaceType(texts[best], reading) = "passthrough"
                                   THEN Hundredths(75) ELSE Hundredths(35)
    BY <2>3, <2>4, <2>5, GateAsksForEvidence
  <2> QED
    BY <2>2, <2>6
<1> QED
  BY <1>1, InvHolds, PTL

\* The context is the sentence around the reading.
THEOREM ContextIsASentence == Spec => []ContextIsOneSentence
<1>1. Inv => ContextIsOneSentence
  <2> DEFINE before == AtMostLast(request.preceding, config.chars)
             after == AtMostFirst(request.following, config.chars)
             context == Context(config, request)
  <2> SUFFICES ASSUME Inv, at = "asked"
               PROVE  /\ IsSuffix(context.prefix, before) /\ ~Has(context.prefix, Boundaries)
                      /\ IsPrefix(context.suffix, after) /\ ~Has(context.suffix, Boundaries)
                      /\ \A s \in Suffixes(before) : ~Has(s, Boundaries) => Len(s) <= Len(context.prefix)
                      /\ \A s \in Prefixes(after) : ~Has(s, Boundaries) => Len(s) <= Len(context.suffix)
    BY DEF ContextIsOneSentence
  <2>1. config.chars \in Nat /\ request.preceding \in Text /\ request.following \in Text
    BY BackendAssumption DEF Inv, Loading, Ranking, Config, Request
  <2>2. before \in Seq(STRING) /\ after \in Seq(STRING)
    BY <2>1, Cuts DEF Text
  <2>3. /\ context.prefix = AfterLastBoundary(before)
        /\ context.suffix = BeforeFirstBoundary(after)
    <3>1. CASE config.chars = 0
      <4>1. context.prefix = <<>> /\ context.suffix = <<>>
        BY <3>1 DEF Context, LocalContext
      <4>2. before = <<>> /\ after = <<>>
        BY <2>1, <3>1, Cuts DEF Text
      <4> QED
        BY <4>1, <4>2, NoContext
    <3>2. CASE config.chars # 0
      BY <2>1, <3>2 DEF Context, LocalContext
    <3> QED
      BY <3>1, <3>2
  <2> HIDE DEF before, after, context
  <2> QED
    BY <2>2, <2>3, HeadIsOneSentence, TailIsOneSentence
<1> QED
  BY <1>1, InvHolds, PTL

\* More evidence for the best candidate does not make the gate refuse it, if
\* the exponential function has a value for every difference.
THEOREM GateFavoursEvidence ==
  ASSUME ExpIsTotal
  PROVE  Spec => []GateIsMonotone
<1>1. Inv => GateIsMonotone
  <2> DEFINE ev == Evidence(config, request, model)
             texts == request.texts
             reading == request.reading
             context == Context(config, request)
             n == Len(texts)
             passes(e) == Gate(order, e, texts, reading, context)[1] = order[1]
  <2> SUFFICES ASSUME Inv, at = "scored", IsNeural(config), order[1] # 1, passes(ev),
                      NEW h \in {25, 50, 100}
               PROVE  passes([ev EXCEPT ![order[1]] = @ + Hundredths(h)])
    BY DEF GateIsMonotone
  <2>1. /\ config \in Configs /\ request \in Requests /\ model \in Models
        /\ order = Sorted(Scores(config, request, model))
    BY DEF Inv, Loading, Ranking
  <2>2. n \in Nat /\ n >= 1 /\ ev \in [1..n -> Int]
    <3>1. Len(request.texts) \in Nat \ {0}
      BY <2>1, RequestFacts
    <3>2. Evidence(config, request, model) \in [1..Len(request.texts) -> Int]
      BY <2>1, EvidenceFacts
    <3> QED
      BY <3>1, <3>2
  <2>3. order \in [1..n -> 1..n] /\ \A k \in 2..n : order[k] # order[1]
    <3>1. order \in Bijection(1..n, 1..n)
      BY <2>1, <2>2, ScoresFacts, SortedFacts, SortedIsBijection
    <3>2. order \in [1..n -> 1..n] /\ \A k, l \in 1..n : order[k] = order[l] => k = l
      BY <3>1 DEF Bijection, Injection, IsInjective
    <3> HIDE DEF n
    <3>3. 1 \in 1..n /\ \A k \in 2..n : k \in 1..n /\ k # 1
      BY <2>2
    <3> QED
      BY <3>2, <3>3
  <2>4. Hundredths(h) \in Nat
    BY HundredthsFacts
  <2> HIDE DEF ev, texts, reading, context, n
  <2>5. Gate(order, Raised(ev, order[1], Hundredths(h)), texts, reading, context)[1] = order[1]
    <3>1. Gate(order, ev, texts, reading, context)[1] = order[1] /\ order[1] # 1
      OBVIOUS
    <3>2. ExpIsTotal
      OBVIOUS
    <3>3. IsGateInput(order, ev, n)
      BY <2>2, <2>3 DEF IsGateInput
    <3> HIDE DEF passes
    <3> QED
      BY <2>4, <3>1, <3>2, <3>3, GateStaysOpen
  <2> QED
    BY <2>5 DEF Raised
<1> QED
  BY <1>1, InvHolds, PTL
=============================================================================
