------------------------------- MODULE Scoring -------------------------------
(***************************************************************************)
(* The scoring policy of ranker/scoring.py and the lexical grounding of    *)
(* ranker/lexicon.py: which part of the context is used, what is added to  *)
(* and taken from the model's score of a surface, and the gate that        *)
(* decides whether the best candidate may replace Mozc's.                  *)
(*                                                                         *)
(* A text is a sequence of characters, a character is known by the classes *)
(* it is in.  Scores are integers in units of 1/100000, one digit more than *)
(* the code's rounding keeps; the two transcendental functions are         *)
(* tables: Exp[d] stands for exp(-d/100000), Prior[i] for the prior of the *)
(* candidate with index i.                                                 *)
(***************************************************************************)
EXTENDS Ordering, FiniteSetsExt

CONSTANTS
  Hiragana, Katakana, Kanji, Capitals,     \* classes of characters
  Latin,          \* what may follow a capital in an abbreviation: A-Z 0-9 + # . -
  Digits, KanjiDigits,
  Noise,          \* punctuation and blanks that carry no evidence
  Boundaries,     \* ends of sentences
  Width,          \* Width[c]: NFKC form of the character c
  NaturalKana,    \* words that are written in kana
  KanjiOf,        \* KanjiOf[digits]: kanji that write the same number
  Rules,          \* contextual_candidate_bonus: sequence of lexical frames
  Endings,        \* particles and inflections that a frame overlooks
  Past, Dictionary,  \* the last characters of a verb's past and plain form
  WordsOf,        \* LexicalKnowledge.reading_map: the words of some readings
  Affixes,        \* PRODUCTIVE_AFFIXES
  Exp, Prior

Numeric == Digits \cup KanjiDigits

Hundredths(n) == 1000 * n

\* A frame: its needles (none of them empty), the word it is for, its bonus.
IsRule(r) == /\ r.needles # {} /\ <<>> \notin r.needles
             /\ r.bonus \in Nat

ASSUME ScoringAssumption ==
  /\ Rules \in Seq({Rules[i] : i \in DOMAIN Rules})
  /\ \A i \in DOMAIN Rules : IsRule(Rules[i])
  /\ <<>> \notin Endings
  /\ Prior[0] = 0
  /\ \A i \in DOMAIN Prior : Prior[i] \in Int
  /\ \A i, j \in DOMAIN Prior : i <= j => Prior[i] <= Prior[j]
  /\ \A d, e \in DOMAIN Exp : /\ Exp[d] \in Nat
                              /\ d <= e => Exp[e] <= Exp[d]
-----------------------------------------------------------------------------
(* Context *)

AtMostLast(s, n) == SubSeq(s, IF Len(s) > n THEN Len(s) - n + 1 ELSE 1, Len(s))
AtMostFirst(s, n) == SubSeq(s, 1, IF Len(s) > n THEN n ELSE Len(s))

AfterFirstBoundary(s) ==
  SubSeq(s, 1 + Min({Len(s)} \cup {i \in 1..Len(s) : s[i] \in Boundaries}), Len(s))
AfterLastBoundary(s) ==
  SubSeq(s, 1 + Max({0} \cup {i \in 1..Len(s) : s[i] \in Boundaries}), Len(s))

BeforeFirstBoundary(s) ==
  SubSeq(s, 1, Min({Len(s) + 1} \cup {i \in 1..Len(s) : s[i] \in Boundaries}) - 1)

\* select_local_context
LocalContext(preceding, following, max) ==
  IF max <= 0
  THEN [prefix |-> <<>>, suffix |-> <<>>]
  ELSE [prefix |-> AfterLastBoundary(AtMostLast(preceding, max)),
        suffix |-> BeforeFirstBoundary(AtMostFirst(following, max))]

\* context_signal_length
Signal(context) ==
  LET chars == context.prefix \o context.suffix
  IN  Cardinality({i \in 1..Len(chars) : chars[i] \notin Noise})

\* shared_candidate_context_length
SharedPrefix(l, r) ==
  Max({n \in 0..Min({Len(l), Len(r)}) : SubSeq(l, 1, n) = SubSeq(r, 1, n)})
SharedLength(l, r) ==
  LET limit == Min({Len(l), Len(r)})
      prefix == SharedPrefix(l, r)
      End(s, n) == SubSeq(s, Len(s) - n + 1, Len(s))
  IN  prefix + Max({n \in 0..(limit - prefix) : End(l, n) = End(r, n)})
-----------------------------------------------------------------------------
(* Surfaces *)

Only(text, class) == text # <<>> /\ \A i \in 1..Len(text) : text[i] \in class
Has(text, class) == \E i \in 1..Len(text) : text[i] \in class

IsAbbreviation(text) ==
  Len(text) \in 2..16 /\ text[1] \in Capitals /\ Only(Tail(text), Latin)

\* candidate_surface_type
SurfaceType(text, reading) ==
  IF IsAbbreviation(text) THEN "latin"
  ELSE IF Has(text, Numeric) THEN "numeric"
  ELSE IF Only(text, Hiragana) \/ Only(text, Katakana)
       THEN IF text = reading /\ text \notin NaturalKana THEN "passthrough" ELSE "kana"
  ELSE IF Has(text, Kanji) THEN "kanji"
  ELSE "other"

\* numeric_surface_family: what is left of the text without its number.
NumericFamily(text) ==
  LET NotNumeric(c) == c \notin Numeric
  IN  SelectSeq([i \in 1..Len(text) |-> Width[text[i]]], NotNumeric)

\* reading_identity_penalty
EchoPenalty(text, reading, alternatives) ==
  IF /\ SurfaceType(text, reading) = "passthrough"
     /\ \E other \in alternatives \ {text} :
           SurfaceType(other, <<>>) \in {"kanji", "numeric", "latin"}
  THEN Hundredths(125) ELSE 0

\* The text itself and what remains of it without an ending.
Bases(text) ==
  {text}
  \cup {SubSeq(text, 1, Len(text) - Len(e)) :
          e \in {x \in Endings : /\ Len(text) > Len(x)
                                 /\ SubSeq(text, Len(text) - Len(x) + 1, Len(text)) = x}}
  \cup (IF Len(text) > 1 /\ text[Len(text)] = Past
        THEN {[text EXCEPT ![Len(text)] = Dictionary]} ELSE {})

Occurs(needle, text) ==
  \E i \in 0..(Len(text) - Len(needle)) : SubSeq(text, i + 1, i + Len(needle)) = needle

\* contextual_candidate_bonus: the first frame that fits.
FrameBonus(context, text) ==
  LET sentence == context.prefix \o text \o context.suffix
      fits == {i \in DOMAIN Rules : /\ Rules[i].word \in Bases(text)
                                    /\ \E n \in Rules[i].needles : Occurs(n, sentence)}
  IN  IF fits = {} THEN 0 ELSE Rules[Min(fits)].bonus

\* orthographic_style_bonus: 1位 when 一位 is a candidate too.
StyleBonus(text, alternatives) ==
  LET n == Max({k \in 0..Len(text) : \A i \in 1..k : text[i] \in Digits})
      number == SubSeq(text, 1, n)
      rest == SubSeq(text, n + 1, Len(text))
  IN  IF /\ n \notin {0, Len(text)}
         /\ number \in DOMAIN KanjiOf
         /\ \E k \in KanjiOf[number] : <<k>> \o rest \in alternatives
      THEN Hundredths(100) ELSE 0

\* LexicalKnowledge.is_known_word, compute_lexical_penalty
KnownWords == UNION {WordsOf[r] : r \in DOMAIN WordsOf}
IsKnown(text) ==
  \/ text \in KnownWords
  \/ Len(text) > 1 /\ text[Len(text)] \in Affixes /\ SubSeq(text, 1, Len(text) - 1) \in KnownWords

LexicalPenalty(text, reading) ==
  IF /\ text # <<>> /\ reading \in DOMAIN WordsOf
     /\ text \notin WordsOf[reading]
     /\ \E word \in WordsOf[reading] : Len(word) = Len(text)
     /\ ~IsKnown(text)
  THEN Hundredths(150) ELSE 0
-----------------------------------------------------------------------------
(* The gate.  ev[i] is the evidence of candidate i, 1 is Mozc's first; order *)
(* lists the candidates by their final score, best first.                    *)

Best(ev, S) == Max({ev[i] : i \in S})

\* neural_top_probability of candidate i is at least percent / 100.
Confident(ev, i, percent) ==
  LET top == Best(ev, DOMAIN ev)
      weight == [j \in DOMAIN ev |-> Exp[top - ev[j]]]
  IN  100 * weight[i] >= percent * Total(weight)

\* What preserve_mozc_top_if_uncertain looks at.
Case(order, ev, texts, reading, context) ==
  LET top == order[1]
      others == DOMAIN ev \ {top}
      runner == order[Min({k \in 2..Len(order) : ev[order[k]] = Best(ev, others)})]
  IN  [delta    |-> ev[top] - ev[1],
       margin   |-> ev[top] - Best(ev, others),
       high     |-> Confident(ev, top, 80),
       medium   |-> Confident(ev, top, 35),
       type     |-> SurfaceType(texts[top], reading),
       numeric  |-> /\ SurfaceType(texts[top], reading) = "numeric"
                    /\ SurfaceType(texts[runner], reading) = "numeric"
                    /\ NumericFamily(texts[top]) = NumericFamily(texts[runner]),
       frame    |-> FrameBonus(context, texts[top]),
       external |-> Signal(context),
       internal |-> SharedLength(texts[top], texts[1])]

NeededDelta(c) == IF c.type = "passthrough" THEN Hundredths(180) ELSE Hundredths(55)
NeededMargin(c) == IF c.type = "passthrough" THEN Hundredths(90) ELSE Hundredths(30)

Structural(c) == c.external >= 3 \/ c.internal >= 4

\* Mozc's first candidate always has rank 1, so the relief for a deeper rank
\* that the code computes is always zero.
OverridesByBranch(c) ==
  IF c.high THEN c.margin >= Hundredths(75)
  ELSE IF c.medium THEN c.delta >= Hundredths(180) /\ c.margin >= NeededMargin(c)
  ELSE c.delta >= NeededDelta(c) /\ c.margin >= NeededMargin(c)
OverridesForNumbers(c) ==
  \/ c.high /\ c.margin >= Hundredths(75)
  \/ c.delta >= NeededDelta(c) /\ c.margin >= NeededMargin(c)
  \/ c.numeric
Overrides(c) ==
  \/ c.high /\ c.margin >= Hundredths(75)
  \/ c.delta >= NeededDelta(c) /\ c.margin >= NeededMargin(c)
  \/ c.medium /\ c.delta >= Hundredths(180) /\ c.margin >= NeededMargin(c)
  \/ c.numeric /\ c.delta >= Hundredths(35)
  \/ /\ c.frame >= Hundredths(250) /\ c.delta >= Hundredths(35) /\ c.margin >= Hundredths(-25)
     /\ c.type \notin {"passthrough", "kana"}

\* preserve_mozc_top_if_uncertain
GateCopies(order, ev, texts, reading, context) ==
  LET c == Case(order, ev, texts, reading, context)
  IN  IF order[1] = 1 \/ (Structural(c) /\ Overrides(c)) THEN order ELSE <<1>> \o order
Gate(order, ev, texts, reading, context) ==
  LET c == Case(order, ev, texts, reading, context)
  IN  IF order[1] = 1 \/ (Structural(c) /\ Overrides(c))
      THEN order
      ELSE <<1>> \o Kept(order, DOMAIN ev \ {1})
=============================================================================
