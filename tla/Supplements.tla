---------------------------- MODULE Supplements ----------------------------
(***************************************************************************)
(* The candidates that the AI side adds to Mozc's                          *)
(* (src/ranker/candidate_supplements.py), and the readings and spellings   *)
(* of numbers (there and in src/scripts/mozc_candidate_pipeline_study.py). *)
(* A reading is a sequence of kana, a surface a sequence of characters,    *)
(* each a string that names it.                                            *)
(***************************************************************************)
EXTENDS Ordering, SequencesExt

CONSTANTS
  Characters,       \* of readings and surfaces
  Words, Phrases,   \* WORD_SURFACES, PHRASE_SURFACES: reading -> surfaces
  Abbreviations,    \* ABBREVIATION_SURFACES: reading -> surface
  NumericPrefixes   \* readings of numbers that are repaired inside a segment

Text == Seq(Characters)

IsTable(table) ==
  /\ IsFiniteSet(DOMAIN table) /\ DOMAIN table \subseteq Text
  /\ \A k \in DOMAIN table : table[k] \in Seq(Text) /\ table[k] # <<>>

\* The characters of the readings and of the spellings below.
Kana ==
  {"bi", "chi", "da", "do", "e", "go", "ha", "hi", "ho", "i", "ji", "ki", "ko", "ku", "ma", "n", "na",
   "ne", "ni", "o", "pa", "pi", "re", "ro", "sa", "se", "shi", "to", "tsu", "u", "ya", "yo", "yu", "ze", "-"}

Signs ==
  {"0", "1", "2", "3", "4", "5", "6", "7", "8", "9", "rei", "ichi", "ni", "san", "yon", "go", "roku",
   "nana", "hachi", "kyuu", "juu", "hyaku", "sen", "ordinal", "percent", "nendo", "nin", "nichi", "ji",
   "ko", "dai", "mai", "hon", "hiki", "en", "i"}

ASSUME SupplementAssumption ==
  /\ IsTable(Words) /\ IsTable(Phrases)
  /\ \A k \in DOMAIN Abbreviations : Abbreviations[k] \in Text
  /\ NumericPrefixes \in Seq(Text)
  /\ Kana \cup Signs \subseteq Characters

\* The function with these pairs of an argument and its value.
Table(pairs) == [k \in {p[1] : p \in pairs} |-> (CHOOSE p \in pairs : p[1] = k)[2]]

DigitReadings ==
  {<< <<"re", "i">>, 0>>, << <<"ze", "ro">>, 0>>, << <<"i", "chi">>, 1>>, << <<"ni">>, 2>>,
   << <<"sa", "n">>, 3>>, << <<"yo", "n">>, 4>>, << <<"shi">>, 4>>, << <<"go">>, 5>>,
   << <<"ro", "ku">>, 6>>, << <<"na", "na">>, 7>>, << <<"shi", "chi">>, 7>>,
   << <<"ha", "chi">>, 8>>, << <<"ki", "yu", "u">>, 9>>, << <<"ku">>, 9>>}

UnitReadings ==
  {<< <<"ji", "yu", "u">>, 10>>, << <<"ji", "yu", "tsu">>, 10>>, << <<"hi", "ya", "ku">>, 100>>,
   << <<"bi", "ya", "ku">>, 100>>, << <<"pi", "ya", "ku">>, 100>>, << <<"se", "n">>, 1000>>,
   << <<"ze", "n">>, 1000>>, << <<"ma", "n">>, 10000>>, << <<"o", "ku">>, 100000000>>}

CounterReadings ==
  {<< <<"pa", "-", "se", "n", "to">>, "percent">>, << <<"ne", "n", "do">>, "nendo">>,
   << <<"ni", "n">>, "nin">>, << <<"ni", "chi">>, "nichi">>, << <<"ji">>, "ji">>,
   << <<"ko">>, "ko">>, << <<"da", "i">>, "dai">>, << <<"ma", "i">>, "mai">>,
   << <<"ho", "n">>, "hon">>, << <<"hi", "ki">>, "hiki">>, << <<"e", "n">>, "en">>,
   << <<"i">>, "i">>}

Digits == Table(DigitReadings)
Units == Table(UnitReadings)
Counters == Table(CounterReadings)

Longest(S) == CHOOSE s \in S : \A t \in S : Len(t) <= Len(s)

From(s, i) == SubSeq(s, i, Len(s))

\* dict.fromkeys: the first of equal elements stays.
Distinct(s) ==
  LET places == Kept(Identity(Len(s)), {i \in 1 .. Len(s) : \A j \in 1 .. i - 1 : s[j] # s[i]})
  IN  [k \in 1 .. Len(places) |-> s[places[k]]]

-----------------------------------------------------------------------------
(* Reading a number.  No digit (-1) before a unit counts as one.             *)

Count(digit) == IF digit = -1 THEN 1 ELSE digit

\* Seeded bug: a unit forgets what the units before it said.
ReadTokenAnew(n, token) ==
  IF token \in DOMAIN Digits THEN [n EXCEPT !.digit = Digits[token]]
  ELSE [n EXCEPT !.section = Count(n.digit) * Units[token], !.digit = -1]

ReadToken(n, token) ==
  IF token \in DOMAIN Digits THEN [n EXCEPT !.digit = Digits[token]]
  ELSE IF Units[token] >= 10000
  THEN [total |-> n.total + (n.section + Count(n.digit)) * Units[token], section |-> 0, digit |-> -1]
  ELSE [n EXCEPT !.section = @ + Count(n.digit) * Units[token], !.digit = -1]

\* One more token, the longest that fits, if one fits at all.
ReadOn(r) ==
  LET fits == {t \in DOMAIN Digits \cup DOMAIN Units : IsPrefix(t, r.rest)}
  IN  IF fits = {} THEN r
      ELSE [n |-> ReadToken(r.n, Longest(fits)), rest |-> From(r.rest, Len(Longest(fits)) + 1)]

\* The number and what is left of the reading where no token fits.
Read(reading) ==
  LET read[k \in 0 .. Len(reading)] ==
        IF k = 0 THEN [n |-> [total |-> 0, section |-> 0, digit |-> -1], rest |-> reading]
        ELSE ReadOn(read[k - 1])
  IN  read[Len(reading)]

\* What has been read, if nothing is left; -1 otherwise.
Value(r) ==
  IF r.rest # <<>> THEN -1 ELSE r.n.total + r.n.section + (IF r.n.digit = -1 THEN 0 ELSE r.n.digit)

\* _parse_number_prefix for a reading that it must read to the end.
Number(reading) == IF reading = <<>> THEN -1 ELSE Value(Read(reading))

-----------------------------------------------------------------------------
(* Spelling a number.                                                        *)

KanjiDigits == <<"ichi", "ni", "san", "yon", "go", "roku", "nana", "hachi", "kyuu">>

DigitSigns == <<"0", "1", "2", "3", "4", "5", "6", "7", "8", "9">>

Decimal(n) ==
  LET digits[m \in 0 .. n] ==
        IF m < 10 THEN <<DigitSigns[m + 1]>> ELSE Append(digits[m \div 10], DigitSigns[(m % 10) + 1])
  IN  digits[n]

Written(digit, sign) ==
  IF digit = 0 THEN <<>> ELSE (IF digit = 1 THEN <<>> ELSE <<KanjiDigits[digit]>>) \o <<sign>>

\* _kanji_number: one ten, hundred or thousand has no digit, no zero is written,
\* and from ten thousand on it gives up.
Kanji(n) ==
  IF n = 0 THEN <<"rei">> ELSE IF n >= 10000 THEN Decimal(n)
  ELSE Written(n \div 1000, "sen") \o Written((n \div 100) % 10, "hyaku") \o Written((n \div 10) % 10, "juu")
         \o (IF n % 10 = 0 THEN <<>> ELSE <<KanjiDigits[n % 10]>>)

\* In decimals first, then in kanji.
Spellings(front, n, sign) == << front \o Decimal(n) \o sign, front \o Kanji(n) \o sign >>

\* The longest suffix before which a number stands; any but one ends an ordinal.
NumberWithSuffix(numberBefore, ordinal) ==
  LET fits == {s \in DOMAIN numberBefore : numberBefore[s] # -1}
  IN  IF fits = {} \/ (ordinal /\ Longest(fits) # <<"i">>) THEN <<>>
      ELSE Spellings(IF ordinal THEN <<"ordinal">> ELSE <<>>, numberBefore[Longest(fits)], <<Counters[Longest(fits)]>>)

\* The number that stands before each suffix of the text.
NumbersBefore(text) ==
  [s \in {c \in DOMAIN Counters : IsSuffix(c, text)} |-> Number(SubSeq(text, 1, Len(text) - Len(s)))]

\* numeric_supplement_surfaces.
NumericSurfaces(reading) ==
  LET ordinal == IsPrefix(<<"da", "i">>, reading)
      text == IF ordinal THEN From(reading, 3) ELSE reading
  IN  NumberWithSuffix(NumbersBefore(text), ordinal)

-----------------------------------------------------------------------------
(* What is added to a segment.                                               *)

Entry(table, reading) == IF reading \in DOMAIN table THEN table[reading] ELSE <<>>

\* Repairs of a proper prefix of the reading, the longest first; what follows
\* stays in kana.
PrefixRepairs(reading) ==
  LET fits == {k \in DOMAIN Words \cup DOMAIN Phrases : IsStrictPrefix(k, reading)}
      keys == Listed(fits, [k \in fits |-> {l \in fits : Len(l) > Len(k)}])
      First(k) == Head(IF k \in DOMAIN Phrases THEN Phrases[k] ELSE Words[k])
  IN  [i \in 1 .. Len(keys) |-> First(keys[i]) \o From(reading, Len(keys[i]) + 1)]

NumericRepairs(reading) ==
  LET First(surfaces, k) == IF surfaces = <<>> THEN <<>> ELSE << Head(surfaces) \o From(reading, Len(k) + 1) >>
      keys == Kept(NumericPrefixes, {k \in ToSet(NumericPrefixes) : IsStrictPrefix(k, reading)})
  IN  FlattenSeq([i \in 1 .. Len(keys) |-> First(NumericSurfaces(keys[i]), keys[i])])

\* supplemental_surfaces.
Surfaces(reading) ==
  Distinct(Entry(Words, reading) \o Entry(Phrases, reading)
           \o (IF reading \in DOMAIN Abbreviations THEN <<Abbreviations[reading]>> ELSE <<>>)
           \o NumericSurfaces(reading) \o PrefixRepairs(reading) \o NumericRepairs(reading))

\* merge_supplemental_surfaces.
Merged(reading, candidates) ==
  candidates \o Kept(Surfaces(reading), ToSet(Surfaces(reading)) \ ToSet(candidates))

\* supplemental_prefix: the longest repairable prefix, <<>> if there is none.
RepairablePrefix(reading) ==
  LET sources == DOMAIN Words \cup DOMAIN Phrases
                   \cup {k \in ToSet(NumericPrefixes) : NumericSurfaces(k) # <<>>}
  IN  Longest({<<>>} \cup {k \in sources : IsPrefix(k, reading)})

PrefixSurfaces(k) ==
  IF Contains(NumericPrefixes, k) THEN NumericSurfaces(k)
  ELSE IF k \in DOMAIN Phrases THEN Phrases[k] ELSE Words[k]

Keys(segments) == FlattenSeq([i \in 1 .. Len(segments) |-> segments[i].key])
Tops(segments) == [i \in 1 .. Len(segments) |-> segments[i].candidates[1]]

\* One segment for several, whose candidates are Mozc's first choice and the repairs.
JoinedSegment(base, repairs, segments) ==
  LET trailing == From(Keys(segments), Len(base) + 1)
  IN  [key |-> base \o trailing,
       candidates |-> <<FlattenSeq(Tops(segments))>> \o [i \in 1 .. Len(repairs) |-> repairs[i] \o trailing]]

\* The segments that the prefix reaches into become one.
JoinedUpTo(base, segments) ==
  LET reach == {i \in 1 .. Len(segments) : Len(Keys(SubSeq(segments, 1, i))) >= Len(base)}
      last == CHOOSE i \in reach : \A j \in reach : i <= j
  IN  IF base = <<>> \/ reach = {} THEN segments
      ELSE << JoinedSegment(base, PrefixSurfaces(base), SubSeq(segments, 1, last)) >> \o From(segments, last + 1)

\* prepare_supplemented_segments.
Prepared(reading, segments) == JoinedUpTo(RepairablePrefix(reading), segments)

-----------------------------------------------------------------------------
(* The study's way back from a spelling to the number.                       *)

KanjiUnits == ("juu" :> 10) @@ ("hyaku" :> 100) @@ ("sen" :> 1000) @@ ("man" :> 10000)
KanjiValue == ("maru" :> 0) @@ ("rei" :> 0) @@ [d \in ToSet(KanjiDigits) |-> CHOOSE i \in 1 .. 9 : KanjiDigits[i] = d]

ReadSign(n, c) ==
  IF c \in DOMAIN KanjiValue THEN [n EXCEPT !.digit = KanjiValue[c]]
  ELSE IF c = "man"
  THEN LET s == n.section + n.digit
       IN  [total |-> n.total + (IF s = 0 THEN 1 ELSE s) * 10000, section |-> 0, digit |-> 0]
  ELSE [n EXCEPT !.section = @ + (IF n.digit = 0 THEN 1 ELSE n.digit) * KanjiUnits[c], !.digit = 0]

\* parse_kanji_number.
KanjiNumber(text) ==
  IF ToSet(text) \subseteq DOMAIN KanjiValue
  THEN FoldLeft(LAMBDA n, c : 10 * n + KanjiValue[c], 0, text)
  ELSE LET n == FoldLeft(ReadSign, [total |-> 0, section |-> 0, digit |-> 0], text)
       IN  n.total + n.section + n.digit

\* canonical_numeric_surface: runs of kanji numerals become decimals, the word for
\* per cent its sign.
CanonicalNumber(text) ==
  LET Flush(a) == IF a.run = <<>> THEN a.out ELSE a.out \o Decimal(KanjiNumber(a.run))
      Sign(c) == IF c = "percent" THEN "%" ELSE c
      Add(a, c) == IF c \in DOMAIN KanjiValue \cup DOMAIN KanjiUnits
                   THEN [a EXCEPT !.run = Append(@, c)]
                   ELSE [out |-> Append(Flush(a), Sign(c)), run |-> <<>>]
  IN  Flush(FoldLeft(Add, [out |-> <<>>, run |-> <<>>], text))

HasDigit(text) == \E c \in ToSet(text) : c \in ToSet(DigitSigns) \cup {"%"}
=============================================================================
