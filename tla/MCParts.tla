------------------------------ MODULE MCParts ------------------------------
(***************************************************************************)
(* Components that share no state, each checked by itself: a behaviour is  *)
(* one of the component that `part` names, and the others stay as they     *)
(* begin.                                                                  *)
(***************************************************************************)
EXTENDS BurstGuard, LoadingIndicator, SettingsFiles, Training, Release, ConversionStudy

CONSTANT Parts      \* the components that are run

VARIABLES
  part,
  number

-----------------------------------------------------------------------------
(* Settings: no file, or one with a value of the wrong type, a length that   *)
(* is none of the list and an unknown domain.                                *)

SomeContents ==
  {Missing, [autostart |-> Odd, context |-> TRUE, chars |-> 10, domain |-> "novel", text |-> Empty]}

-----------------------------------------------------------------------------
(* The pill on a small screen; the mouse may be on another one beside it.    *)

SmallScreen == [w |-> 400, h |-> 200]

SomeCarets ==
  {NoCaret, [x |-> 100, y |-> 50], [x |-> 272, y |-> 164], [x |-> 273, y |-> 50], [x |-> -10, y |-> 50]}

SomeCursors == {[x |-> 0, y |-> 0], [x |-> 399, y |-> 199], [x |-> -900, y |-> 100], [x |-> 1200, y |-> 600]}

-----------------------------------------------------------------------------
(* The study: an abbreviation with eight candidates, a number with a numeral *)
(* beyond the limit, a word that is split in two segments, and two segments  *)
(* of which the second has a choice.                                         *)

T(s) == <<s>>
Homophones(n) == [i \in 1 .. n |-> T(<<"a", "b", "c", "d", "e", "f", "g", "h">>[i])]

Segment(key, candidates) == [key |-> key, candidates |-> candidates]

Item(reading, prefix, expected, acceptable, segments) ==
  [category |-> "any", reading |-> reading, prefix |-> prefix, suffix |-> T("."),
   expected |-> expected, acceptable |-> acceptable, segments |-> segments]

AbbreviationItem ==
  Item(<<"e", "-", "a", "i">>, T("x"), T("AI"), {T("AI")},
       << Segment(<<"e", "-", "a", "i">>, Homophones(2)) >>)
NumberItem ==
  Item(<<"go", "ni", "n">>, <<>>, <<"5", "nin">>, {<<"5", "nin">>, <<"go", "nin">>},
       << Segment(<<"go", "ni", "n">>, <<T("goin"), <<"go", "nin">>, <<"5", "nin">>, T("goin")>>) >>)
CheckupItem ==
  Item(<<"ke", "n", "shi", "n", "wo">>, T("x"), <<"kenshin", "wo">>, {<<"kenshin", "wo">>},
       << Segment(<<"ke", "n">>, <<T("ken"), T("kata")>>), Segment(<<"shi", "n", "wo">>, <<T("shinwo"), T("atarashi")>>) >>)

PhraseItem ==
  Item(<<"u", "mi", "wo">>, <<>>, <<"sea", "wo">>, {<<"sea", "wo">>},
       << Segment(<<"u", "mi">>, <<T("sea")>>), Segment(<<"wo">>, <<T("o"), T("wo")>>) >>)

SomeCharacters == STRING

SomeWords == <<"ke", "n", "shi", "n">> :> << T("kenshin") >>
SomePhrases == <<"e", "-", "pi", "-", "a", "i", "re", "n", "ke", "i">> :> << T("APIrenkei") >>
SomeAbbreviations == <<"e", "-", "a", "i">> :> T("AI")
SomePrefixes == << <<"ji", "yu", "u", "go", "ni", "chi">>, <<"ji", "yu", "tsu", "ko">>, <<"i", "chi", "i">> >>

SomeStudies ==
  {<< <<item>>, modes>> : item \in {AbbreviationItem, NumberItem, CheckupItem},
                          modes \in {<<"both">>, <<"no_context", "suffix_only">>}}
    \cup {<< <<PhraseItem>>, <<"short_prefix">> >>}

SomeOptions ==
  {[limit |-> l, dedup |-> d, reps |-> r, joint |-> j[1], beam |-> j[2]] :
     l \in {0, 2}, d \in BOOLEAN, r \in BOOLEAN, j \in {<<0, 0>>, <<2, 0>>, <<2, 3>>}}

SomeSentence == T("s")

-----------------------------------------------------------------------------

(* Releases: one version that no MSI can have; a runtime with files two      *)
(* directories down, whose directory holds no file itself.                   *)

SomeVersions == {<<2, 0, 0, 0>>, <<2, 0, 4, 0>>, <<256, 0, 0, 0>>}

SmallRuntime == {<<"YamatanaAIIME.exe">>, <<"_internal", "documents", "LICENSE">>}

SomeFileSets == {SmallRuntime, SmallRuntime \cup {<<"_internal", "models", "onnx", "tokenizer.json">>}}

-----------------------------------------------------------------------------
(* Numbers: every digit in some place, every euphonic change of a reading.   *)

Numbers ==
  ((1 .. 30) \cup {1000 * a + 100 * b + 10 * c + d :
                    a \in {0, 1, 3, 8}, b \in {0, 1, 3, 6, 9}, c \in {0, 1, 7}, d \in {0, 1, 5}}) \ {0}

DigitReading(d) ==
  << <<"i", "chi">>, <<"ni">>, <<"sa", "n">>, <<"yo", "n">>, <<"go">>, <<"ro", "ku">>, <<"na", "na">>,
     <<"ha", "chi">>, <<"ki", "yu", "u">> >>[d]

\* How n in 1 .. 9999 is read, with the last digit d read as given.
Reading(n, last) ==
  LET Place(d, unit, euphonic) ==
        IF d = 0 THEN <<>> ELSE IF d \in DOMAIN euphonic THEN euphonic[d]
        ELSE (IF d = 1 THEN <<>> ELSE DigitReading(d)) \o unit
      sen == (3 :> <<"sa", "n", "ze", "n">>) @@ (8 :> <<"ha", "tsu", "se", "n">>)
      hyaku == (3 :> <<"sa", "n", "bi", "ya", "ku">>) @@ (6 :> <<"ro", "tsu", "pi", "ya", "ku">>)
                 @@ (8 :> <<"ha", "tsu", "pi", "ya", "ku">>)
  IN  Place(n \div 1000, <<"se", "n">>, sen) \o Place((n \div 100) % 10, <<"hi", "ya", "ku">>, hyaku)
        \o Place((n \div 10) % 10, <<"ji", "yu", "u">>, <<>>)
        \o (IF n % 10 = 0 THEN <<>> ELSE last)

LastReadings(n) ==
  IF n % 10 = 0 THEN {<<>>}
  ELSE {DigitReading(n % 10)} \cup (CASE n % 10 = 4 -> {<<"shi">>} [] n % 10 = 7 -> {<<"shi", "chi">>}
                                      [] n % 10 = 9 -> {<<"ku">>} [] OTHER -> {})

\* Every supplement for a number that is read the regular way with a counter, or as
\* an ordinal, says that number, and its two spellings are the same number for the
\* study (candidate_supplements.py:78-147, mozc_candidate_pipeline_study.py:38-63);
\* readings with a small tsu have no supplement.
SpellingsAgree ==
  number # 0 => \A last \in LastReadings(number), suffix \in DOMAIN Counters, ordinal \in BOOLEAN :
    LET reading == (IF ordinal THEN <<"da", "i">> ELSE <<>>) \o Reading(number, last) \o suffix
        surfaces == NumericSurfaces(reading)
        said == (IF ordinal THEN <<"ordinal">> ELSE <<>>) \o Decimal(number) \o <<Counters[suffix]>>
    IN  IF Contains(Reading(number, last), "tsu") \/ (ordinal /\ suffix # <<"i">>) THEN surfaces = <<>>
        ELSE /\ surfaces[1] = said
             /\ CanonicalNumber(surfaces[2]) = CanonicalNumber(said)

vars == <<part, number, settingsVars, pillVars, studyVars, trainVars, burstVars, releaseVars>>

\* One initial state of each component stands for it while another one runs.  No
\* guide was finished before the behaviour begins, one may be in it.
Init ==
  /\ part \in Parts
  /\ number \in (IF part = "numbers" THEN Numbers ELSE {0})
  /\ SettingsInit
  /\ disk["onboarding"] = Missing
  /\ part # "settings" => disk["settings"] = Missing /\ ~runKey
  /\ PillInit
  /\ StudyInit
  /\ part # "study" => /\ options = [limit |-> 0, dedup |-> FALSE, reps |-> FALSE, joint |-> 0, beam |-> 0]
                       /\ todo = << <<NumberItem, "both">> >>
  /\ TrainInit
  /\ part # "training" => script = "ruri" /\ batches = 1 /\ accum = 1
  /\ BurstInit
  /\ ReleaseInit

Next ==
  /\ UNCHANGED <<part, number>>
  /\ IF part = "settings" THEN SettingsNext ELSE UNCHANGED settingsVars
  /\ IF part = "pill" THEN PillNext ELSE UNCHANGED pillVars
  /\ IF part = "study" THEN StudyNext ELSE UNCHANGED studyVars
  /\ IF part = "training" THEN TrainNext ELSE UNCHANGED trainVars
  /\ IF part = "burst" THEN BurstNext ELSE UNCHANGED burstVars
  /\ IF part = "release" THEN ReleaseNext ELSE UNCHANGED releaseVars

Spec == Init /\ [][Next]_vars /\ (part = "pill" => Fairness)
=============================================================================
