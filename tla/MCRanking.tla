----------------------------- MODULE MCRanking -----------------------------
(* Instances of RankerBackends for TLC. *)
EXTENDS RankerBackends, TLC

\* Eleven characters: two of kana, three of kanji, a digit and its kanji, a
\* capital and a mark that may follow it, a comma and a full stop.
AllKanji == {"hana", "bana", "kao"}

WidthOf == [c \in {"a", "b", "hana", "bana", "kao", "1", "ichi", "C", "#"} |-> c]

\* Two homophones, the echo of their reading, two numbers in two spellings, an
\* abbreviation, and two long surfaces that share four characters.
A == <<"hana">>
B == <<"bana">>
Echo == <<"a", "b">>
Arabic == <<"1", "kao">>
Numeral == <<"ichi", "kao">>
Arabic11 == <<"1", "1", "kao">>
Numeral11 == <<"ichi", "ichi", "kao">>
LongA == <<"hana", "a", "a", "b", "b">>
LongB == <<"bana", "a", "a", "b", "b">>

Abbreviation == <<"C", "#">>

Surfaces == {A, B, Echo, Abbreviation, Arabic, Numeral, Arabic11, Numeral11, LongA, LongB}

OneRule == << [needles |-> {<<"kao", "kao">>}, word |-> B, bonus |-> 250000] >>

Words == (Echo :> {A})

KanjiNumbers == (<<"1">> :> {"ichi"})

\* exp(-d/100000) in ten thousandths at multiples of 0.25, zero from 6 on; between
\* them the value of the last multiple.  The scores below differ by these numbers.
ExpSteps == <<10000, 7788, 6065, 4724, 3679, 2865, 2231, 1738, 1353, 1054, 821, 639,
              498, 388, 302, 235, 183, 143, 111, 87, 67, 52, 41, 32>>
ExpTable == [d \in {25000 * k : k \in 0..50} \cup {25000 * k + 15252 : k \in 0..50}
                   \cup {25000 * k - 15252 : k \in 1..50}
             |-> IF d \div 25000 < 24 THEN ExpSteps[d \div 25000 + 1] ELSE 0]

\* 0.22 ln(1 + i).
PriorTable == [i \in 0..4 |-> <<0, 15249, 24169, 30498, 35408>>[i + 1]]

SomeTexts == {<<A>>, <<A, B>>, <<B, A, B>>, <<A, B, B>>, <<A, A, A, A, B>>, <<A, Echo, B>>, <<Arabic, B, Numeral>>,
              <<B, Numeral, Arabic>>, <<Numeral11, Arabic11, B>>, <<LongA, LongB>>, <<Echo, A, A>>, <<LongA, LongB, B>>, <<Echo, Abbreviation, B>>}

SomeContexts == {<< <<>>, <<>> >>, << <<"kao", "kao">>, <<>> >>, << <<"a", ".", "kao", ".", "kao", "kao", "a">>, <<>> >>,
                 << <<"a", "b", ",">>, <<"b", ".", "a">> >>}

SomeRequests ==
  [texts : SomeTexts, preceding : {c[1] : c \in SomeContexts}, following : {c[2] : c \in SomeContexts},
   reading : {Echo}]

\* A close score differs from the second candidate's prior by less than what
\* rounding drops.
Levels == {0, 75000, 150000, 400000}
Close == 15252
SomeModels ==
  [word : {[s \in Surfaces |-> IF s = B THEN 100000 ELSE 0]},
   sentence : {[s \in Surfaces |-> CASE s \in {A, LongA} -> x [] s \in {B, LongB} -> y
                                         [] s = Arabic11 -> z + 25000 [] OTHER -> z] :
                x \in Levels, y \in Levels \cup {Close}, z \in {0, 75000, 400000}}]

\* The backends on a machine without GPU.
Plain ==
  [backend : {"onnx", "ruri", "qwen", "dual", "rule"}, compute : {"auto"}, argument : {None},
   present : {FALSE}, session : {"cpu"}, roots : {<<{"int8", "original", "tokenizer"}, {"tuned"}>>},
   cwd : {{}}, chars : {5}, lexical : BOOLEAN]

\* Ways to load a backend, without context.
Settings(backend, compute, argument, present, session, roots, cwd) ==
  [backend |-> backend, compute |-> compute, argument |-> argument, present |-> present,
   session |-> session, roots |-> roots, cwd |-> cwd, chars |-> 0, lexical |-> FALSE]

Product(compute, present, session, roots) ==
  Settings("onnx", compute, "cpu", present, session, roots, {})

Twin(compute, argument, present, roots, cwd) ==
  Settings("ruri", compute, argument, present, "gpu", roots, cwd)

T == {"tokenizer"}

SomeConfigs ==
  Plain
  \cup {Product("auto", TRUE, "gpu", <<{"fp32"}, {"fp16"} \cup T>>),
        Product("auto", TRUE, "cpu", <<{}, {"fp16", "int8"} \cup T>>),
        Product("auto", FALSE, "cpu", <<{"int8"}>>), Product("auto", FALSE, "fails", <<{"int8"} \cup T>>),
        Product("gpu", TRUE, "cpu", <<{"fp16"} \cup T>>), Product("gpu", FALSE, "cpu", <<{"fp16"} \cup T>>),
        Product("gpu", TRUE, "gpu", <<{"fp16"} \cup T>>), Product("cpu", TRUE, "gpu", <<{"fp16"} \cup T, {}>>),
        Product("cpu", TRUE, "gpu", <<{"fp16"}, {"fp32"} \cup T>>)}
  \cup {Twin("gpu", None, FALSE, <<{"tuned"}>>, {}), Twin("gpu", None, TRUE, <<{"original"}>>, {}),
        Twin("cpu", "gpu", TRUE, <<{"original"}>>, {"tuned"}), Twin("gpu", "cpu", FALSE, <<{}>>, {"tuned"}),
        Twin("auto", "gpu", FALSE, <<{"tuned"}>>, {}), Twin("cpu", None, TRUE, <<{}>>, {"original"}),
        Settings("qwen", "cpu", "gpu", TRUE, "gpu", <<{}>>, {}),
        Settings("qwen", "auto", None, FALSE, "fails", <<{}>>, {})}

FilesForGpu == <<"fp16", "fp32">>
FilesForCpu == <<"int8", "fp32">>

\* One rule of RuleBasedRanker for the sentence, one for what is to the right.
KaoRule(sentence, right, surface) ==
  IF surface = A /\ IsPrefix(<<"b">>, right) THEN 10000
  ELSE IF surface = B /\ Has(sentence, {"kao"}) THEN 800 ELSE 0
=============================================================================
