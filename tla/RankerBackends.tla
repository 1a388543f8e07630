--------------------------- MODULE RankerBackends ---------------------------
(***************************************************************************)
(* The backends behind the pipe server: the ONNX ranker of the product     *)
(* (ranker/onnx_ranker.py), the PyTorch ranker (ranker/ruri_ranker.py),    *)
(* the Qwen ranker (ranker/qwen_ranker.py) and the rule based ranker       *)
(* (ranker/ranker.py).  A backend is loaded for the user's settings on a   *)
(* machine, then ranks requests one by one.                                *)
(*                                                                         *)
(* The neural network is a function from surfaces to scores chosen with    *)
(* each request: within a batch the same pair of texts gets the same score.*)
(* The backends word their queries differently, so that nothing is said of *)
(* the scores that two of them give to the same surface.                   *)
(***************************************************************************)
EXTENDS Scoring, SequencesExt

CONSTANTS
  Configs,       \* settings and machines a backend is loaded for, see Config
  GpuFiles, CpuFiles,   \* model files in the order in which a device prefers them
  Requests,      \* requests, see Request
  Models,        \* what the network may say, see Model
  RuleBonus(_, _, _),   \* RuleBasedRanker._context_score of the sentence, of what
                        \* follows its first blank, and of a surface
  None

Files == ToSet(GpuFiles \o CpuFiles) \cup {"tokenizer", "tuned", "original", "qwen"}

Config ==
  [backend : {"onnx", "ruri", "qwen", "dual", "rule"},
   compute : {"auto", "cpu", "gpu"},      \* compute_mode of the settings
   argument : {None, "cpu", "gpu"},       \* --device
   present : BOOLEAN,                     \* the libraries report a GPU
   session : {"gpu", "cpu", "fails"},     \* where a session that asks for it runs
   roots : Seq(SUBSET Files), cwd : SUBSET Files,   \* the files below each place
   chars : Nat, lexical : BOOLEAN]

Text == Seq(STRING)

Request == [texts : Seq(Text), preceding : Text, following : Text, reading : Text]

\* Scores of a surface alone and of the sentence that it completes.
Model(surfaces) == [word : [surfaces -> Int], sentence : [surfaces -> Int]]

\* What RuleBasedRanker looks at.  It joins the three texts with blanks and strips the
\* result, so that the first blank is before the text that follows the reading
\* only when nothing precedes the reading.
RuleRight(r) == IF r.preceding = <<>> THEN r.following ELSE r.reading \o r.following
RuleSentence(r) == r.preceding \o r.reading \o r.following

ASSUME BackendAssumption ==
  /\ GpuFiles \in Seq(ToSet(GpuFiles)) /\ CpuFiles \in Seq(ToSet(CpuFiles))
  /\ Configs \subseteq Config /\ Requests \subseteq Request
  /\ \A m \in Models : m \in Model(DOMAIN m.word)
  /\ \A r \in Requests :
       /\ r.texts # <<>>      \* validate_request refuses a request without candidates
       /\ \A i \in DOMAIN r.texts :
            /\ i - 1 \in DOMAIN Prior
            /\ \A m \in Models : r.texts[i] \in DOMAIN m.word
            /\ RuleBonus(RuleSentence(r), RuleRight(r), r.texts[i]) \in Int

VARIABLES
  at,        \* "load", "failed", "ready", "asked", "scored" or "ranked"
  config,
  device,    \* what the network runs on
  file,      \* the model file
  request,
  model,     \* what the network says of the request's surfaces
  order,     \* candidates by final score
  answer     \* candidates as they are returned

vars == <<at, config, device, file, request, model, order, answer>>

N == Len(request.texts)
-----------------------------------------------------------------------------
(* Loading *)

Init ==
  /\ at = "load"
  /\ config \in Configs
  /\ device = None /\ file = None
  /\ request = None /\ model = None /\ order = <<>> /\ answer = <<>>

\* _resolve_first: the first root that has any of the files decides.
Resolve(roots, files) ==
  LET has(r) == {k \in DOMAIN files : files[k] \in roots[r]}
      first == {r \in DOMAIN roots : has(r) # {}}
  IN  IF first = {} THEN None ELSE files[Min(has(Min(first)))]

\* The backend of the product does not look at --device.  It needs its tokenizer
\* too.  A session that did not get the GPU runs the file for the GPU on the
\* processor, unless the user insists on the GPU.
Onnx ==
  LET useGpu == config.compute # "cpu" /\ config.present
      path == Resolve(config.roots, IF useGpu THEN GpuFiles ELSE CpuFiles)
      active == useGpu /\ config.session = "gpu"
  IN  IF \/ None \in {path, Resolve(config.roots, <<"tokenizer">>)}
         \/ config.session = "fails"
         \/ config.compute = "gpu" /\ ~active
      THEN None
      ELSE [file |-> path, device |-> IF active THEN "gpu" ELSE "cpu"]

\* A network of torch cannot be moved to a GPU that is not there.
Torch(path, on) ==
  IF path = None \/ config.session = "fails" \/ (on = "gpu" /\ ~config.present)
  THEN None ELSE [file |-> path, device |-> on]

\* The PyTorch backend looks for the tuned model in all places, the working
\* directory last, then for the original one below the roots.  --device goes
\* before the settings.
Ruri ==
  LET tuned == Resolve(Append(config.roots, config.cwd), <<"tuned">>)
      original == Resolve(config.roots, <<"original">>)
  IN  Torch(IF tuned # None THEN tuned ELSE original,
            IF config.argument # None THEN config.argument
            ELSE IF config.compute # "auto" THEN config.compute
            ELSE IF config.present THEN "gpu" ELSE "cpu")

\* Qwen stays where the library put it, the processor, unless --device says
\* otherwise; it does not look at the settings.
Qwen == Torch("qwen", IF config.argument # None THEN config.argument ELSE "cpu")

RuleBased == [file |-> None, device |-> "cpu"]

Loaded == CASE config.backend = "onnx" -> Onnx
            [] config.backend = "ruri" -> Ruri
            [] config.backend \in {"qwen", "dual"} -> Qwen
            [] config.backend = "rule" -> RuleBased

Load ==
  /\ at = "load"
  /\ at' = IF Loaded = None THEN "failed" ELSE "ready"
  /\ device' = IF Loaded = None THEN None ELSE Loaded.device
  /\ file' = IF Loaded = None THEN None ELSE Loaded.file
  /\ UNCHANGED <<config, request, model, order, answer>>
-----------------------------------------------------------------------------
(* Ranking *)

Ask ==
  /\ at = "ready"
  /\ request' \in Requests
  /\ model' \in Models
  /\ at' = "asked"
  /\ UNCHANGED <<config, device, file, order, answer>>

Context(c, r) == LocalContext(r.preceding, r.following, c.chars)

\* Candidates by score, equal ones in Mozc's order: a stable sort.
Sorted(score) ==
  LET Before(i, j) == score[i] > score[j] \/ (score[i] = score[j] /\ i < j)
  IN  Listed(DOMAIN score, [j \in DOMAIN score |-> {i \in DOMAIN score : Before(i, j)}])

Adjusted(c, r, raw) ==
  LET texts == r.texts
      alternatives == ToSet(texts)
  IN  [i \in DOMAIN texts |->
         raw[i] + StyleBonus(texts[i], alternatives) + FrameBonus(Context(c, r), texts[i])
         - (IF c.lexical THEN LexicalPenalty(texts[i], r.reading) ELSE 0)
         - EchoPenalty(texts[i], r.reading, alternatives)]

\* OnnxRuriReranker.rank: one pair of texts for each candidate.
OnnxScores(r, m) == [i \in DOMAIN r.texts |-> m.sentence[r.texts[i]]]

\* RuriReranker.rank: one pair for each distinct surface, then back to all
\* candidates through the index of their surface.
UniqueTexts(texts) ==
  Kept(Identity(Len(texts)), {i \in DOMAIN texts : \A j \in 1..(i - 1) : texts[j] # texts[i]})

RuriScoresShifted(r, m) ==
  LET unique == UniqueTexts(r.texts)
      batch == [k \in DOMAIN unique |-> m.sentence[r.texts[unique[k]]]]
  IN  [i \in DOMAIN r.texts |-> batch[Min({i, Len(batch)})]]
RuriScores(r, m) ==
  LET unique == UniqueTexts(r.texts)
      batch == [k \in DOMAIN unique |-> m.sentence[r.texts[unique[k]]]]
      index(i) == CHOOSE k \in DOMAIN unique : r.texts[unique[k]] = r.texts[i]
  IN  [i \in DOMAIN r.texts |-> batch[index(i)]]

Evidence(c, r, m) ==
  Adjusted(c, r, IF c.backend = "onnx" THEN OnnxScores(r, m) ELSE RuriScores(r, m))

\* To four decimals, the next one up or down.
Rounded(x) == 10 * ((x + 5) \div 10)

\* The PyTorch backend sorts by rounded scores, the ONNX one by exact ones.
FinalReversed(c, ev) == [i \in DOMAIN ev |-> ev[i] + Prior[i - 1]]
Final(c, ev) ==
  [i \in DOMAIN ev |-> IF c.backend = "ruri" THEN Rounded(ev[i] - Prior[i - 1])
                                            ELSE ev[i] - Prior[i - 1]]

\* QwenReranker.rank: one view, or two that are scored in one batch of pairs,
\* first all words, then all sentences.
QwenScores(c, r, m) ==
  LET n == Len(r.texts)
      batch == [i \in 1..n |-> m.word[r.texts[i]]] \o OnnxScores(r, m)
      words == SubSeq(batch, 1, n)
      sentences == SubSeq(batch, n + 1, 2 * n)
  IN  IF c.backend = "qwen"
      THEN words
      ELSE [i \in 1..n |-> 45 * words[i] + 55 * sentences[i] - 100 * (i - 1)]

\* RuleBasedRanker.rank
RuleScores(r) ==
  [i \in DOMAIN r.texts |->
     100 * (Len(r.texts) - i) + RuleBonus(RuleSentence(r), RuleRight(r), r.texts[i])]

IsNeural(c) == c.backend \in {"onnx", "ruri"}

Scores(c, r, m) ==
  CASE IsNeural(c) -> Final(c, Evidence(c, r, m))
    [] c.backend \in {"qwen", "dual"} -> QwenScores(c, r, m)
    [] c.backend = "rule" -> RuleScores(r)

\* What is returned of the candidates in order.
Decided(c, r, m, ranked) ==
  IF IsNeural(c) THEN Gate(ranked, Evidence(c, r, m), r.texts, r.reading, Context(c, r))
                 ELSE ranked

Score ==
  /\ at = "asked"
  /\ order' = Sorted(Scores(config, request, model))
  /\ at' = "scored"
  /\ UNCHANGED <<config, device, file, request, model, answer>>

Decide ==
  /\ at = "scored"
  /\ answer' = Decided(config, request, model, order)
  /\ at' = "ranked"
  /\ UNCHANGED <<config, device, file, request, model, order>>

\* The answer is returned; nothing of the request is kept.
Return ==
  /\ at = "ranked"
  /\ at' = "ready"
  /\ request' = None /\ model' = None /\ order' = <<>> /\ answer' = <<>>
  /\ UNCHANGED <<config, device, file>>

\* A backend that could not be loaded ends the process.
Stop == at = "failed" /\ UNCHANGED vars

Next == Load \/ Ask \/ Score \/ Decide \/ Return \/ Stop

Spec == Init /\ [][Next]_vars
-----------------------------------------------------------------------------
(* Properties *)

\* A backend that reads the settings and that no argument overrules runs where
\* they say, if they say so.
DeviceIsChosen(c, on) ==
  c.compute # "auto" /\ (c.backend = "onnx" \/ (c.backend = "ruri" /\ c.argument = None))
    => on = c.compute

TypeOK ==
  /\ at \in {"load", "failed", "ready", "asked", "scored", "ranked"}
  /\ device \in {None, "cpu", "gpu"} /\ file \in {None} \cup Files
  /\ at \notin {"load", "failed"} => DeviceIsChosen(config, device)
  /\ at \in {"scored", "ranked"} => order \in Bijection(1..N, 1..N)
  /\ at = "ranked" => answer \in Bijection(1..N, 1..N)

Position(i) == CHOOSE k \in 1..N : answer[k] = i

\* Candidates with the same surface stay in Mozc's order, whatever the backend:
\* the network says the same of both, and the prior, the stable sort and the
\* gate do not turn them round.
RepeatsKeepOrder ==
  at = "ranked" =>
    \A i, j \in 1..N : i < j /\ request.texts[i] = request.texts[j] => Position(i) < Position(j)

\* A neural backend puts a candidate before another one only if its own surface,
\* scored by itself, is not worse: not at all with ONNX, by less than the last
\* digit kept with PyTorch, which scores each distinct surface once and rounds.
\* Of equal ones Mozc's order decides.
OrderFollowsScores ==
  at = "scored" /\ IsNeural(config) =>
    LET ev == Adjusted(config, request, OnnxScores(request, model))
        Ahead(i, j) == (ev[j] - Prior[j - 1]) - (ev[i] - Prior[i - 1])
        step == IF config.backend = "ruri" THEN 10 ELSE 1
    IN  \A k, l \in 1..N : k < l => /\ Ahead(order[k], order[l]) < step
                                    /\ Ahead(order[k], order[l]) = 0 => order[k] < order[l]

\* More evidence for the best candidate never makes the gate refuse it.
GateIsMonotone ==
  at = "scored" /\ IsNeural(config) /\ order[1] # 1 =>
    LET ev == Evidence(config, request, model)
        passes(e) == Gate(order, e, request.texts, request.reading, Context(config, request))[1]
                     = order[1]
    IN  passes(ev) => \A n \in {25, 50, 100} : passes([ev EXCEPT ![order[1]] = @ + Hundredths(n)])

\* Whatever branch of the gate opens, a candidate that replaces Mozc's first has
\* at least 0.35 more evidence than it, and 0.75 if it only echoes the reading.
PromotedHasEvidence ==
  at = "ranked" /\ IsNeural(config) /\ answer[1] # 1 =>
    LET ev == Evidence(config, request, model)
        lead == ev[answer[1]] - ev[1]
    IN  IF SurfaceType(request.texts[answer[1]], request.reading) = "passthrough"
        THEN lead >= Hundredths(75) ELSE lead >= Hundredths(35)

\* The context is the sentence around the reading: as much of the text before
\* and after it as the limit allows, up to the nearest end of a sentence.
ContextIsOneSentence ==
  at = "asked" =>
    LET near == [prefix |-> AtMostLast(request.preceding, config.chars),
                 suffix |-> AtMostFirst(request.following, config.chars)]
        context == Context(config, request)
        whole(s) == ~Has(s, Boundaries)
    IN  /\ IsSuffix(context.prefix, near.prefix) /\ whole(context.prefix)
        /\ IsPrefix(context.suffix, near.suffix) /\ whole(context.suffix)
        /\ \A s \in Suffixes(near.prefix) : whole(s) => Len(s) <= Len(context.prefix)
        /\ \A s \in Prefixes(near.suffix) : whole(s) => Len(s) <= Len(context.suffix)
=============================================================================
