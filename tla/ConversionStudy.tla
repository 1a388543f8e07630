-------------------------- MODULE ConversionStudy --------------------------
(***************************************************************************)
(* The study of whole conversions (src/scripts/mozc_candidate_pipeline_    *)
(* study.py), which plays the part of the rewriter over candidates that    *)
(* Mozc gave once, the report on its rows (report_human_prefix_            *)
(* benchmark.py) and the two scripts that calibrate the safety gate on them *)
(* (calibrate_confidence_models.py, calibrate_safety_gates.py).            *)
(*                                                                         *)
(* A text is a sequence of characters.  The ranker is any that puts one    *)
(* candidate first and whose gate may put Mozc's first back there; its     *)
(* answer may come late.                                                   *)
(***************************************************************************)
EXTENDS Supplements

CONSTANTS
  Studies,          \* pairs of a list of items and a list of context modes; an item is
                    \* [category, reading, prefix, suffix, expected, acceptable, segments]
  Options,          \* [limit, dedup, reps, joint, beam] of the command line
  Sentence,         \* the sentence that the mode previous_sentence puts first
  Leads,            \* leads over Mozc's first candidate and over the runner-up
  Nobody            \* no row, no report; the segment of a call for a whole reading

IsItem(item) ==
  /\ {item.reading, item.prefix, item.suffix, item.expected} \subseteq Text
  /\ item.expected \in item.acceptable
  /\ item.segments \in Seq(ToSet(item.segments))
  /\ \A s \in ToSet(item.segments) : /\ s \in [key : Text, candidates : Seq(Text)]
                                    /\ s.candidates # <<>>
  /\ Keys(item.segments) = item.reading

\* Mozc's segments make up the reading, and each has a candidate.
ASSUME StudyAssumption ==
  /\ \A study \in Studies : /\ \A k \in {1, 2} : study[k] \in Seq(ToSet(study[k]))
                            /\ \A item \in ToSet(study[1]) : IsItem(item)
  /\ \A o \in Options : {o.limit, o.joint, o.beam} \subseteq Nat /\ {o.dedup, o.reps} \subseteq BOOLEAN
  /\ Sentence \in Text

VARIABLES
  options,
  todo,             \* pairs of an item and a mode
  row,              \* the row in progress
  rows,             \* the finished ones
  report            \* rows of the report

studyVars == <<options, todo, row, rows, report>>

ContextForMode(item, mode) ==
  [before |-> CASE mode \in {"both", "prefix_only"} -> item.prefix
                [] mode = "short_prefix" -> From(item.prefix, IF Len(item.prefix) > 2 THEN Len(item.prefix) - 1 ELSE 1)
                [] mode = "previous_sentence" -> Sentence \o item.prefix
                [] OTHER -> <<>>,
   after |-> IF mode \in {"both", "suffix_only", "previous_sentence"} THEN item.suffix ELSE <<>>]

StudyInit ==
  /\ options \in Options
  /\ \E study \in Studies :
       LET items == study[1]
           modes == study[2]
       IN  todo = FlattenSeq([i \in 1 .. Len(items) |-> [m \in 1 .. Len(modes) |-> <<items[i], modes[m]>>]])
  /\ row = Nobody
  /\ rows = <<>>
  /\ report = Nobody

-----------------------------------------------------------------------------
(* What is sent to the ranker.                                               *)

FirstOf(s, n) == SubSeq(s, 1, IF n < Len(s) THEN n ELSE Len(s))

\* The decimal forms of numbers among those that are sent anyway.
Representatives(candidates, numbers, digitsOnly) ==
  Kept(candidates, {c \in ToSet(candidates) : /\ c \in numbers /\ c = CanonicalNumber(c)
                                              /\ digitsOnly => HasDigit(c)})

WithRepresentatives(sent, others, digitsOnly) ==
  sent \o (IF options.reps
           THEN Representatives(others, {CanonicalNumber(c) : c \in ToSet(sent)}, digitsOnly) ELSE <<>>)

\* The first candidates, the supplements, and the representatives beyond the limit.
ToSend(segment, limit, digitsOnly) ==
  WithRepresentatives(Merged(segment.key, FirstOf(segment.candidates, limit)),
                      From(segment.candidates, limit + 1), digitsOnly)

Deduplicated(segment) == [segment EXCEPT !.candidates = Distinct(@)]

Sent(segment) ==
  LET s == IF options.dedup THEN Deduplicated(segment) ELSE segment
  IN  IF options.limit = 0 THEN Merged(s.key, s.candidates) ELSE ToSend(s, options.limit, FALSE)

\* Every hypothesis with every candidate, the cheapest first; the cost of one is the
\* sum of its ranks.  The code puts equal costs in the order of the texts, which
\* are not ordered here: the places are.
Expanded(hs, choices) ==
  LET places == (1 .. Len(hs)) \X (1 .. Len(choices))
      cost == [p \in places |-> hs[p[1]].cost + p[2] - 1]
      Cheaper(q, p) ==
        \/ cost[q] < cost[p]
        \/ cost[q] = cost[p] /\ (q[1] < p[1] \/ (q[1] = p[1] /\ q[2] < p[2]))
      sorted == Listed(places, [p \in places |-> {q \in places : Cheaper(q, p)}])
  IN  [k \in 1 .. Len(sorted) |-> [parts |-> Append(hs[sorted[k][1]].parts, choices[sorted[k][2]]),
                                  cost |-> cost[sorted[k]]]]

Hypotheses(choices) ==
  LET Best(hs) == IF options.beam > 0 THEN FirstOf(hs, options.beam) ELSE hs
      grown[n \in 0 .. Len(choices)] ==
        IF n = 0 THEN << [parts |-> <<>>, cost |-> 0] >> ELSE Best(Expanded(grown[n - 1], choices[n]))
  IN  grown[Len(choices)]

JointSent(segments) ==
  LET hs == Hypotheses([i \in 1 .. Len(segments) |-> ToSend(Deduplicated(segments[i]), options.joint, TRUE)])
  IN  [k \in 1 .. Len(hs) |-> FlattenSeq(hs[k].parts)]

-----------------------------------------------------------------------------
(* One row.                                                                  *)

IsJoint(item) == options.joint > 0 /\ Len(item.segments) > 1

BeginRow ==
  /\ row = Nobody
  /\ todo # <<>>
  /\ LET item == Head(todo)[1]
         c == ContextForMode(item, Head(todo)[2])
         segments == IF IsJoint(item) THEN item.segments ELSE Prepared(item.reading, item.segments)
         called == c.before # <<>> \/ c.after # <<>> \/ Len(segments) > 1 \/ Len(item.reading) >= 6
     IN  row' = [item |-> item, mode |-> Head(todo)[2], segments |-> segments, tops |-> Tops(segments),
                 left |-> IF IsJoint(item) THEN 1 ELSE IF called THEN Len(segments) ELSE 0,
                 traces |-> <<>>]
  /\ todo' = Tail(todo)
  /\ UNCHANGED <<options, rows, report>>

\* The context of segment i: what stands before it is Mozc's still, what stands
\* after it is chosen.
Before(i) == ContextForMode(row.item, row.mode).before \o FlattenSeq(SubSeq(row.tops, 1, i - 1))

\* Seeded bug: Mozc's first candidates on both sides.
AfterRaw(i) == FlattenSeq(From(Tops(row.segments), i + 1)) \o ContextForMode(row.item, row.mode).after

After(i) == FlattenSeq(From(row.tops, i + 1)) \o ContextForMode(row.item, row.mode).after

Answer(sent) ==
  {[sent |-> sent, neural |-> n, selected |-> sent[IF kept THEN 1 ELSE n], late |-> late, lead |-> lead, runner |-> runner] :
     n \in 1 .. Len(sent), kept \in BOOLEAN, late \in BOOLEAN, lead \in Leads, runner \in Leads}

\* One call per segment, from right to left; the answer of a late one is dropped.
RankSegment ==
  /\ row # Nobody
  /\ row.left > 0
  /\ ~IsJoint(row.item)
  /\ \E a \in Answer(Sent(row.segments[row.left])) :
       row' = [row EXCEPT !.left = @ - 1,
                          !.tops[row.left] = IF a.late THEN @ ELSE a.selected,
                          !.traces = Append(@, [segment |-> row.left, before |-> Before(row.left),
                                                after |-> After(row.left), answer |-> a])]
  /\ UNCHANGED <<options, todo, rows, report>>

\* One call for the whole reading.
RankJoint ==
  /\ row # Nobody
  /\ row.left > 0
  /\ IsJoint(row.item)
  /\ \E a \in Answer(JointSent(row.segments)) :
       row' = [row EXCEPT !.left = 0,
                          !.tops = IF a.late THEN @ ELSE <<a.selected>>,
                          !.traces = << [segment |-> Nobody, before |-> Before(1),
                                         after |-> ContextForMode(row.item, row.mode).after, answer |-> a] >>]
  /\ UNCHANGED <<options, todo, rows, report>>

FinishRow ==
  /\ row # Nobody
  /\ row.left = 0
  /\ LET raw == FlattenSeq(Tops(row.segments))
         ai == FlattenSeq(row.tops)
     IN  rows' = Append(rows, [item |-> row.item, mode |-> row.mode, traces |-> row.traces,
                               raw |-> raw, ai |-> ai,
                               raw_correct |-> raw \in row.item.acceptable,
                               ai_correct |-> ai \in row.item.acceptable])
  /\ row' = Nobody
  /\ UNCHANGED <<options, todo, report>>

\* by_context_mode and by_category, for one mode or category.
Summary(S) ==
  [raw |-> Cardinality({i \in S : rows[i].raw_correct}),
   ai |-> Cardinality({i \in S : rows[i].ai_correct}),
   changed |-> Cardinality({i \in S : rows[i].ai # rows[i].raw}),
   exhausted |-> Cardinality({i \in S : \E t \in ToSet(rows[i].traces) : t.answer.late}),
   regressions |-> Cardinality({i \in S : rows[i].raw_correct /\ ~rows[i].ai_correct}),
   recoveries |-> Cardinality({i \in S : ~rows[i].raw_correct /\ rows[i].ai_correct})]

-----------------------------------------------------------------------------
(* The report.                                                               *)

\* The texts of both, put together, that an acceptable surface begins with.
Composed(texts, more, acceptable) ==
  {t \in UNION {{p \o c : c \in more} : p \in texts} : \E e \in acceptable : IsPrefix(t, e)}

\* Some choice of one candidate per list, of the first `limit` distinct ones (all
\* of them for 0), makes an acceptable surface.
CanCompose(lists, acceptable, limit) ==
  LET Tried(list) == ToSet(IF limit = 0 THEN list ELSE FirstOf(Distinct(list), limit))
      partial[n \in 0 .. Len(lists)] ==
        IF n = 0 THEN {<<>>} ELSE Composed(partial[n - 1], Tried(lists[n]), acceptable)
  IN  partial[Len(lists)] \cap acceptable # {}

AugmentedLists(segments) ==
  LET List(s) == Merged(s.key, IF options.limit = 0 THEN s.candidates ELSE FirstOf(s.candidates, options.limit))
  IN  [i \in 1 .. Len(segments) |-> List(segments[i])]

Augmented(item) == AugmentedLists(Prepared(item.reading, item.segments))

\* The surface of the ranker's own first choices.
NeuralSurface(r) ==
  LET Choice(i) == (CHOOSE t \in ToSet(r.traces) : t.segment = i).answer
  IN  IF r.traces = <<>> THEN FlattenSeq(Tops(r.item.segments))
      ELSE FlattenSeq([i \in 1 .. Len(r.traces) |-> Choice(i).sent[Choice(i).neural]])

Stage(a) ==
  CASE a.ai_ok -> "correct"
    [] ~a.ai_ok /\ ~a.sent_reachable -> "candidate_missing"
    [] ~a.ai_ok /\ a.sent_reachable /\ a.neural_ok -> "safety_gate"
    [] OTHER -> "neural_ranking"

Analyzed(r) ==
  [row |-> r,
   raw_ok |-> r.raw \in r.item.acceptable,
   ai_ok |-> r.ai \in r.item.acceptable,
   neural_ok |-> NeuralSurface(r) \in r.item.acceptable,
   all_reachable |-> CanCompose(Augmented(r.item), r.item.acceptable, 0),
   sent_reachable |-> CanCompose(Augmented(r.item), r.item.acceptable, options.limit)]

\* The segment of a joint call is Nobody, which the report cannot compare.
Report ==
  /\ todo = <<>>
  /\ row = Nobody
  /\ report = Nobody
  /\ LET failed == \E r \in ToSet(rows) : IsJoint(r.item)
     IN  report' = [TypeError |-> failed,
                    rows |-> IF failed THEN <<>> ELSE [i \in 1 .. Len(rows) |-> Analyzed(rows[i])]]
  /\ UNCHANGED <<options, todo, row, rows>>

StudyNext == BeginRow \/ RankSegment \/ RankJoint \/ FinishRow \/ Report

StudySpec == StudyInit /\ [][StudyNext]_studyVars

-----------------------------------------------------------------------------
(* Calibration of the gate on rows with one call.                            *)

\* Rows on which the ranker and Mozc differ.
HasFeatures(r) == Len(r.traces) = 1 /\ r.traces[1].answer.neural # 1

NeuralText(r) == r.traces[1].answer.sent[r.traces[1].answer.neural]

\* _fixed_policies.
Accepts(r, margin, gap) == r.traces[1].answer.lead >= margin /\ r.traces[1].answer.runner >= gap

Project(r, accept) == IF accept THEN NeuralText(r) ELSE r.raw

Counts(surface) ==
  LET S == DOMAIN surface
  IN  [recoveries |-> Cardinality({i \in S : ~rows[i].raw_correct /\ surface[i] = rows[i].item.expected}),
       regressions |-> Cardinality({i \in S : rows[i].raw_correct /\ surface[i] # rows[i].item.expected}),
       changed |-> Cardinality({i \in S : surface[i] # rows[i].raw})]

\* calibrate_confidence_models.py: only rows with features.
Metrics(margin, gap) ==
  Counts([i \in {j \in DOMAIN rows : HasFeatures(rows[j])} |-> Project(rows[i], Accepts(rows[i], margin, gap))])

\* calibrate_safety_gates.py: all rows, which may have one call at most.
ProjectedSurface(r, margin, gap) ==
  IF HasFeatures(r) /\ r.traces[1].answer.lead >= margin /\ r.traces[1].answer.runner >= gap
  THEN NeuralText(r) ELSE r.raw

Evaluate(margin, gap) == Counts([i \in DOMAIN rows |-> ProjectedSurface(rows[i], margin, gap)])

-----------------------------------------------------------------------------
(* Properties.                                                               *)

\* Collapsing segments for a supplement keeps the reading
\* (candidate_supplements.py:195-218).
KeepsReading == row # Nobody => Keys(row.segments) = row.item.reading

\* What a call is told to follow is what the row shows there in the end
\* (mozc_candidate_pipeline_study.py:197-200, 252).
FollowingIsFinal ==
  \A r \in ToSet(rows) : \A t \in ToSet(r.traces) :
     IsSuffix(t.after, r.ai \o ContextForMode(r.item, r.mode).after)

\* Of the hypotheses for a whole reading the first is Mozc's own surface, at any
\* width of the beam (mozc_candidate_pipeline_study.py:323).
BaselineIsFirst ==
  \A r \in ToSet(rows) : IsJoint(r.item) => r.traces[1].answer.sent[1] = r.raw

\* Without the options that send other candidates, the report finds an answer that
\* is correct within reach of all candidates (report_human_prefix_benchmark.py:135).
WithinReach ==
  report # Nobody /\ ~options.dedup /\ ~options.reps =>
    \A a \in ToSet(report.rows) : a.ai_ok => a.all_reachable

\* A study changes at most the rows with a call in time, and no answer of a call
\* that came late is counted (mozc_candidate_pipeline_study.py:234-252).
LateChangesNothing ==
  LET s == Summary(DOMAIN rows)
      late == {i \in DOMAIN rows : \A t \in ToSet(rows[i].traces) : t.answer.late}
  IN  s.changed <= Len(rows) - Cardinality(late) /\ s.ai - s.raw = s.recoveries - s.regressions

\* Both calibration scripts find the same recoveries and changes for the same
\* thresholds, though one leaves rows out (calibrate_confidence_models.py:112-134,
\* calibrate_safety_gates.py:15-52).
CalibrationsAgree ==
  (\A r \in ToSet(rows) : Len(r.traces) <= 1) =>
    \A m \in Leads, g \in Leads :
       /\ Metrics(m, g).recoveries = Evaluate(m, g).recoveries
       /\ Metrics(m, g).changed = Evaluate(m, g).changed

\* Rows change only where none is in progress.
StudySound ==
  /\ KeepsReading
  /\ row = Nobody => /\ FollowingIsFinal /\ BaselineIsFirst
                   /\ WithinReach /\ LateChangesNothing /\ CalibrationsAgree

\* The report calls the rate of sent_reachable the theoretical ceiling of the
\* candidates sent to the AI (report_human_prefix_benchmark.py:260): no correct
\* answer lies above it.
CeilingHolds ==
  report # Nobody => \A a \in ToSet(report.rows) : a.ai_ok => a.sent_reachable
=============================================================================
