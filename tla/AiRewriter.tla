----------------------------- MODULE AiRewriter -----------------------------
(***************************************************************************)
(* AiRewriter::Rewrite, the last of Mozc's rewriters: while the user types *)
(* it sends the nearest segment to the ranker (prefetch), at a conversion  *)
(* it walks the segments from right to left, asks the ranker about each    *)
(* and moves the candidates into the order of the answer.  A behaviour is  *)
(* any number of calls while typing, then one conversion of the same       *)
(* segments.                                                               *)
(*                                                                         *)
(* The ranker and the pipe are the environment: ai_ranker::Client gives a  *)
(* failure or, as ParseResponse lets nothing else through, each candidate  *)
(* of the request once.                                                    *)
(***************************************************************************)
EXTENDS Ordering, SequencesExt

CONSTANTS
  Inputs,           \* lists of segments Mozc may hand over
  Limit,            \* kAiCandidateSurfaceLimit
  SupplementLimit,  \* kSupplementalCandidateSurfaceLimit
  None

\* n tells candidates with the same surface apart.
Key(c) == <<c.value, c.n>>

Keys(cands) == [k \in DOMAIN cands |-> Key(cands[k])]

\* Mozc's candidates and segments: nothing else calls a candidate a supplement.
IsCandidate(c) ==
  c \in [value : {c.value}, n : {c.n}, supplemental : BOOLEAN, reranked : BOOLEAN]

IsSegment(seg) ==
  /\ seg \in [free : BOOLEAN, supplement : {seg.supplement}, cands : {seg.cands}]
  /\ seg.cands \in Seq(ToSet(seg.cands))
  /\ \A c \in ToSet(seg.cands) : IsCandidate(c) /\ ~c.supplemental
  /\ IsInjective(Keys(seg.cands))

ASSUME RewriterAssumption ==
  /\ Limit \in Nat \ {0} /\ SupplementLimit \in Nat
  /\ \A input \in Inputs : /\ input \in Seq(ToSet(input))
                           /\ \A seg \in ToSet(input) : IsSegment(seg)

VARIABLES
  input,       \* the segments as Mozc hands them over
  segs,        \* the segments as they are
  pc,          \* idle, scan (at a segment), ask, rank (waiting for an answer), done
  index,       \* the segment in hand, 0 when the loop is over
  selected,    \* selected_indices of the segment in hand
  requests,    \* what has been sent for the conversion, and its fate
  prefetched,  \* what has been sent while typing, or None
  anyReordered

vars == <<input, segs, pc, index, selected, requests, prefetched, anyReordered>>
-----------------------------------------------------------------------------
(* Candidates and segments *)

Supplemental(v) == [value |-> v, n |-> 0, supplemental |-> TRUE, reranked |-> FALSE]

Surfaces(cands) == {cands[k].value : k \in DOMAIN cands}

\* IsRerankableSegment and at least two candidates.
Rerankable(seg) == seg.free /\ Len(seg.cands) >= 2

\* AddSupplementalCandidates: the surface the table has for the reading, last.
AddSupplemental(seg) ==
  IF seg.supplement = None \/ seg.cands = <<>> \/ seg.supplement \in Surfaces(seg.cands)
  THEN seg
  ELSE [seg EXCEPT !.cands = Append(@, Supplemental(seg.supplement))]

Take(s, n) == SubSeq(s, 1, IF Len(s) < n THEN Len(s) ELSE n)

\* Seeded bug: every candidate of the window is sent.
SelectAll(cands) == Take(Identity(Len(cands)), Limit + SupplementLimit)

\* SelectDistinctCandidateSurfaces: the first candidate of each surface, then
\* the supplements, as many as the limits allow.
Select(cands) ==
  LET Indices(S) == Kept(Identity(Len(cands)), S)
      First(S) == {i \in S : \A j \in S : j < i => cands[j].value # cands[i].value}
      plain == Take(Indices(First({i \in DOMAIN cands : ~cands[i].supplemental})), Limit)
      more == First({i \in DOMAIN cands :
                       /\ cands[i].supplemental
                       /\ \A j \in ToSet(plain) : cands[j].value # cands[i].value})
  IN Take(plain \o Indices(more), Limit + SupplementLimit)

\* SegmentTopSurface; a segment without candidates shows its key.
Top(seg) == IF seg.cands = <<>> THEN None ELSE seg.cands[1].value

\* Seeded bug: the context is what Mozc handed over, not what is shown now.
RequestStale(i, sel) ==
  [index  |-> i,
   values |-> [k \in DOMAIN sel |-> segs[i].cands[sel[k]].value],
   around |-> [j \in DOMAIN segs \ {i} |-> Top(input[j])],
   answered |-> FALSE]

\* A request: the surfaces of the candidates and, as context, the surfaces the
\* other segments show (ContextBeforeSegment, ContextAfterSegment).
Request(i, sel) ==
  [index  |-> i,
   values |-> [k \in DOMAIN sel |-> segs[i].cands[sel[k]].value],
   around |-> [j \in DOMAIN segs \ {i} |-> Top(segs[j])],
   answered |-> FALSE]
-----------------------------------------------------------------------------
(* ApplySelectedPermutation *)

\* Seeded bug: the candidate stays where it was, too.
MoveCopy(s, from, to) == InsertAt(s, to, s[from])

\* move_candidate
Move(s, from, to) == InsertAt(RemoveAt(s, from), to, s[from])

\* std::find in current_ids
Find(ids, wanted) == SelectInSeq(ids, LAMBDA id : id = wanted)

\* Seeded bug: current_ids is not brought up to date.
ArrangedStale(n, desired) ==
  LET arranged[t \in 0..n] ==
        IF t = 0 THEN [ids |-> Identity(n), moves |-> <<>>]
        ELSE LET before == arranged[t - 1]
                 current == Find(before.ids, desired[t])
             IN IF current = t THEN before
                ELSE [before EXCEPT !.moves = Append(@, <<current, t>>)]
  IN arranged

\* current_ids and moves after the first t targets: each candidate is found in
\* the order that the moves before leave.
Arranged(n, desired) ==
  LET arranged[t \in 0..n] ==
        IF t = 0 THEN [ids |-> Identity(n), moves |-> <<>>]
        ELSE LET before == arranged[t - 1]
                 current == Find(before.ids, desired[t])
             IN IF current = t THEN before
                ELSE [ids   |-> Move(before.ids, current, t),
                      moves |-> Append(before.moves, <<current, t>>)]
  IN arranged

Moves(n, desired) == Arranged(n, desired)[n].moves

\* s after the first k moves.
MovedBy(s, moves) ==
  LET moved[k \in 0..Len(moves)] ==
        IF k = 0 THEN s ELSE Move(moved[k - 1], moves[k][1], moves[k][2])
  IN moved

Moved(s, moves) == MovedBy(s, moves)[Len(moves)]

\* The order of all candidates: those in the answer, then the others as they
\* were.
Desired(n, order) == order \o Kept(Identity(n), (1..n) \ ToSet(order))

\* A new top is marked RERANKED.
Mark(cands, desired) ==
  IF desired[1] = 1 THEN cands ELSE [cands EXCEPT ![1].reranked = TRUE]

Permuted(cands, order) ==
  LET desired == Desired(Len(cands), order)
  IN Mark(Moved(cands, Moves(Len(cands), desired)), desired)
-----------------------------------------------------------------------------
Init ==
  /\ input \in Inputs
  /\ segs = input
  /\ pc = "idle"
  /\ index = 0
  /\ selected = <<>>
  /\ requests = <<>>
  /\ prefetched = None
  /\ anyReordered = FALSE

\* There is something to go by: text before or after, a resized segment, shared
\* text inside the candidates (`context`), or another segment; and something to
\* rank.
Gate(context) ==
  /\ context \/ Len(segs) > 1
  /\ \E i \in DOMAIN segs : Rerankable(segs[i])

\* At least two distinct surfaces.
HasChoice(cands) == Len(Select(cands)) >= 2

\* Seeded bug: the realtime pass takes the first segment instead of the last.
PrefetchTargetFirst ==
  {i \in DOMAIN segs :
     LET Eligible(j) == Rerankable(segs[j]) /\ HasChoice(segs[j].cands)
     IN Eligible(i) /\ \A j \in DOMAIN segs : Eligible(j) => i <= j}

\* The last segment that has a choice.
PrefetchTarget ==
  {i \in DOMAIN segs :
     LET Eligible(j) == Rerankable(segs[j]) /\ HasChoice(segs[j].cands)
     IN Eligible(i) /\ \A j \in DOMAIN segs : Eligible(j) => j <= i}

\* Rewrite while typing: one prefetch, nothing else.
Realtime(context) ==
  /\ pc = "idle"
  /\ Gate(context)
  /\ \E i \in PrefetchTarget : prefetched' = Request(i, Select(segs[i].cands))
  /\ UNCHANGED <<input, segs, pc, index, selected, requests, anyReordered>>

\* Rewrite at a conversion that is allowed slow rewriters.
Convert(context) ==
  /\ pc = "idle"
  /\ IF Gate(context) THEN pc' = "scan" /\ index' = Len(segs)
                      ELSE pc' = "done" /\ UNCHANGED index
  /\ UNCHANGED <<input, segs, selected, requests, prefetched, anyReordered>>

\* The loop goes on with the segment to the left.
Continue == pc' = "scan" /\ index' = index - 1

Skip ==
  /\ pc = "scan" /\ index > 0
  /\ ~Rerankable(segs[index])
  /\ Continue
  /\ UNCHANGED <<input, segs, selected, requests, prefetched, anyReordered>>

\* The supplement is added before there is anything to ask or time to ask.
Supplement ==
  /\ pc = "scan" /\ index > 0
  /\ Rerankable(segs[index])
  /\ LET seg == AddSupplemental(segs[index])
     IN /\ segs' = [segs EXCEPT ![index] = seg]
        /\ selected' = Select(seg.cands)
        /\ IF HasChoice(seg.cands) THEN pc' = "ask" /\ UNCHANGED index ELSE Continue
  /\ UNCHANGED <<input, requests, prefetched, anyReordered>>

\* The two seconds are over: the loop is left.
OutOfTime ==
  /\ pc = "ask"
  /\ pc' = "done"
  /\ UNCHANGED <<input, segs, index, selected, requests, prefetched, anyReordered>>

Ask ==
  /\ pc = "ask"
  /\ pc' = "rank"
  /\ requests' = Append(requests, Request(index, selected))
  /\ UNCHANGED <<input, segs, index, selected, prefetched, anyReordered>>

\* Client::Rank returns false.
RankFails ==
  /\ pc = "rank"
  /\ Continue
  /\ UNCHANGED <<input, segs, selected, requests, prefetched, anyReordered>>

Rankings == {r \in [DOMAIN selected -> DOMAIN selected] : IsInjective(r)}

\* Seeded bug: only a new top counts as a change.
RankAnswersTop(r) ==
  /\ pc = "rank"
  /\ LET order == [k \in DOMAIN selected |-> selected[r[k]]]
         cands == segs[index].cands
     IN /\ segs' = [segs EXCEPT ![index].cands = Permuted(cands, order)]
        /\ anyReordered' = (anyReordered \/ Desired(Len(cands), order)[1] # 1)
  /\ requests' = [requests EXCEPT ![Len(requests)].answered = TRUE]
  /\ Continue
  /\ UNCHANGED <<input, selected, prefetched>>

\* Client::Rank returns the candidates in order r.
RankAnswers(r) ==
  /\ pc = "rank"
  /\ LET order == [k \in DOMAIN selected |-> selected[r[k]]]
         cands == segs[index].cands
     IN /\ segs' = [segs EXCEPT ![index].cands = Permuted(cands, order)]
        /\ anyReordered' = (anyReordered \/ Desired(Len(cands), order) # Identity(Len(cands)))
  /\ requests' = [requests EXCEPT ![Len(requests)].answered = TRUE]
  /\ Continue
  /\ UNCHANGED <<input, selected, prefetched>>

Return ==
  /\ pc = "scan" /\ index = 0
  /\ pc' = "done"
  /\ UNCHANGED <<input, segs, index, selected, requests, prefetched, anyReordered>>

Done == pc = "done" /\ UNCHANGED vars

Next ==
  \/ \E context \in BOOLEAN : Realtime(context) \/ Convert(context)
  \/ Skip \/ Supplement \/ OutOfTime \/ Ask \/ RankFails \/ Return \/ Done
  \/ \E r \in Rankings : RankAnswers(r)

Spec == Init /\ [][Next]_vars
-----------------------------------------------------------------------------
\* What Mozc showed is still there, once, whatever the ranker answers; the only
\* addition is the supplement (ApplySelectedPermutation only moves).
NoCandidateLost ==
  \A i \in DOMAIN segs :
     LET now == Keys(segs[i].cands)
         mozc == Keys(input[i].cands)
     IN /\ IsInjective(now)
        /\ ToSet(mozc) \subseteq ToSet(now)
        /\ ToSet(now) \subseteq ToSet(mozc) \cup {<<input[i].supplement, 0>>}

\* The answer is what is shown: the ranked candidates lead in the order of the
\* answer, all others follow in the order they had.
AnswerIsShown ==
  [][\A r \in Rankings : RankAnswers(r) =>
       LET old == Keys(segs[index].cands)
           new == Keys(segs'[index].cands)
           ranked == [k \in DOMAIN selected |-> old[selected[r[k]]]]
       IN new = ranked \o Kept(old, ToSet(old) \ ToSet(ranked))]_vars

\* Rewrite returns true exactly when the list of some segment, the supplement
\* put last, is in a new order.
ReturnTellsChange ==
  pc = "done" =>
    (anyReordered <=>
       \E i \in DOMAIN segs :
          Keys(segs[i].cands) \notin {Keys(input[i].cands),
                                      Keys(AddSupplemental(input[i]).cands)})

\* The text after a segment that the ranker was told is the text the user gets:
\* segments to the right are decided before, and never touched again.
ContextIsFinal ==
  \A k \in DOMAIN requests :
     \A j \in DOMAIN segs : j > requests[k].index =>
        requests[k].around[j] = Top(segs[j])

\* Every request offers a real choice within the limits: distinct surfaces, and
\* the one shown now among them; no segment is asked about twice.
RequestsAreChoices ==
  \A k \in DOMAIN requests :
     LET q == requests[k] IN
       /\ \A j \in 1 .. k - 1 : requests[j].index > q.index
       /\ Len(q.values) \in 2..(Limit + SupplementLimit)
       /\ IsInjective(q.values)
       /\ q.values[1] = Top(input[q.index])

\* ai_rewriter.cc, the realtime pass scores "for a later Space/Convert cache
\* hit": what was sent while typing is what the conversion of the same segments
\* asks first.
PrefetchIsReused ==
  prefetched # None /\ requests # <<>> =>
    /\ prefetched.index = requests[1].index
    /\ prefetched.values = requests[1].values
    /\ prefetched.around = requests[1].around

\* So it is for segments whose readings have no supplement.
PlainPrefetchIsReused ==
  (\A i \in DOMAIN input : input[i].supplement = None) => PrefetchIsReused
=============================================================================
