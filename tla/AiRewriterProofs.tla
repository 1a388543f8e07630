-------------------------- MODULE AiRewriterProofs --------------------------
(***************************************************************************)
(* Proofs about the rewriter of AiRewriter for any segments and candidates,*)
(* any limits and any answers of the ranker.                               *)
(***************************************************************************)
EXTENDS AiRewriter, OrderingProofs, FiniteSetTheorems, SequenceTheorems, TLAPS
IsRequest(q) ==
  q \in [index : Nat, values : {q.values}, around : {q.around}, answered : BOOLEAN]

RequestTypes ==
  /\ \E S : requests \in Seq(S)
  /\ \A k \in DOMAIN requests : IsRequest(requests[k])

\* Where the loop is, and what it works on.
Places ==
  /\ input \in Inputs /\ DOMAIN segs = DOMAIN input
  /\ pc \in {"idle", "scan", "ask", "rank", "done"}
  /\ index \in 0..Len(input)
  /\ pc = "idle" => segs = input /\ requests = <<>>
  /\ pc \in {"ask", "rank"} => index > 0
  /\ pc = "rank" => requests # <<>>

\* Requests go to the left.
GoneBy ==
  \A k \in DOMAIN requests : /\ index <= requests[k].index
                             /\ pc \in {"scan", "ask"} => index < requests[k].index

LoopInv == RequestTypes /\ Places /\ GoneBy

-----------------------------------------------------------------------------
(* Sequences of requests.                                                    *)

\* The segments are numbered from 1 on.
LEMMA InputIsSequence ==
  ASSUME Places
  PROVE  Len(input) \in Nat /\ DOMAIN input = 1..Len(input) /\ input \in Seq(ToSet(input))
BY RewriterAssumption DEF Places

\* A request is added behind the others.
LEMMA Sent ==
  ASSUME NEW q, RequestTypes, requests' = Append(requests, q)
  PROVE  /\ \E S : requests' \in Seq(S)
         /\ Len(requests) \in Nat /\ DOMAIN requests = 1..Len(requests)
         /\ DOMAIN requests' = 1..Len(requests) + 1
         /\ \A k \in DOMAIN requests : requests'[k] = requests[k]
         /\ requests'[Len(requests) + 1] = q
<1>1. PICK S : requests \in Seq(S)
  BY DEF RequestTypes
<1> DEFINE T == S \cup {q}
<1>2. requests \in Seq(T) /\ q \in T
  BY <1>1
<1> HIDE DEF T
<1>3. /\ requests' \in Seq(T) /\ Len(requests') = Len(requests) + 1
      /\ \A k \in 1..Len(requests) : requests'[k] = requests[k]
      /\ requests'[Len(requests) + 1] = q
  BY <1>2, AppendProperties
<1> QED BY <1>2, <1>3

\* That a request was answered changes nothing else of it.
LEMMA Answered ==
  ASSUME RequestTypes, requests # <<>>,
         requests' = [requests EXCEPT ![Len(requests)].answered = TRUE]
  PROVE  /\ RequestTypes' /\ DOMAIN requests' = DOMAIN requests
         /\ \A k \in DOMAIN requests : /\ requests'[k].index = requests[k].index
                                       /\ requests'[k].values = requests[k].values
                                       /\ requests'[k].around = requests[k].around
<1>1. PICK S : requests \in Seq(S)
  BY DEF RequestTypes
<1> DEFINE n == Len(requests)
           e == [requests[n] EXCEPT !.answered = TRUE]
           T == S \cup {e}
<1>2. n \in Nat /\ n # 0 /\ DOMAIN requests = 1..n /\ n \in 1..n
  BY <1>1
<1>3. requests \in Seq(T) /\ e \in T
  BY <1>1
<1>4. requests' = [requests EXCEPT ![n] = e]
  OBVIOUS
<1>5. IsRequest(requests[n])
  BY <1>2 DEF RequestTypes
<1>6. /\ IsRequest(e) /\ e.index = requests[n].index
      /\ e.values = requests[n].values /\ e.around = requests[n].around
  BY <1>5 DEF IsRequest
<1> HIDE DEF n, e, T
<1>7. /\ requests' \in Seq(T) /\ Len(requests') = n
      /\ \A k \in 1..n : requests'[k] = IF k = n THEN e ELSE requests[k]
  <2>1. n \in 1..Len(requests)
    BY <1>2 DEF n
  <2>2. /\ [requests EXCEPT ![n] = e] \in Seq(T)
        /\ Len([requests EXCEPT ![n] = e]) = Len(requests)
        /\ \A j \in 1..Len(requests) :
              [requests EXCEPT ![n] = e][j] = IF j = n THEN e ELSE requests[j]
    BY <1>3, <2>1, ExceptSeq
  <2> QED BY <1>4, <2>2 DEF n
<1>8. DOMAIN requests' = 1..n
  BY <1>7
<1> QED BY <1>2, <1>5, <1>6, <1>7, <1>8 DEF RequestTypes

-----------------------------------------------------------------------------
(* The loop goes to the left.                                                *)

\* What all steps have in common that send nothing.
LEMMA QuietStep ==
  ASSUME LoopInv, UNCHANGED <<input, requests>>, DOMAIN segs' = DOMAIN segs,
         \/ /\ pc' = "scan" /\ index' = index - 1 /\ index > 0 /\ pc # "idle"
         \/ /\ pc \in {"scan", "ask"} /\ pc' \in {"ask", "done"} /\ index' = index
            /\ pc' = "ask" => index > 0
         \/ /\ UNCHANGED <<pc, index, segs>>
  PROVE  LoopInv'
<1>1. RequestTypes'
  BY DEF LoopInv, RequestTypes, IsRequest
<1>2. Len(input) \in Nat
  BY InputIsSequence DEF LoopInv
<1>3. Places'
  BY <1>2 DEF LoopInv, Places
<1>4. GoneBy'
  <2> SUFFICES ASSUME NEW k \in DOMAIN requests
               PROVE  index' <= requests[k].index /\ (pc' \in {"scan", "ask"} => index' < requests[k].index)
    BY DEF GoneBy
  <2>1. requests[k].index \in Nat /\ index \in Nat
    BY <1>2 DEF LoopInv, RequestTypes, Places, IsRequest
  <2> QED BY <2>1 DEF LoopInv, GoneBy
<1> QED BY <1>1, <1>3, <1>4 DEF LoopInv

\* No step of the rewriter leaves the loop's invariant.
LEMMA LoopStep ==
  ASSUME LoopInv, [Next]_vars
  PROVE  LoopInv'
<1> USE DEF LoopInv
<1>1. Len(input) \in Nat /\ DOMAIN input = 1..Len(input)
  BY InputIsSequence
<1>2. ASSUME NEW context \in BOOLEAN, Realtime(context)
      PROVE  LoopInv'
  BY <1>2, QuietStep DEF Realtime
<1>3. ASSUME NEW context \in BOOLEAN, Convert(context)
      PROVE  LoopInv'
  <2>1. pc = "idle" /\ segs = input /\ requests = <<>> /\ UNCHANGED <<input, segs, requests>>
    BY <1>3 DEF Convert, Places
  <2>2. pc' \in {"scan", "done"} /\ index' \in 0..Len(input)
    BY <1>1, <1>3, <2>1 DEF Convert, Places
  <2>3. RequestTypes' /\ GoneBy'
    BY <2>1 DEF RequestTypes, IsRequest, GoneBy
  <2>4. Places'
    BY <2>1, <2>2 DEF Places
  <2> QED BY <2>3, <2>4
<1>4. CASE Skip
  <2>1. UNCHANGED <<input, segs, requests>> /\ pc = "scan" /\ index > 0
        /\ pc' = "scan" /\ index' = index - 1
    BY <1>4 DEF Skip, Continue
  <2> QED BY <2>1, QuietStep
<1>5. CASE Supplement
  <2>1. UNCHANGED <<input, requests>> /\ pc = "scan" /\ index > 0 /\ DOMAIN segs' = DOMAIN segs
    BY <1>5 DEF Supplement
  <2>2. (pc' = "ask" /\ index' = index) \/ (pc' = "scan" /\ index' = index - 1)
    BY <1>5 DEF Supplement, Continue
  <2> QED BY <2>1, <2>2, QuietStep
<1>6. CASE OutOfTime
  BY <1>6, QuietStep DEF OutOfTime
<1>7. CASE Ask
  <2> DEFINE q == Request(index, selected)
  <2>1. requests' = Append(requests, q) /\ pc = "ask" /\ pc' = "rank" /\ UNCHANGED <<input, segs, index>>
    BY <1>7 DEF Ask
  <2>2. IsRequest(q) /\ q.index = index
    BY <1>1 DEF IsRequest, Request, Places
  <2> HIDE DEF q
  <2>3. /\ \E S : requests' \in Seq(S)
        /\ Len(requests) \in Nat /\ DOMAIN requests = 1..Len(requests)
        /\ DOMAIN requests' = 1..Len(requests) + 1
        /\ \A k \in DOMAIN requests : requests'[k] = requests[k]
        /\ requests'[Len(requests) + 1] = q
    BY <2>1, Sent
  <2>4. \A k \in DOMAIN requests' : k \in DOMAIN requests \/ k = Len(requests) + 1
    BY <2>3
  <2>5. RequestTypes'
    BY <2>2, <2>3, <2>4 DEF RequestTypes, IsRequest
  <2>6. Places'
    <3>1. requests' # <<>>
      BY <2>3
    <3> QED BY <2>1, <3>1 DEF Places
  <2>7. GoneBy'
    BY <1>1, <2>1, <2>2, <2>3, <2>4 DEF GoneBy, Places
  <2> QED BY <2>5, <2>6, <2>7
<1>8. CASE RankFails
  <2>1. UNCHANGED <<input, segs, requests>> /\ pc = "rank" /\ pc' = "scan" /\ index' = index - 1
    BY <1>8 DEF RankFails, Continue
  <2>2. index > 0
    BY <2>1 DEF Places
  <2> QED BY <2>1, <2>2, QuietStep
<1>9. CASE Return
  <2>1. UNCHANGED <<input, segs, requests, index>> /\ pc = "scan" /\ pc' = "done"
    BY <1>9 DEF Return
  <2> QED BY <2>1, QuietStep
<1>10. CASE Done
  BY <1>10, QuietStep DEF Done, vars
<1>11. ASSUME NEW r \in Rankings, RankAnswers(r)
       PROVE  LoopInv'
  <2>1. /\ pc = "rank" /\ pc' = "scan" /\ index' = index - 1
        /\ input' = input /\ DOMAIN segs' = DOMAIN segs
        /\ requests' = [requests EXCEPT ![Len(requests)].answered = TRUE]
    BY <1>11 DEF RankAnswers, Continue
  <2>2. index \in 1..Len(input) /\ requests # <<>>
    BY <1>1, <2>1 DEF Places
  <2>3. /\ RequestTypes' /\ DOMAIN requests' = DOMAIN requests
        /\ \A k \in DOMAIN requests : requests'[k].index = requests[k].index
    BY <2>1, <2>2, Answered
  <2>4. Places'
    BY <1>1, <2>1, <2>2 DEF Places
  <2>5. \A k \in DOMAIN requests : requests[k].index \in Nat
    BY DEF RequestTypes, IsRequest
  <2>6. GoneBy'
    BY <1>1, <2>1, <2>2, <2>3, <2>5 DEF GoneBy
  <2> QED BY <2>3, <2>4, <2>6
<1>12. CASE UNCHANGED vars
  BY <1>12, QuietStep DEF vars
<1> QED BY <1>2, <1>3, <1>4, <1>5, <1>6, <1>7, <1>8, <1>9, <1>10, <1>11, <1>12 DEF Next

-----------------------------------------------------------------------------
(* What the ranker was told of the segments to the right.                    *)

\* A step touches no segment to the right of the one in hand.
LEMMA RightIsFinal ==
  ASSUME LoopInv, [Next]_vars
  PROVE  /\ DOMAIN segs' = DOMAIN segs
         /\ \A j \in DOMAIN segs : j # index => segs'[j] = segs[j]
<1>1. CASE UNCHANGED segs
  BY <1>1
<1>2. CASE Supplement
  BY <1>2 DEF Supplement
<1>3. ASSUME NEW r \in Rankings, RankAnswers(r)
      PROVE  /\ DOMAIN segs' = DOMAIN segs
             /\ \A j \in DOMAIN segs : j # index => segs'[j] = segs[j]
  <2> DEFINE seg == [segs[index] EXCEPT !.cands =
                       Permuted(segs[index].cands, [k \in DOMAIN selected |-> selected[r[k]]])]
  <2>1. segs' = [segs EXCEPT ![index] = seg]
    BY <1>3 DEF RankAnswers
  <2> HIDE DEF seg
  <2> QED BY <2>1
<1> QED BY <1>1, <1>2, <1>3
        DEF Next, Realtime, Convert, Skip, OutOfTime, Ask, RankFails, Return, Done, vars

\* A request keeps what it told; a new one is made of the segments as they are.
LEMMA RequestsKeep ==
  ASSUME LoopInv, [Next]_vars
  PROVE  /\ DOMAIN requests \subseteq DOMAIN requests'
         /\ \A k \in DOMAIN requests : /\ requests'[k].index = requests[k].index
                                       /\ requests'[k].values = requests[k].values
                                       /\ requests'[k].around = requests[k].around
         /\ \A k \in DOMAIN requests' \ DOMAIN requests :
              Ask /\ requests'[k] = Request(index, selected)
<1>1. CASE UNCHANGED requests
  BY <1>1
<1>2. CASE Ask
  <2>1. requests' = Append(requests, Request(index, selected))
    BY <1>2 DEF Ask
  <2>2. /\ Len(requests) \in Nat /\ DOMAIN requests = 1..Len(requests)
        /\ DOMAIN requests' = 1..Len(requests) + 1
        /\ \A k \in DOMAIN requests : requests'[k] = requests[k]
        /\ requests'[Len(requests) + 1] = Request(index, selected)
    BY <2>1, Sent DEF LoopInv
  <2> QED BY <1>2, <2>2
<1>3. ASSUME NEW r \in Rankings, RankAnswers(r)
      PROVE  /\ DOMAIN requests' = DOMAIN requests
             /\ \A k \in DOMAIN requests : /\ requests'[k].index = requests[k].index
                                           /\ requests'[k].values = requests[k].values
                                           /\ requests'[k].around = requests[k].around
  <2>1. requests # <<>> /\ requests' = [requests EXCEPT ![Len(requests)].answered = TRUE]
    BY <1>3 DEF RankAnswers, LoopInv, Places
  <2> QED BY <2>1, Answered DEF LoopInv
<1> QED BY <1>1, <1>2, <1>3
        DEF Next, Realtime, Convert, Skip, Supplement, OutOfTime, RankFails, Return, Done, vars

\* No step changes what the ranker was told of the segments to the right.
LEMMA ContextStep ==
  ASSUME LoopInv, ContextIsFinal, [Next]_vars
  PROVE  ContextIsFinal'
<1> SUFFICES ASSUME NEW k \in DOMAIN requests', NEW j \in DOMAIN segs', j > requests'[k].index
             PROVE  requests'[k].around[j] = Top(segs'[j])
  BY DEF ContextIsFinal, Top
<1>1. Len(input) \in Nat /\ DOMAIN segs = 1..Len(input) /\ index \in Nat
  BY InputIsSequence DEF LoopInv, Places
<1>2. DOMAIN segs' = DOMAIN segs /\ (j # index => segs'[j] = segs[j])
  BY RightIsFinal
<1>3. CASE k \in DOMAIN requests
  <2>1. /\ requests'[k].index = requests[k].index
        /\ requests'[k].around = requests[k].around
    BY <1>3, RequestsKeep
  <2>2. requests[k].index \in Nat /\ index <= requests[k].index
    BY <1>3 DEF LoopInv, RequestTypes, IsRequest, GoneBy
  <2>3. j # index
    BY <1>1, <1>2, <2>1, <2>2
  <2> QED BY <1>2, <1>3, <2>1, <2>3 DEF ContextIsFinal
<1>4. CASE k \notin DOMAIN requests
  <2>1. Ask /\ requests'[k] = Request(index, selected)
    BY <1>4, RequestsKeep
  <2>2. requests'[k].index = index /\ j # index /\ segs' = segs
    BY <1>1, <1>2, <2>1 DEF Ask, Request
  <2>3. requests'[k].around[j] = Top(segs[j])
    BY <1>2, <2>1, <2>2 DEF Request
  <2> QED BY <2>2, <2>3
<1> QED BY <1>3, <1>4

\* The loop's invariant holds always.
LEMMA LoopCorrect == Spec => []LoopInv
<1>1. Init => LoopInv
  <2> SUFFICES ASSUME Init
               PROVE  LoopInv
    OBVIOUS
  <2>1. RequestTypes /\ GoneBy
    BY DEF Init, RequestTypes, IsRequest, GoneBy
  <2>2. input \in Seq(ToSet(input))
    BY RewriterAssumption DEF Init
  <2>3. Places
    BY <2>2 DEF Init, Places
  <2> QED BY <2>1, <2>3 DEF LoopInv
<1>2. LoopInv /\ [Next]_vars => LoopInv'
  BY LoopStep
<1> QED BY <1>1, <1>2, PTL DEF Spec

\* Whatever segments Mozc hands over and whatever the ranker answers, the text
\* to the right of a segment that the ranker was told is the text the user gets.
THEOREM RightContextIsFinal == Spec => []ContextIsFinal
<1>1. Init => ContextIsFinal
  BY DEF Init, ContextIsFinal
<1>2. LoopInv /\ ContextIsFinal /\ [Next]_vars => ContextIsFinal'
  BY ContextStep
<1> QED BY <1>1, <1>2, LoopCorrect, PTL DEF Spec

-----------------------------------------------------------------------------
(* What is sent while typing and what the conversion asks first.             *)

Plain == \A i \in DOMAIN input : input[i].supplement = None

Eligible(seg) == Rerankable(seg) /\ HasChoice(seg.cands)

\* Segment i of s is the last with a choice.
LastChoice(s, i) ==
  /\ i \in DOMAIN s /\ Eligible(s[i])
  /\ \A j \in DOMAIN s : Eligible(s[j]) => j <= i

\* q is the request for segment i of s.
Asks(s, q, i) ==
  /\ q.index = i
  /\ LET sel == Select(s[i].cands)
     IN q.values = [k \in DOMAIN sel |-> s[i].cands[sel[k]].value]
  /\ q.around = [j \in DOMAIN s \ {i} |-> Top(s[j])]

AsksForLast(s, q) == \E i \in DOMAIN s : LastChoice(s, i) /\ Asks(s, q, i)

\* Until something is asked the segments are Mozc's, and none to the right of
\* the one in hand has a choice.
Untouched ==
  requests = <<>> /\ pc \in {"scan", "ask"} =>
    /\ segs = input
    /\ \A j \in DOMAIN input : j > index => ~Eligible(input[j])
    /\ pc = "ask" => Eligible(input[index]) /\ selected = Select(input[index].cands)

FirstInv ==
  Plain =>
    /\ prefetched # None => AsksForLast(input, prefetched)
    /\ requests # <<>> => AsksForLast(input, requests[1])
    /\ Untouched

\* Two requests for the last choice are the same request.
LEMMA OneLastChoice ==
  ASSUME NEW s, DOMAIN s \subseteq Nat, NEW p, NEW q, AsksForLast(s, p), AsksForLast(s, q)
  PROVE  p.index = q.index /\ p.values = q.values /\ p.around = q.around
<1>1. PICK i \in DOMAIN s : LastChoice(s, i) /\ Asks(s, p, i)
  BY DEF AsksForLast
<1>2. PICK j \in DOMAIN s : LastChoice(s, j) /\ Asks(s, q, j)
  BY DEF AsksForLast
<1>3. i = j
  <2>1. i <= j /\ j <= i
    BY <1>1, <1>2 DEF LastChoice
  <2> QED BY <2>1
<1> QED BY <1>1, <1>2, <1>3 DEF Asks

\* Over Mozc's segments Request asks for the last choice.
LEMMA RequestOfInput ==
  ASSUME segs = input, NEW i \in DOMAIN input, LastChoice(input, i)
  PROVE  AsksForLast(input, Request(i, Select(input[i].cands)))
BY DEF AsksForLast, Asks, Request

\* A segment whose reading has no supplement stays as it is.
LEMMA SupplementNothing ==
  ASSUME LoopInv, Plain, segs = input, Supplement
  PROVE  segs' = segs /\ selected' = Select(input[index].cands)
<1>1. index \in DOMAIN input /\ input \in Seq(ToSet(input))
  BY InputIsSequence DEF LoopInv, Places, Supplement
<1>2. AddSupplemental(segs[index]) = segs[index]
  BY <1>1 DEF Plain, AddSupplemental
<1>3. segs' = [segs EXCEPT ![index] = segs[index]] /\ selected' = Select(segs[index].cands)
  BY <1>2 DEF Supplement
<1> QED BY <1>1, <1>3

\* The loop up to the first request.
LEMMA UntouchedStep ==
  ASSUME LoopInv, Plain, Untouched, [Next]_vars
  PROVE  Untouched'
<1> SUFFICES ASSUME requests' = <<>>, pc' \in {"scan", "ask"}
             PROVE  /\ segs' = input'
                    /\ \A j \in DOMAIN input' : j > index' => ~Eligible(input'[j])
                    /\ pc' = "ask" => /\ Eligible(input'[index'])
                                      /\ selected' = Select(input'[index'].cands)
  BY DEF Untouched
<1>1. /\ Len(input) \in Nat /\ DOMAIN input = 1..Len(input) /\ DOMAIN segs = DOMAIN input
      /\ index \in 0..Len(input)
  BY InputIsSequence DEF LoopInv, Places
<1>2. requests = <<>>
  <2>1. DOMAIN requests \subseteq DOMAIN requests'
    BY RequestsKeep
  <2>2. PICK S : requests \in Seq(S)
    BY DEF LoopInv, RequestTypes
  <2> QED BY <2>1, <2>2
<1>3. pc # "rank"
  BY <1>2 DEF LoopInv, Places
<1>4. CASE UNCHANGED <<input, segs, pc, index, selected>>
  BY <1>2, <1>4 DEF Untouched
<1>5. ASSUME NEW context \in BOOLEAN, Convert(context)
      PROVE  pc' = "scan" /\ UNCHANGED <<input, segs>> /\ segs = input /\ index' = Len(input)
  BY <1>5 DEF Convert, LoopInv, Places
<1>6. CASE Skip
  <2>1. pc' = "scan" /\ UNCHANGED <<input, segs>> /\ segs = input /\ index' = index - 1
        /\ ~Eligible(input[index])
    BY <1>2, <1>6 DEF Skip, Continue, Untouched, Eligible
  <2>2. \A j \in DOMAIN input : j > index - 1 => j = index \/ j > index
    BY <1>1
  <2> QED BY <1>2, <1>6, <2>1, <2>2 DEF Untouched, Skip
<1>7. CASE Supplement
  <2>1. pc = "scan" /\ input' = input /\ segs = input /\ Rerankable(input[index])
    BY <1>2, <1>7 DEF Supplement, Untouched
  <2>2. segs' = segs /\ selected' = Select(input[index].cands)
    BY <1>7, <2>1, SupplementNothing
  <2>3. AddSupplemental(segs[index]).cands = input[index].cands
    BY <1>1, <1>7, <2>1 DEF Plain, AddSupplemental, Supplement
  <2>4. \/ HasChoice(input[index].cands) /\ pc' = "ask" /\ index' = index
        \/ ~HasChoice(input[index].cands) /\ pc' = "scan" /\ index' = index - 1
    BY <1>7, <2>3 DEF Supplement, Continue
  <2>5. \A j \in DOMAIN input : j > index - 1 => j = index \/ j > index
    BY <1>1
  <2> QED BY <1>2, <2>1, <2>2, <2>4, <2>5 DEF Untouched, Eligible
<1>8. CASE Ask \/ OutOfTime \/ Return \/ RankFails \/ \E r \in Rankings : RankAnswers(r)
  BY <1>3, <1>8 DEF Ask, OutOfTime, Return, RankFails, RankAnswers
<1> QED BY <1>1, <1>4, <1>5, <1>6, <1>7, <1>8 DEF Next, Realtime, Done, vars

\* The prefetches and the first request.
LEMMA FirstStep ==
  ASSUME LoopInv, FirstInv, [Next]_vars
  PROVE  FirstInv'
<1>1. input' = input
  BY DEF Next, Realtime, Convert, Skip, Supplement, OutOfTime, Ask, RankFails, Return,
         RankAnswers, Done, vars
<1> SUFFICES ASSUME Plain
             PROVE  /\ prefetched' # None => AsksForLast(input, prefetched')
                    /\ requests' # <<>> => AsksForLast(input, requests'[1])
                    /\ Untouched'
  BY <1>1 DEF FirstInv, Plain
<1>2. /\ Len(input) \in Nat /\ DOMAIN input = 1..Len(input) /\ DOMAIN segs = DOMAIN input
      /\ index \in 0..Len(input)
  BY InputIsSequence DEF LoopInv, Places
<1>3. prefetched' # None => AsksForLast(input, prefetched')
  <2>1. ASSUME NEW context \in BOOLEAN, Realtime(context)
        PROVE  AsksForLast(input, prefetched')
    <3>1. segs = input
      BY <2>1 DEF Realtime, LoopInv, Places
    <3>2. PICK i \in PrefetchTarget : prefetched' = Request(i, Select(segs[i].cands))
      BY <2>1 DEF Realtime
    <3>3. i \in DOMAIN input /\ LastChoice(input, i)
      BY <3>1 DEF PrefetchTarget, LastChoice, Eligible
    <3> QED BY <3>1, <3>2, <3>3, RequestOfInput
  <2> QED BY <2>1 DEF FirstInv, Next, Convert, Skip, Supplement, OutOfTime, Ask, RankFails,
                      Return, RankAnswers, Done, vars
<1>4. requests' # <<>> => AsksForLast(input, requests'[1])
  <2> SUFFICES ASSUME requests' # <<>>
               PROVE  AsksForLast(input, requests'[1])
    OBVIOUS
  <2>1. PICK S : requests \in Seq(S)
    BY DEF LoopInv, RequestTypes
  <2>2. CASE requests # <<>>
    <3>1. 1 \in DOMAIN requests
      BY <2>1, <2>2
    <3>2. /\ requests'[1].index = requests[1].index
          /\ requests'[1].values = requests[1].values
          /\ requests'[1].around = requests[1].around
      BY <3>1, RequestsKeep
    <3> QED BY <2>2, <3>2 DEF FirstInv, AsksForLast, Asks
  <2>3. CASE requests = <<>>
    <3>1. LoopInv'
      BY LoopStep
    <3>2. PICK T : requests' \in Seq(T)
      BY <3>1 DEF LoopInv, RequestTypes
    <3>3. 1 \in DOMAIN requests' \ DOMAIN requests
      BY <2>3, <3>2
    <3>4. Ask /\ requests'[1] = Request(index, selected)
      BY <3>3, RequestsKeep
    <3>5. segs = input /\ selected = Select(input[index].cands) /\ LastChoice(input, index)
      <4>1. pc = "ask" /\ index > 0 /\ index \in DOMAIN input
        BY <1>2, <3>4 DEF Ask, LoopInv, Places
      <4>2. /\ segs = input /\ selected = Select(input[index].cands) /\ Eligible(input[index])
            /\ \A j \in DOMAIN input : j > index => ~Eligible(input[j])
        BY <2>3, <4>1 DEF FirstInv, Untouched
      <4>3. \A j \in DOMAIN input : j > index \/ j <= index
        BY <1>2
      <4> QED BY <4>1, <4>2, <4>3 DEF LastChoice
    <3> QED BY <3>4, <3>5, RequestOfInput DEF LastChoice
  <2> QED BY <2>2, <2>3
<1>5. Untouched'
  BY UntouchedStep DEF FirstInv
<1> QED BY <1>3, <1>4, <1>5

\* Where no reading has a supplement, what was sent while typing is what the
\* conversion asks first: the same segment, candidates and context.
THEOREM PrefetchFitsConversion == Spec => []PlainPrefetchIsReused
<1>1. Init => FirstInv
  BY DEF Init, FirstInv, Untouched
<1>2. LoopInv /\ FirstInv /\ [Next]_vars => FirstInv'
  BY FirstStep
<1>3. LoopInv /\ FirstInv => PlainPrefetchIsReused
  <2> SUFFICES ASSUME LoopInv, FirstInv, Plain, prefetched # None, requests # <<>>
               PROVE  /\ prefetched.index = requests[1].index
                      /\ prefetched.values = requests[1].values
                      /\ prefetched.around = requests[1].around
    BY DEF PlainPrefetchIsReused, PrefetchIsReused, Plain
  <2>1. DOMAIN input \subseteq Nat
    BY InputIsSequence DEF LoopInv
  <2>2. AsksForLast(input, prefetched) /\ AsksForLast(input, requests[1])
    BY DEF FirstInv
  <2> QED BY <2>1, <2>2, OneLastChoice
<1> QED BY <1>1, <1>2, <1>3, LoopCorrect, PTL DEF Spec

-----------------------------------------------------------------------------
(* Moving candidates *)

Perm(n) == {p \in [1..n -> 1..n] : IsInjective(p)}

\* Where the k-th of a list comes from after a move.
Origin(from, to, k) ==
  LET j == IF k < to THEN k ELSE k - 1
  IN IF k = to THEN from ELSE IF j < from THEN j ELSE j + 1

\* A move takes one element out and puts it in elsewhere, nothing else.
LEMMA MoveFacts ==
  ASSUME NEW S, NEW s \in Seq(S), NEW from \in 1..Len(s), NEW to \in 1..Len(s)
  PROVE  /\ Move(s, from, to) \in Seq(S) /\ Len(Move(s, from, to)) = Len(s)
         /\ \A k \in 1..Len(s) : Move(s, from, to)[k] = s[Origin(from, to, k)]
<1> DEFINE n == Len(s)
           a == SubSeq(s, 1, from - 1)
           b == SubSeq(s, from + 1, n)
           r == RemoveAt(s, from)
           c == SubSeq(r, 1, to - 1)
           d == SubSeq(r, to, Len(r))
           e == <<s[from]>>
<1>1. n \in Nat /\ \A k \in 1..n : s[k] \in S
  OBVIOUS
<1>2. /\ a \in Seq(S) /\ Len(a) = from - 1
      /\ \A k \in 1..(from - 1) : a[k] = s[k]
  BY <1>1, SubSeqProperties
<1>3. /\ b \in Seq(S) /\ Len(b) = n - from
      /\ \A k \in 1..(n - from) : b[k] = s[from + k]
  BY <1>1, SubSeqProperties
<1>4. r = a \o b
  BY DEF RemoveAt
<1> HIDE DEF a, b
<1>5. /\ r \in Seq(S) /\ Len(r) = n - 1
      /\ \A k \in 1..(n - 1) : r[k] = IF k <= from - 1 THEN a[k] ELSE b[k - (from - 1)]
  <2>1. /\ (a \o b) \in Seq(S) /\ Len(a \o b) = Len(a) + Len(b)
        /\ \A k \in 1..Len(a) + Len(b) : (a \o b)[k] = IF k <= Len(a) THEN a[k] ELSE b[k - Len(a)]
    BY <1>2, <1>3, ConcatProperties
  <2>2. Len(a) + Len(b) = n - 1
    BY <1>1, <1>2, <1>3
  <2> QED
    BY <1>2, <1>4, <2>1, <2>2
<1>6. \A k \in 1..(n - 1) : r[k] = IF k < from THEN s[k] ELSE s[k + 1]
  <2> SUFFICES ASSUME NEW k \in 1..(n - 1) PROVE r[k] = IF k < from THEN s[k] ELSE s[k + 1]
    OBVIOUS
  <2>1. CASE k < from
    BY <1>1, <1>2, <1>5, <2>1
  <2>2. CASE ~(k < from)
    <3>1. k - (from - 1) \in 1..(n - from) /\ from + (k - (from - 1)) = k + 1
      BY <1>1, <2>2
    <3> QED
      BY <1>1, <1>3, <1>5, <2>2, <3>1
  <2> QED
    BY <2>1, <2>2
<1> HIDE DEF r, n
<1>7. \A k \in 1..(n - 1) : r[k] \in S
  BY <1>1, <1>5
<1>8. /\ c \in Seq(S) /\ Len(c) = to - 1
      /\ \A k \in 1..(to - 1) : c[k] = r[k]
  BY <1>1, <1>5, <1>7, SubSeqProperties DEF n
<1>9. /\ d \in Seq(S) /\ Len(d) = n - to
      /\ \A k \in 1..(n - to) : d[k] = r[to + k - 1]
  BY <1>1, <1>5, <1>7, SubSeqProperties DEF n
<1>10. e \in Seq(S) /\ Len(e) = 1 /\ e[1] = s[from]
  BY <1>1 DEF n
<1>11. Move(s, from, to) = (c \o e) \o d
  BY DEF Move, InsertAt, r
<1> HIDE DEF c, d, e
<1> DEFINE ce == c \o e
<1>12. /\ ce \in Seq(S) /\ Len(ce) = to
       /\ \A k \in 1..to : ce[k] = IF k <= to - 1 THEN c[k] ELSE e[k - (to - 1)]
  <2>1. /\ (c \o e) \in Seq(S) /\ Len(c \o e) = Len(c) + Len(e)
        /\ \A k \in 1..Len(c) + Len(e) : (c \o e)[k] = IF k <= Len(c) THEN c[k] ELSE e[k - Len(c)]
    BY <1>8, <1>10, ConcatProperties
  <2>2. Len(c) + Len(e) = to
    BY <1>8, <1>10
  <2> QED
    BY <1>8, <2>1, <2>2
<1> HIDE DEF ce
<1>13. /\ Move(s, from, to) \in Seq(S) /\ Len(Move(s, from, to)) = n
       /\ \A k \in 1..n : Move(s, from, to)[k] = IF k <= to THEN ce[k] ELSE d[k - to]
  <2>1. /\ (ce \o d) \in Seq(S) /\ Len(ce \o d) = Len(ce) + Len(d)
        /\ \A k \in 1..Len(ce) + Len(d) : (ce \o d)[k] = IF k <= Len(ce) THEN ce[k] ELSE d[k - Len(ce)]
    BY <1>9, <1>12, ConcatProperties
  <2>2. Len(ce) + Len(d) = n
    BY <1>1, <1>9, <1>12 DEF n
  <2>3. Move(s, from, to) = ce \o d
    BY <1>11 DEF ce
  <2> QED
    BY <1>12, <2>1, <2>2, <2>3
<1>14. ASSUME NEW k \in 1..n PROVE Move(s, from, to)[k] = s[Origin(from, to, k)]
  <2>1. CASE k < to
    <3>1. k \in 1..(to - 1) /\ k \in 1..(n - 1) /\ k <= to /\ k <= to - 1 /\ k \in 1..to
      BY <1>1, <2>1 DEF n
    <3>2. Move(s, from, to)[k] = r[k]
      BY <1>8, <1>12, <1>13, <3>1
    <3>3. r[k] = IF k < from THEN s[k] ELSE s[k + 1]
      BY <1>6, <3>1
    <3>4. k # to
      BY <2>1
    <3> QED
      BY <2>1, <3>2, <3>3, <3>4 DEF Origin
  <2>2. CASE k = to
    BY <1>1, <1>10, <1>12, <1>13, <2>2 DEF Origin
  <2>3. CASE k > to
    <3>1. /\ k - to \in 1..(n - to) /\ to + (k - to) - 1 = k - 1
          /\ k - 1 \in 1..(n - 1) /\ ~(k <= to) /\ ~(k < to) /\ k # to /\ k - 1 + 1 = k
      BY <1>1, <2>3 DEF n
    <3>2. Move(s, from, to)[k] = r[k - 1]
      BY <1>9, <1>13, <3>1
    <3>3. r[k - 1] = IF k - 1 < from THEN s[k - 1] ELSE s[k]
      BY <1>6, <3>1
    <3> QED
      BY <3>1, <3>2, <3>3 DEF Origin
  <2> QED
    BY <1>1, <2>1, <2>2, <2>3
<1> QED
  BY <1>13, <1>14 DEF n

\* No two places of the list get the same element.
LEMMA OriginIsPerm ==
  ASSUME NEW n \in Nat, NEW from \in 1..n, NEW to \in 1..n
  PROVE  /\ \A k \in 1..n : Origin(from, to, k) \in 1..n
         /\ \A k, l \in 1..n : Origin(from, to, k) = Origin(from, to, l) => k = l
<1>1. ASSUME NEW k \in 1..n
      PROVE /\ k = to => Origin(from, to, k) = from
            /\ k # to => Origin(from, to, k) # from
            /\ k < to => Origin(from, to, k) = IF k < from THEN k ELSE k + 1
            /\ k > to => Origin(from, to, k) = IF k - 1 < from THEN k - 1 ELSE k
            /\ Origin(from, to, k) \in 1..n
  BY DEF Origin
<1>2. ASSUME NEW k \in 1..n, NEW l \in 1..n, Origin(from, to, k) = Origin(from, to, l)
      PROVE k = l
  <2>1. CASE k = to \/ l = to
    BY <1>1, <1>2, <2>1
  <2>2. CASE k # to /\ l # to
    <3>1. /\ k < to \/ k > to
          /\ l < to \/ l > to
      BY <2>2
    <3> QED
      BY <1>1, <1>2, <3>1
  <2> QED
    BY <2>1, <2>2
<1> QED
  BY <1>1, <1>2

\* A permutation has each number at some place.
LEMMA PermHas ==
  ASSUME NEW n \in Nat, NEW p \in Perm(n), NEW i \in 1..n
  PROVE  \E k \in 1..n : p[k] = i
<1>1. p \in Injection(1..n, 1..n) /\ IsFiniteSet(1..n)
  BY FS_Interval DEF Perm, Injection
<1>2. p \in Surjection(1..n, 1..n)
  BY <1>1, FS_Injection
<1> QED
  BY <1>2 DEF Surjection

\* std::find finds the one place at which a permutation has a number.
LEMMA FindFacts ==
  ASSUME NEW n \in Nat, NEW p \in Perm(n), NEW i \in 1..n
  PROVE  Find(p, i) \in 1..n /\ p[Find(p, i)] = i
<1> DEFINE at == Find(p, i)
           I == {k \in 1..Len(p) : p[k] = i}
<1>1. Len(p) = n
  BY DEF Perm
<1>2. PICK k \in 1..n : p[k] = i
  BY PermHas
<1>3. I = {k}
  BY <1>1, <1>2 DEF Perm, IsInjective
<1>4. at = IF I # {} THEN Min(I) ELSE 0
  BY DEF Find, SelectInSeq
<1> HIDE DEF I, at
<1>5. at = Min({k})
  BY <1>3, <1>4
<1>6. Min({k}) = k
  BY DEF Min
<1> QED
  BY <1>2, <1>5, <1>6 DEF at

\* A move keeps a permutation one.
LEMMA MovePerm ==
  ASSUME NEW n \in Nat, NEW p \in Perm(n), NEW from \in 1..n, NEW to \in 1..n
  PROVE  /\ Move(p, from, to) \in Perm(n)
         /\ \A k \in 1..n : Move(p, from, to)[k] = p[Origin(from, to, k)]
<1>1. p \in Seq(1..n) /\ Len(p) = n /\ p \in [1..n -> 1..n]
  BY DEF Perm
<1>2. \A k, l \in 1..n : p[k] = p[l] => k = l
  BY DEF Perm, IsInjective
<1> DEFINE m == Move(p, from, to)
<1>3. /\ m \in Seq(1..n) /\ Len(m) = n
      /\ \A k \in 1..n : m[k] = p[Origin(from, to, k)]
  <2>1. from \in 1..Len(p) /\ to \in 1..Len(p)
    BY <1>1
  <2>2. /\ Move(p, from, to) \in Seq(1..n) /\ Len(Move(p, from, to)) = Len(p)
        /\ \A k \in 1..Len(p) : Move(p, from, to)[k] = p[Origin(from, to, k)]
    BY <1>1, <2>1, MoveFacts, ZenonT(60)
  <2> QED
    BY <1>1, <2>2
<1> HIDE DEF m
<1>4. m \in [1..n -> 1..n]
  BY <1>3
<1>5. \A k, l \in 1..n : m[k] = m[l] => k = l
  <2>1. /\ \A k \in 1..n : Origin(from, to, k) \in 1..n
        /\ \A k, l \in 1..n : Origin(from, to, k) = Origin(from, to, l) => k = l
    BY OriginIsPerm
  <2> SUFFICES ASSUME NEW k \in 1..n, NEW l \in 1..n, m[k] = m[l] PROVE k = l
    OBVIOUS
  <2>2. p[Origin(from, to, k)] = p[Origin(from, to, l)]
    BY <1>3
  <2>3. Origin(from, to, k) = Origin(from, to, l)
    BY <1>2, <2>1, <2>2
  <2> QED
    BY <2>1, <2>3
<1>6. IsInjective(m)
  BY <1>4, <1>5 DEF IsInjective
<1> QED
  BY <1>3, <1>4, <1>6 DEF Perm, m

\* A step of the arranging: the next candidate is moved to its place.
ArrangeStep(n, desired, t, before) ==
  LET current == Find(before.ids, desired[t])
  IN IF current = t THEN before
     ELSE [ids   |-> Move(before.ids, current, t),
           moves |-> Append(before.moves, <<current, t>>)]

Arrangements(n) == [ids : Perm(n), moves : Seq((1..n) \X (1..n))]

\* Arranged is what its recursion says.
LEMMA ArrangedUnfold ==
  ASSUME NEW n \in Nat, NEW desired \in Perm(n)
  PROVE  /\ Arranged(n, desired) \in [0..n -> Arrangements(n)]
         /\ Arranged(n, desired)[0] = [ids |-> Identity(n), moves |-> <<>>]
         /\ \A t \in 1..n : Arranged(n, desired)[t]
                            = ArrangeStep(n, desired, t, Arranged(n, desired)[t - 1])
<1> DEFINE A == Arrangements(n)
           base == [ids |-> Identity(n), moves |-> <<>>]
           Step(t, a) == ArrangeStep(n, desired, t, a)
           step == [t \in 1..n |-> [a \in A |-> Step(t, a)]]
           Body(g) == [t \in 0..n |-> IF t = 0 THEN base ELSE Step(t, g[t - 1])]
           G == Arranged(n, desired)
<1>1. G = CHOOSE g : g = Body(g)
  BY Zenon DEF Arranged, ArrangeStep
<1>2. base \in A
  <2>1. Identity(n) \in [1..n -> 1..n] /\ IsInjective(Identity(n))
    BY DEF Identity, IsInjective
  <2> QED
    BY <2>1 DEF Arrangements, Perm
<1>3. ASSUME NEW t \in 1..n, NEW a \in A PROVE Step(t, a) \in A
  <2>1. a.ids \in Perm(n) /\ a.moves \in Seq((1..n) \X (1..n))
    BY DEF Arrangements
  <2>2. desired[t] \in 1..n
    BY DEF Perm
  <2> DEFINE current == Find(a.ids, desired[t])
  <2>3. current \in 1..n
    BY <2>1, <2>2, FindFacts
  <2> HIDE DEF current
  <2>4. Move(a.ids, current, t) \in Perm(n)
    BY <2>1, <2>3, MovePerm
  <2>5. Append(a.moves, <<current, t>>) \in Seq((1..n) \X (1..n))
    BY <2>1, <2>3
  <2>6. [ids |-> Move(a.ids, current, t), moves |-> Append(a.moves, <<current, t>>)] \in A
    BY <2>4, <2>5 DEF Arrangements
  <2> QED
    BY <2>6 DEF ArrangeStep, current
<1> HIDE DEF A, base, Step
<1>4. step \in [1..n -> [A -> A]] /\ \A t \in 1..n, a \in A : step[t][a] = Step(t, a)
  BY <1>3
<1> HIDE DEF step
<1>5. \E f : IsRecursive(f, n, A, base, step)
  BY <1>2, <1>4, RecursionUpTo
<1>6. PICK f : /\ f \in [0..n -> A]
               /\ f[0] = base
               /\ \A t \in 1..n : f[t] = step[t][f[t - 1]]
  BY <1>5 DEF IsRecursive
<1>7. f = Body(f)
  <2>1. ASSUME NEW t \in 1..n PROVE f[t] = Step(t, f[t - 1])
    <3>1. t - 1 \in 0..n
      OBVIOUS
    <3> QED
      BY <1>4, <1>6, <3>1
  <2>2. \A t \in 0..n : t = 0 \/ t \in 1..n
    OBVIOUS
  <2>3. \A t \in 0..n : f[t] = IF t = 0 THEN base ELSE Step(t, f[t - 1])
    BY <1>6, <2>1, <2>2
  <2> QED
    BY <1>6, <2>3
<1> HIDE DEF G
<1>8. G = Body(G)
  <2> HIDE DEF Body
  <2> QED
    BY <1>1, <1>7
<1>9. /\ 0 \in 0..n
      /\ \A t \in 1..n : t \in 0..n /\ t # 0 /\ t - 1 \in 0..n
  OBVIOUS
<1>10. G[0] = base
  BY <1>8, <1>9
<1>11. ASSUME NEW t \in 1..n PROVE G[t] = Step(t, G[t - 1])
  BY <1>8, <1>9
<1>12. \A t \in 0..n : G[t] \in A
  <2> DEFINE T == {t \in 0..n : G[t] \in A}
  <2>1. 0 \in T
    BY <1>2, <1>10
  <2>2. ASSUME NEW t \in 1..n, t - 1 \in T PROVE t \in T
    BY <1>3, <1>11, <2>2
  <2>3. \A t \in 0..n : t \in T
    <3> HIDE DEF T
    <3> QED BY <2>1, <2>2, InductionUpTo
  <2> QED
    BY <2>3
<1>13. G \in [0..n -> A]
  BY <1>8, <1>12
<1> QED
  BY <1>10, <1>11, <1>13 DEF G, A, base, Step

\* g leads from s through the moves one by one.
LeadsThrough(g, S, s, moves) ==
  /\ g[0] = s
  /\ \A k \in 1..Len(moves) : g[k] = Move(g[k - 1], moves[k][1], moves[k][2])
  /\ \A k \in 0..Len(moves) : g[k] \in Seq(S) /\ Len(g[k]) = Len(s)

\* The sequences of s's length that a list of moves leads through.
LEMMA MovedUnfold ==
  ASSUME NEW S, NEW s \in Seq(S), NEW moves \in Seq((1..Len(s)) \X (1..Len(s)))
  PROVE  LeadsThrough(MovedBy(s, moves), S, s, moves)
<1> DEFINE n == Len(moves)
           A == {q \in Seq(S) : Len(q) = Len(s)}
           Step(t, a) == Move(a, moves[t][1], moves[t][2])
           step == [t \in 1..n |-> [a \in A |-> Step(t, a)]]
           Body(g) == [t \in 0..n |-> IF t = 0 THEN s ELSE Step(t, g[t - 1])]
           G == MovedBy(s, moves)
<1>1. G = CHOOSE g : g = Body(g)
  BY Zenon DEF MovedBy
<1>2. s \in A /\ n \in Nat
  OBVIOUS
<1>3. ASSUME NEW t \in 1..n, NEW a \in A PROVE Step(t, a) \in A
  <2>1. moves[t] \in (1..Len(s)) \X (1..Len(s))
    OBVIOUS
  <2>2. moves[t][1] \in 1..Len(s) /\ moves[t][2] \in 1..Len(s)
    BY <2>1
  <2> QED
    BY <2>2, MoveFacts
<1> HIDE DEF A, Step, n
<1>4. step \in [1..n -> [A -> A]] /\ \A t \in 1..n, a \in A : step[t][a] = Step(t, a)
  BY <1>3
<1> HIDE DEF step
<1>5. \E f : IsRecursive(f, n, A, s, step)
  BY <1>2, <1>4, RecursionUpTo
<1>6. PICK f : /\ f \in [0..n -> A]
               /\ f[0] = s
               /\ \A t \in 1..n : f[t] = step[t][f[t - 1]]
  BY <1>5 DEF IsRecursive
<1>7. f = Body(f)
  <2>1. ASSUME NEW t \in 1..n PROVE f[t] = Step(t, f[t - 1])
    <3>1. t - 1 \in 0..n
      BY <1>2
    <3> QED
      BY <1>4, <1>6, <3>1
  <2>2. \A t \in 0..n : t = 0 \/ t \in 1..n
    BY <1>2
  <2>3. \A t \in 0..n : f[t] = IF t = 0 THEN s ELSE Step(t, f[t - 1])
    BY <1>6, <2>1, <2>2
  <2> QED
    BY <1>6, <2>3
<1> HIDE DEF G
<1>8. G = Body(G)
  <2> HIDE DEF Body
  <2> QED
    BY <1>1, <1>7
<1>9. /\ 0 \in 0..n
      /\ \A t \in 1..n : t \in 0..n /\ t # 0 /\ t - 1 \in 0..n
  BY <1>2
<1>10. G[0] = s
  BY <1>8, <1>9
<1>11. ASSUME NEW t \in 1..n PROVE G[t] = Step(t, G[t - 1])
  BY <1>8, <1>9
<1>12. \A t \in 0..n : G[t] \in A
  <2> DEFINE T == {t \in 0..n : G[t] \in A}
  <2>1. 0 \in T
    BY <1>2, <1>10
  <2>2. ASSUME NEW t \in 1..n, t - 1 \in T PROVE t \in T
    BY <1>2, <1>3, <1>11, <2>2
  <2>3. \A t \in 0..n : t \in T
    <3> HIDE DEF T
    <3> QED BY <1>2, <2>1, <2>2, InductionUpTo
  <2> QED
    BY <2>3
<1> QED
  BY <1>10, <1>11, <1>12 DEF G, A, Step, n, LeadsThrough

\* One move more.
LEMMA MovedAppend ==
  ASSUME NEW S, NEW s \in Seq(S), NEW moves \in Seq((1..Len(s)) \X (1..Len(s))),
         NEW from \in 1..Len(s), NEW to \in 1..Len(s)
  PROVE  /\ Moved(s, moves) \in Seq(S) /\ Len(Moved(s, moves)) = Len(s)
         /\ Moved(s, Append(moves, <<from, to>>)) = Move(Moved(s, moves), from, to)
<1> DEFINE n == Len(moves)
           M == Append(moves, <<from, to>>)
           g == MovedBy(s, moves)
           h == MovedBy(s, M)
<1>1. <<from, to>> \in (1..Len(s)) \X (1..Len(s))
  OBVIOUS
<1>2. /\ M \in Seq((1..Len(s)) \X (1..Len(s))) /\ Len(M) = n + 1 /\ n \in Nat
      /\ M[n + 1] = <<from, to>>
      /\ \A k \in 1..n : M[k] = moves[k]
  BY <1>1, AppendProperties
<1> HIDE DEF M
<1>3. /\ g[0] = s
      /\ \A k \in 1..n : g[k] = Move(g[k - 1], moves[k][1], moves[k][2])
      /\ g[n] \in Seq(S) /\ Len(g[n]) = Len(s)
  <2>1. LeadsThrough(MovedBy(s, moves), S, s, moves)
    BY MovedUnfold
  <2> QED
    BY <1>2, <2>1 DEF LeadsThrough
<1>4. /\ h[0] = s
      /\ \A k \in 1..(n + 1) : h[k] = Move(h[k - 1], M[k][1], M[k][2])
  <2>1. LeadsThrough(MovedBy(s, M), S, s, M)
    BY <1>2, MovedUnfold
  <2> QED
    BY <1>2, <2>1 DEF LeadsThrough
<1>5. Moved(s, moves) = g[n] /\ Moved(s, M) = h[n + 1]
  BY <1>2 DEF Moved
<1> HIDE DEF g, h, n
<1>6. \A k \in 0..n : g[k] = h[k]
  <2> DEFINE T == {k \in 0..n : g[k] = h[k]}
  <2>1. 0 \in T
    BY <1>2, <1>3, <1>4
  <2>2. ASSUME NEW k \in 1..n, k - 1 \in T PROVE k \in T
    <3>1. k \in 1..(n + 1) /\ k \in 0..n /\ M[k] = moves[k] /\ g[k - 1] = h[k - 1]
      BY <1>2, <2>2, SMTT(30)
    <3> QED
      BY <1>3, <1>4, <3>1
  <2> HIDE DEF T
  <2>3. \A k \in 0..n : k \in T
    BY <1>2, <2>1, <2>2, InductionUpTo
  <2> QED
    BY <2>3 DEF T
<1>7. n \in 0..n /\ n + 1 \in 1..(n + 1) /\ n + 1 - 1 = n
  BY <1>2
<1>8. h[n + 1] = Move(g[n], from, to)
  BY <1>2, <1>4, <1>6, <1>7
<1> QED
  BY <1>3, <1>5, <1>8 DEF M

\* The moves put each candidate where the order wants it.
LEMMA MovedAsDesired ==
  ASSUME NEW S, NEW s \in Seq(S), NEW desired \in Perm(Len(s))
  PROVE  Moved(s, Moves(Len(s), desired)) = [k \in 1..Len(s) |-> s[desired[k]]]
<1> DEFINE n == Len(s)
           a == Arranged(n, desired)
           Shown(t) == Moved(s, a[t].moves)
           T == {t \in 0..n : /\ \A k \in 1..t : a[t].ids[k] = desired[k]
                              /\ Shown(t) = [k \in 1..n |-> s[a[t].ids[k]]]}
<1>1. n \in Nat /\ s \in [1..n -> S]
  OBVIOUS
<1>2. /\ \A t \in 0..n : a[t] \in Arrangements(n)
      /\ a[0] = [ids |-> Identity(n), moves |-> <<>>]
      /\ \A t \in 1..n : a[t] = ArrangeStep(n, desired, t, a[t - 1])
  BY <1>1, ArrangedUnfold
<1>3. /\ desired \in [1..n -> 1..n]
      /\ \A k, l \in 1..n : desired[k] = desired[l] => k = l
  BY DEF Perm, IsInjective
<1> HIDE DEF a
<1>4. 0 \in T
  <2>1. Moved(s, <<>>) = s
    <3>1. <<>> \in Seq((1..Len(s)) \X (1..Len(s))) /\ Len(<<>>) = 0
      OBVIOUS
    <3> QED
      BY <3>1, MovedUnfold, ZenonT(60) DEF Moved, LeadsThrough
  <2>2. a[0].ids = Identity(n) /\ a[0].moves = <<>>
    BY <1>2
  <2>3. s = [k \in 1..n |-> s[Identity(n)[k]]]
    BY <1>1 DEF Identity
  <2> QED
    BY <1>1, <2>1, <2>2, <2>3
<1>5. ASSUME NEW t \in 1..n, t - 1 \in T PROVE t \in T
  <2> DEFINE ids == a[t - 1].ids
             moves == a[t - 1].moves
             current == Find(ids, desired[t])
             before == Shown(t - 1)
  <2>1. /\ \A k \in 1..(t - 1) : ids[k] = desired[k]
        /\ before = [k \in 1..n |-> s[ids[k]]]
        /\ t - 1 \in 0..n /\ t \in 0..n
    BY <1>1, <1>5
  <2>2. ids \in Perm(n) /\ moves \in Seq((1..n) \X (1..n))
    BY <1>2, <2>1 DEF Arrangements
  <2>3. a[t] = ArrangeStep(n, desired, t, a[t - 1])
    BY <1>2
  <2>4. /\ current = t => a[t] = a[t - 1]
        /\ current # t => /\ a[t].ids = Move(ids, current, t)
                          /\ a[t].moves = Append(moves, <<current, t>>)
    BY <2>3 DEF ArrangeStep
  <2>5. current \in 1..n /\ ids[current] = desired[t]
    <3>1. desired[t] \in 1..n
      BY <1>3
    <3> QED
      BY <1>1, <2>2, <3>1, FindFacts, ZenonT(60)
  <2> HIDE DEF current
  <2>6. CASE current = t
    <3>1. \A k \in 1..t : k \in 1..(t - 1) \/ k = t
      BY <1>1
    <3>2. a[t] = a[t - 1]
      BY <2>4, <2>6
    <3>3. \A k \in 1..t : a[t].ids[k] = desired[k]
      BY <2>1, <2>5, <2>6, <3>1, <3>2
    <3> QED
      BY <2>1, <3>2, <3>3
  <2>7. CASE current # t
    <3>1. current > t
      <4>1. \A k \in 1..(t - 1) : k \in 1..n /\ k # t
        BY <1>1
      <4>2. current \notin 1..(t - 1)
        BY <1>3, <2>1, <2>5, <4>1
      <4> QED
        BY <1>1, <2>5, <2>7, <4>2
    <3> DEFINE new == Move(ids, current, t)
    <3>2. /\ new \in Perm(n) /\ a[t].ids = new
          /\ \A k \in 1..n : new[k] = ids[Origin(current, t, k)]
      BY <1>1, <2>2, <2>4, <2>5, <2>7, MovePerm
    <3> HIDE DEF new
    <3>3. ASSUME NEW k \in 1..t PROVE new[k] = desired[k]
      <4>1. k \in 1..n /\ Origin(current, t, k) = IF k = t THEN current ELSE k
        BY <1>1, <2>5, <3>1 DEF Origin
      <4>2. k # t => k \in 1..(t - 1)
        BY <1>1
      <4> QED
        BY <2>1, <2>5, <3>2, <4>1, <4>2
    <3>4. /\ before \in Seq(S) /\ Len(before) = n
          /\ Shown(t) = Move(before, current, t)
      <4>1. /\ current \in 1..Len(s) /\ t \in 1..Len(s)
            /\ moves \in Seq((1..Len(s)) \X (1..Len(s)))
        BY <2>2, <2>5
      <4>2. a[t].moves = Append(moves, <<current, t>>)
        BY <2>4, <2>7
      <4> HIDE DEF moves
      <4>3. /\ Moved(s, moves) \in Seq(S) /\ Len(Moved(s, moves)) = Len(s)
            /\ Moved(s, Append(moves, <<current, t>>)) = Move(Moved(s, moves), current, t)
        BY <4>1, MovedAppend
      <4> QED
        BY <4>2, <4>3 DEF moves
    <3>5. /\ Shown(t) \in Seq(S) /\ Len(Shown(t)) = n
          /\ \A k \in 1..n : Shown(t)[k] = before[Origin(current, t, k)]
      <4> DEFINE b == before
      <4>1. current \in 1..Len(b) /\ t \in 1..Len(b) /\ b \in Seq(S)
        BY <2>5, <3>4
      <4> HIDE DEF b
      <4>2. /\ Move(b, current, t) \in Seq(S) /\ Len(Move(b, current, t)) = Len(b)
            /\ \A k \in 1..Len(b) : Move(b, current, t)[k] = b[Origin(current, t, k)]
        BY <4>1, MoveFacts
      <4> QED
        BY <3>4, <4>2 DEF b
    <3>6. ASSUME NEW k \in 1..n PROVE Shown(t)[k] = s[new[k]]
      <4>1. Origin(current, t, k) \in 1..n
        BY <1>1, <2>5, OriginIsPerm
      <4> DEFINE o == Origin(current, t, k)
      <4>2. Shown(t)[k] = before[o]
        BY <3>5
      <4>3. before[o] = s[ids[o]]
        <5> HIDE DEF o
        <5>1. \A l \in 1..n : before[l] = s[ids[l]]
          BY <2>1
        <5> QED
          BY <4>1, <5>1 DEF o
      <4>4. new[k] = ids[o]
        BY <3>2
      <4> QED
        BY <4>2, <4>3, <4>4
    <3>7. Shown(t) = [k \in 1..n |-> s[new[k]]]
      <4> DEFINE q == Shown(t)
      <4>1. q \in [1..n -> S] /\ \A k \in 1..n : q[k] = s[new[k]]
        BY <3>5, <3>6
      <4> HIDE DEF q
      <4>2. q = [k \in 1..n |-> s[new[k]]]
        BY <4>1
      <4> QED
        BY <4>2 DEF q
    <3> QED
      BY <2>1, <3>2, <3>3, <3>7
  <2> QED
    BY <2>6, <2>7
<1> HIDE DEF T
<1>6. n \in T
  <2>1. \A t \in 0..n : t \in T
    BY <1>1, <1>4, <1>5, InductionUpTo
  <2> QED
    BY <1>1, <2>1
<1>7. a[n].ids \in [1..n -> 1..n] /\ \A k \in 1..n : a[n].ids[k] = desired[k]
  BY <1>1, <1>2, <1>6 DEF T, Arrangements, Perm
<1>8. Moved(s, Moves(n, desired)) = [k \in 1..n |-> s[a[n].ids[k]]]
  BY <1>6 DEF T, Moves, a
<1> QED
  BY <1>7, <1>8

\* The answer and the rest together have each candidate once.
LEMMA DesiredIsPerm ==
  ASSUME NEW n \in Nat, NEW order \in Seq(1..n), IsInjective(order)
  PROVE  Desired(n, order) \in Perm(n)
<1> DEFINE T == (1..n) \ ToSet(order)
           K == Kept(Identity(n), T)
           d == order \o K
           m == Len(order)
           L == Len(order) + Len(K)
<1>1. IsListOf(K, n, T)
  BY KeptIdentity
<1>2. /\ Len(K) \in Nat /\ K \in [1..Len(K) -> 1..n]
      /\ \A k, l \in 1..Len(K) : K[k] = K[l] => k = l
  <2> HIDE DEF K, T
  <2> QED
    BY <1>1, ListOfFacts
<1>3. /\ K \in Seq(1..n)
      /\ \A k \in 1..Len(K) : K[k] \in T
      /\ \A i \in 1..n : i \in T => \E k \in 1..Len(K) : K[k] = i
  BY <1>1 DEF IsListOf
<1>4. /\ m \in Nat /\ order \in [1..m -> 1..n]
      /\ \A k, l \in 1..m : order[k] = order[l] => k = l
      /\ \A k \in 1..m : order[k] \notin T
      /\ \A i \in 1..n : i \notin T => \E k \in 1..m : order[k] = i
  BY DEF IsInjective, ToSet
<1> HIDE DEF K, T
<1>5. /\ d \in Seq(1..n) /\ Len(d) = L
      /\ \A k \in 1..L : d[k] = IF k <= m THEN order[k] ELSE K[k - m]
  BY <1>3, ConcatProperties
<1> HIDE DEF d
<1>6. L \in Nat /\ L = m + Len(K)
  BY <1>2, <1>4
<1> HIDE DEF L, m
<1>7. d \in [1..L -> 1..n]
  BY <1>5
<1>8. ASSUME NEW k \in 1..L, ~(k <= m) PROVE k - m \in 1..Len(K) /\ d[k] = K[k - m] /\ d[k] \in T
  <2>1. k - m \in 1..Len(K)
    BY <1>2, <1>4, <1>6, <1>8
  <2> QED
    BY <1>3, <1>5, <1>8, <2>1
<1>9. ASSUME NEW k \in 1..L, k <= m PROVE k \in 1..m /\ d[k] = order[k] /\ d[k] \notin T
  <2>1. k \in 1..m
    BY <1>4, <1>6, <1>9
  <2> QED
    BY <1>4, <1>5, <1>9, <2>1
<1>10. ASSUME NEW k \in 1..L, NEW l \in 1..L, d[k] = d[l] PROVE k = l
  <2>1. CASE k <= m /\ l <= m
    BY <1>4, <1>9, <1>10, <2>1
  <2>2. CASE ~(k <= m) /\ ~(l <= m)
    <3>1. k - m = l - m
      BY <1>2, <1>8, <1>10, <2>2
    <3> QED
      BY <1>4, <1>6, <3>1
  <2>3. CASE (k <= m) # (l <= m)
    BY <1>8, <1>9, <1>10, <2>3
  <2> QED
    BY <2>1, <2>2, <2>3
<1>11. ASSUME NEW i \in 1..n PROVE \E k \in 1..L : d[k] = i
  <2>1. CASE i \in T
    <3>1. PICK k \in 1..Len(K) : K[k] = i
      BY <1>3, <2>1
    <3>2. m + k \in 1..L /\ ~(m + k <= m) /\ m + k - m = k
      BY <1>2, <1>4, <1>6
    <3> DEFINE l == m + k
    <3>3. d[l] = K[l - m]
      <4> HIDE DEF l
      <4> QED BY <1>8, <3>2 DEF l
    <3>4. d[l] = i
      <4>1. l - m = k
        BY <1>2, <1>4
      <4> HIDE DEF l
      <4> QED BY <3>1, <3>3, <4>1
    <3> QED
      BY <3>2, <3>4
  <2>2. CASE i \notin T
    <3>1. PICK k \in 1..m : order[k] = i
      BY <1>4, <2>2
    <3>2. k \in 1..L /\ k <= m
      BY <1>2, <1>4, <1>6
    <3> QED
      BY <1>9, <3>1, <3>2
  <2> QED
    BY <2>1, <2>2
<1>12. d \in Injection(1..L, 1..n) /\ d \in Surjection(1..L, 1..n)
  BY <1>7, <1>10, <1>11 DEF Injection, Surjection, IsInjective
<1>13. /\ IsFiniteSet(1..L) /\ IsFiniteSet(1..n)
       /\ Cardinality(1..L) = IF 1 > L THEN 0 ELSE L - 1 + 1
       /\ Cardinality(1..n) = IF 1 > n THEN 0 ELSE n - 1 + 1
  <2>1. 1 \in Int /\ L \in Int /\ n \in Int
    BY <1>6
  <2> HIDE DEF L
  <2> QED
    BY <2>1, FS_Interval
<1>14. Cardinality(1..L) <= Cardinality(1..n)
  BY <1>12, <1>13, FS_Injection
<1>15. Cardinality(1..n) <= Cardinality(1..L)
  BY <1>12, <1>13, FS_Surjection
<1>16. L = n
  BY <1>6, <1>13, <1>14, <1>15
<1> QED
  BY <1>7, <1>10, <1>16 DEF Perm, IsInjective, Desired, d, K, T

\* A list of candidates.
IsCandidates(cands) ==
  cands \in Seq(ToSet(cands)) /\ \A c \in ToSet(cands) : IsCandidate(c)

\* new has the candidates in the order d.
IsPermuted(new, cands, d) ==
  /\ d \in Perm(Len(cands))
  /\ Keys(new) = [k \in 1..Len(cands) |-> Key(cands[d[k]])]

\* The answer decides the order of the candidates and nothing else.
LEMMA PermutedKeys ==
  ASSUME NEW cands, IsCandidates(cands), NEW order \in Seq(1..Len(cands)), IsInjective(order),
         NEW d, d = Desired(Len(cands), order)
  PROVE  IsPermuted(Permuted(cands, order), cands, d)
<1> DEFINE n == Len(cands)
           m == [k \in 1..n |-> cands[d[k]]]
<1>1. n \in Nat /\ \A k \in 1..n : IsCandidate(cands[k])
  BY DEF IsCandidates, ToSet
<1>2. d \in Perm(n)
  BY <1>1, DesiredIsPerm
<1>3. Moved(cands, Moves(n, d)) = m
  BY <1>2, MovedAsDesired DEF IsCandidates
<1>4. Permuted(cands, order) = Mark(m, d)
  BY <1>3 DEF Permuted
<1>5. \A k \in 1..n : d[k] \in 1..n
  BY <1>2 DEF Perm
<1>6. ASSUME NEW c, IsCandidate(c)
      PROVE  Key([c EXCEPT !.reranked = TRUE]) = Key(c)
  BY <1>6 DEF IsCandidate, Key
<1>7. DOMAIN Mark(m, d) = 1..n
  BY DEF Mark
<1>8. ASSUME NEW k \in 1..n PROVE Key(Mark(m, d)[k]) = Key(cands[d[k]])
  <2>1. IsCandidate(m[k]) /\ m[k] = cands[d[k]]
    BY <1>1, <1>5
  <2>2. Mark(m, d)[k] \in {m[k], [m[k] EXCEPT !.reranked = TRUE]}
    BY DEF Mark
  <2> HIDE DEF m
  <2> QED
    BY <1>6, <2>1, <2>2
<1> QED
  BY <1>2, <1>4, <1>7, <1>8 DEF Keys, IsPermuted

-----------------------------------------------------------------------------
(* Selecting *)

\* What is sent of a list of candidates: one of each surface, no more than the
\* limits allow, and the one that Mozc shows is the first.
SelectFacts(cands, sel) ==
  /\ sel \in Seq(1..Len(cands))
  /\ \A k, l \in 1..Len(sel) : cands[sel[k]].value = cands[sel[l]].value => k = l
  /\ Len(sel) <= Limit + SupplementLimit
  /\ cands # <<>> /\ ~cands[1].supplemental => Len(sel) >= 1 /\ sel[1] = 1

\* As many of a list as fit.
LEMMA TakeFacts ==
  ASSUME NEW S, NEW s \in Seq(S), NEW m \in Nat
  PROVE  /\ Take(s, m) \in Seq(S) /\ Len(Take(s, m)) <= m /\ Len(Take(s, m)) <= Len(s)
         /\ Len(Take(s, m)) = m \/ Len(Take(s, m)) = Len(s)
         /\ \A k \in 1..Len(Take(s, m)) : Take(s, m)[k] = s[k]
<1> DEFINE h == IF Len(s) < m THEN Len(s) ELSE m
           t == SubSeq(s, 1, h)
<1>1. h \in Nat /\ h <= Len(s) /\ h <= m /\ (h = m \/ h = Len(s)) /\ Len(s) \in Nat
  OBVIOUS
<1>2. Take(s, m) = t
  BY DEF Take
<1> HIDE DEF h
<1>3. t \in Seq(S) /\ Len(t) = h /\ \A k \in 1..h : t[k] = s[k]
  <2>1. \A k \in 1..h : s[k] \in S
    BY <1>1
  <2>2. 1 \in Int /\ h \in Int /\ 1 <= h + 1
    BY <1>1
  <2> QED
    BY <1>1, <2>1, <2>2, SubSeqProperties
<1> HIDE DEF t
<1> QED
  BY <1>1, <1>2, <1>3

\* Select selects so.
LEMMA SelectCorrect ==
  ASSUME NEW cands, IsCandidates(cands)
  PROVE  SelectFacts(cands, Select(cands))
<1> DEFINE n == Len(cands)
           First(S) == {i \in S : \A j \in S : j < i => cands[j].value # cands[i].value}
           plainOnes == {i \in DOMAIN cands : ~cands[i].supplemental}
           A == First(plainOnes)
           a == Kept(Identity(n), A)
           plain == Take(a, Limit)
           more == {i \in DOMAIN cands :
                      /\ cands[i].supplemental
                      /\ \A j \in ToSet(plain) : cands[j].value # cands[i].value}
           B == First(more)
           b == Kept(Identity(n), B)
           both == plain \o b
           sel == Take(both, Limit + SupplementLimit)
<1>1. n \in Nat /\ Limit \in Nat \ {0} /\ SupplementLimit \in Nat /\ Limit + SupplementLimit \in Nat
      /\ DOMAIN cands = 1..n
  BY RewriterAssumption DEF IsCandidates
<1>2. Select(cands) = sel
  BY DEF Select
<1>3. ASSUME NEW S \in SUBSET (1..n)
      PROVE  /\ First(S) \subseteq S
             /\ \A i, j \in First(S) : cands[i].value = cands[j].value => i = j
  <2> SUFFICES ASSUME NEW i \in First(S), NEW j \in First(S), cands[i].value = cands[j].value
               PROVE  i = j
    OBVIOUS
  <2>1. ~(i < j) /\ ~(j < i) /\ i \in Int /\ j \in Int
    BY <1>1
  <2> QED
    BY <2>1
<1>4. plainOnes \in SUBSET (1..n) /\ more \in SUBSET (1..n)
  BY <1>1
<1>5. /\ A \subseteq 1..n /\ \A i, j \in A : cands[i].value = cands[j].value => i = j
      /\ B \subseteq more /\ \A i, j \in B : cands[i].value = cands[j].value => i = j
  <2> DEFINE P == plainOnes
             M == more
  <2>1. P \in SUBSET (1..n) /\ M \in SUBSET (1..n)
    BY <1>4
  <2> HIDE DEF P, M
  <2>2. /\ First(P) \subseteq P /\ \A i, j \in First(P) : cands[i].value = cands[j].value => i = j
        /\ First(M) \subseteq M /\ \A i, j \in First(M) : cands[i].value = cands[j].value => i = j
    <3> HIDE DEF First
    <3> QED BY <1>3, <2>1
  <2> QED
    BY <1>4, <2>2 DEF P, M
<1>6. IsListOf(a, n, A) /\ IsListOf(b, n, B)
  BY <1>1, KeptIdentity
<1>7. n > 0 /\ ~cands[1].supplemental => 1 \in A
  <2> SUFFICES ASSUME n > 0, ~cands[1].supplemental PROVE 1 \in A
    OBVIOUS
  <2>1. 1 \in plainOnes
    BY <1>1
  <2>2. \A j \in plainOnes : ~(j < 1)
    BY <1>1
  <2> QED
    BY <2>1, <2>2
<1>8. \A i \in more, j \in ToSet(plain) : cands[i].value # cands[j].value
  OBVIOUS
<1> HIDE DEF A, B, a, b, plain, more, n
<1>9. /\ a \in Seq(1..n) /\ Len(a) \in Nat /\ \A k \in 1..Len(a) : a[k] \in A
      /\ \A k, l \in 1..Len(a) : a[k] = a[l] => k = l
      /\ n > 0 /\ ~cands[1].supplemental => Len(a) >= 1 /\ a[1] = 1
  <2>1. /\ Len(a) \in Nat /\ \A k, l \in 1..Len(a) : a[k] = a[l] => k = l
        /\ n > 0 /\ 1 \in A => Len(a) >= 1 /\ a[1] = 1
    BY <1>1, <1>6, ListOfFacts
  <2> QED
    BY <1>6, <1>7, <2>1 DEF IsListOf
<1>10. /\ b \in Seq(1..n) /\ Len(b) \in Nat /\ \A k \in 1..Len(b) : b[k] \in B
       /\ \A k, l \in 1..Len(b) : b[k] = b[l] => k = l
  <2>1. /\ Len(b) \in Nat /\ \A k, l \in 1..Len(b) : b[k] = b[l] => k = l
    BY <1>1, <1>6, ListOfFacts
  <2> QED
    BY <1>6, <2>1 DEF IsListOf
<1>11. /\ plain \in Seq(1..n) /\ Len(plain) \in Nat /\ Len(plain) <= Len(a)
       /\ Len(plain) = Limit \/ Len(plain) = Len(a)
       /\ \A k \in 1..Len(plain) : plain[k] = a[k]
  BY <1>1, <1>9, TakeFacts DEF plain
<1>12. /\ both \in Seq(1..n) /\ Len(both) = Len(plain) + Len(b)
       /\ \A k \in 1..Len(plain) + Len(b) :
            both[k] = IF k <= Len(plain) THEN plain[k] ELSE b[k - Len(plain)]
  BY <1>10, <1>11, ConcatProperties
<1> DEFINE V(i) == cands[i].value
<1> HIDE DEF both, V
<1>13. ASSUME NEW k \in 1..Len(both)
       PROVE  \/ k \in 1..Len(plain) /\ k \in 1..Len(a) /\ both[k] = a[k] /\ a[k] \in A
                 /\ a[k] \in ToSet(plain)
              \/ /\ k - Len(plain) \in 1..Len(b) /\ ~(k \in 1..Len(plain))
                 /\ both[k] = b[k - Len(plain)] /\ b[k - Len(plain)] \in B
  <2>1. CASE k <= Len(plain)
    <3>1. k \in 1..Len(plain) /\ k \in 1..Len(a)
      BY <1>9, <1>11, <2>1
    <3>2. plain[k] \in ToSet(plain)
      BY <1>11, <3>1 DEF ToSet
    <3> QED
      BY <1>9, <1>11, <1>12, <2>1, <3>1, <3>2
  <2>2. CASE ~(k <= Len(plain))
    <3>1. k - Len(plain) \in 1..Len(b)
      BY <1>10, <1>11, <1>12, <2>2
    <3> QED
      BY <1>10, <1>12, <2>2, <3>1
  <2> QED
    BY <2>1, <2>2
<1>14. ASSUME NEW k \in 1..Len(both), NEW l \in 1..Len(both), V(both[k]) = V(both[l])
       PROVE  k = l
  <2>1. /\ \A i, j \in A : V(i) = V(j) => i = j
        /\ \A i, j \in B : V(i) = V(j) => i = j
        /\ \A i \in B, j \in ToSet(plain) : V(i) # V(j)
    BY <1>5, <1>8 DEF V
  <2>2. CASE k \in 1..Len(plain) /\ l \in 1..Len(plain)
    BY <1>9, <1>13, <1>14, <2>1, <2>2
  <2>3. CASE k \notin 1..Len(plain) /\ l \notin 1..Len(plain)
    <3>1. k - Len(plain) = l - Len(plain)
      BY <1>10, <1>13, <1>14, <2>1, <2>3
    <3> QED
      BY <1>11, <3>1
  <2>4. CASE (k \in 1..Len(plain)) # (l \in 1..Len(plain))
    BY <1>13, <1>14, <2>1, <2>4, SMTT(30)
  <2> QED
    BY <2>2, <2>3, <2>4
<1>15. /\ sel \in Seq(1..n) /\ Len(sel) <= Limit + SupplementLimit /\ Len(sel) <= Len(both)
       /\ Len(sel) = Limit + SupplementLimit \/ Len(sel) = Len(both)
       /\ \A k \in 1..Len(sel) : sel[k] = both[k]
  BY <1>1, <1>12, TakeFacts
<1> HIDE DEF sel
<1>16. Len(sel) \in Nat /\ Len(both) \in Nat
  BY <1>12, <1>15
<1>17. ASSUME NEW k \in 1..Len(sel), NEW l \in 1..Len(sel), V(sel[k]) = V(sel[l]) PROVE k = l
  <2>1. k \in 1..Len(both) /\ l \in 1..Len(both)
    BY <1>15, <1>16
  <2> QED
    BY <1>14, <1>15, <1>17, <2>1
<1>18. ASSUME n > 0, ~cands[1].supplemental PROVE Len(sel) >= 1 /\ sel[1] = 1
  <2>1. Len(a) >= 1 /\ a[1] = 1
    BY <1>9, <1>18
  <2>2. Len(plain) >= 1 /\ Len(both) >= 1
    BY <1>1, <1>9, <1>10, <1>11, <1>12, <2>1
  <2>3. Len(sel) >= 1
    BY <1>1, <1>15, <1>16, <2>2
  <2>4. 1 \in 1..Len(sel) /\ 1 \in 1..Len(both) /\ 1 \in 1..Len(plain)
    BY <1>11, <1>16, <2>2, <2>3
  <2> QED
    BY <1>13, <1>15, <2>1, <2>3, <2>4
<1>19. cands # <<>> => n > 0
  BY DEF n, IsCandidates
<1> QED
  BY <1>2, <1>15, <1>17, <1>18, <1>19 DEF SelectFacts, n, V

-----------------------------------------------------------------------------
(* The supplement *)

\* The list with the supplement: Mozc's candidates first, no key twice.
LEMMA Supplemented ==
  ASSUME NEW seg, IsSegment(seg), NEW new, new = AddSupplemental(seg)
  PROVE  /\ new \in [free : BOOLEAN, supplement : {seg.supplement}, cands : {new.cands}]
         /\ IsCandidates(seg.cands) /\ IsCandidates(new.cands)
         /\ Len(seg.cands) \in Nat /\ Len(new.cands) \in Nat
         /\ new = seg \/ Len(new.cands) = Len(seg.cands) + 1
         /\ \A k \in 1..Len(seg.cands) : new.cands[k] = seg.cands[k] /\ k \in 1..Len(new.cands)
         /\ \A k, l \in 1..Len(new.cands) : Key(new.cands[k]) = Key(new.cands[l]) => k = l
         /\ \A k \in 1..Len(new.cands) :
              k \in 1..Len(seg.cands) \/ Key(new.cands[k]) = <<seg.supplement, 0>>
         /\ seg.cands # <<>> => new.cands # <<>> /\ ~new.cands[1].supplemental
                                /\ new.cands[1] = seg.cands[1]
<1> DEFINE n == Len(seg.cands)
           v == Supplemental(seg.supplement)
           S == ToSet(seg.cands) \cup {v}
<1>1. /\ IsCandidates(seg.cands) /\ n \in Nat /\ DOMAIN seg.cands = 1..n
      /\ \A k \in 1..n : IsCandidate(seg.cands[k]) /\ ~seg.cands[k].supplemental
                         /\ seg.cands[k] \in ToSet(seg.cands)
  BY DEF IsSegment, IsCandidates, ToSet
<1>2. \A k, l \in 1..n : Key(seg.cands[k]) = Key(seg.cands[l]) => k = l
  BY <1>1 DEF IsSegment, IsInjective, Keys
<1>3. seg \in [free : BOOLEAN, supplement : {seg.supplement}, cands : {seg.cands}]
  BY DEF IsSegment
<1>4. seg.cands # <<>> => 1 \in 1..n
  BY <1>1 DEF IsCandidates
<1>5. CASE new = seg
  BY <1>1, <1>2, <1>3, <1>4, <1>5
<1>6. CASE new # seg
  <2>1. /\ new = [seg EXCEPT !.cands = Append(@, v)]
        /\ seg.supplement \notin Surfaces(seg.cands)
    BY <1>6 DEF AddSupplemental
  <2> DEFINE q == Append(seg.cands, v)
  <2>2. seg.cands \in Seq(S) /\ v \in S
    BY <1>1 DEF IsCandidates
  <2>3. /\ q \in Seq(S) /\ Len(q) = n + 1 /\ q[n + 1] = v
        /\ \A k \in 1..n : q[k] = seg.cands[k]
    <3> HIDE DEF S, v
    <3> QED BY <2>2, AppendProperties
  <2>4. new \in [free : BOOLEAN, supplement : {seg.supplement}, cands : {q}] /\ new.cands = q
    BY <1>3, <2>1
  <2> HIDE DEF q
  <2>5. \A k \in 1..(n + 1) : k \in 1..n \/ k = n + 1
    BY <1>1
  <2>6. IsCandidate(v) /\ Key(v) = <<seg.supplement, 0>> /\ v.value = seg.supplement
    BY DEF IsCandidate, Supplemental, Key
  <2>7. \A k \in 1..n : Key(seg.cands[k]) # Key(v)
    <3>1. \A k \in 1..n : seg.cands[k].value \in Surfaces(seg.cands)
      BY <1>1 DEF Surfaces
    <3> QED
      BY <2>1, <2>6, <3>1 DEF Key
  <2> HIDE DEF v
  <2>8. DOMAIN q = 1..(n + 1) /\ ToSet(q) = {q[k] : k \in 1..(n + 1)}
    BY <1>1, <2>3 DEF ToSet
  <2>9. ASSUME NEW k \in 1..(n + 1)
        PROVE  IsCandidate(q[k]) /\ (k \in 1..n \/ Key(q[k]) = <<seg.supplement, 0>>)
    BY <1>1, <2>3, <2>5, <2>6
  <2>10. ASSUME NEW k \in 1..(n + 1), NEW l \in 1..(n + 1), Key(q[k]) = Key(q[l]) PROVE k = l
    <3>1. CASE k \in 1..n /\ l \in 1..n
      BY <1>2, <2>3, <2>10, <3>1
    <3>2. CASE k \in 1..n /\ l = n + 1
      BY <2>3, <2>7, <2>10, <3>2
    <3>3. CASE k = n + 1 /\ l \in 1..n
      BY <2>3, <2>7, <2>10, <3>3
    <3> QED
      BY <2>5, <2>10, <3>1, <3>2, <3>3
  <2>11. IsCandidates(q)
    <3>1. q \in Seq(ToSet(q))
      BY <2>3, <2>8
    <3> QED
      BY <2>8, <2>9, <3>1 DEF IsCandidates
  <2>12. /\ \A k \in 1..n : k \in 1..(n + 1)
         /\ seg.cands # <<>> => q[1] = seg.cands[1] /\ ~q[1].supplemental
         /\ q # <<>>
    BY <1>1, <1>4, <2>3
  <2> HIDE DEF n, S
  <2> QED
    BY <1>1, <2>3, <2>4, <2>9, <2>10, <2>11, <2>12 DEF n
<1> QED
  BY <1>5, <1>6

-----------------------------------------------------------------------------
(* What the loop makes of the lists of candidates.                           *)

\* The keys of the candidates in any order.
Orders(cands) == {[k \in 1..Len(cands) |-> Key(cands[p[k]])] : p \in Perm(Len(cands))}

\* A segment's list as Mozc has it, and with the supplement last.
Given(seg) == {Keys(seg.cands), Keys(AddSupplemental(seg).cands)}

\* The segments to the left are Mozc's; the one that is asked about has its
\* supplement; each list is Mozc's, with or without the supplement, in some order.
ListsInv ==
  /\ \A i \in DOMAIN input : pc = "idle" \/ i < index \/ (i = index /\ pc = "scan")
                               => segs[i] = input[i]
  /\ pc \in {"ask", "rank"} =>
       /\ segs[index] = AddSupplemental(input[index])
       /\ selected = Select(segs[index].cands)
       /\ HasChoice(segs[index].cands)
  /\ \A i \in DOMAIN input :
       Keys(segs[i].cands) \in Orders(input[i].cands) \cup Orders(AddSupplemental(input[i]).cands)

\* anyReordered tells whether some list is in a new order.
ChangeInv ==
  /\ anyReordered \in BOOLEAN
  /\ anyReordered <=> \E i \in DOMAIN input : Keys(segs[i].cands) \notin Given(input[i])

\* What Mozc hands over are segments.
LEMMA InputSegments ==
  ASSUME Places, NEW i \in DOMAIN input
  PROVE  IsSegment(input[i])
<1>1. input \in Inputs /\ input[i] \in ToSet(input)
  BY DEF Places, ToSet
<1> QED
  BY <1>1, RewriterAssumption

\* The order a list has is one of its orders.
LEMMA GivenOrder ==
  ASSUME NEW cands, IsCandidates(cands)
  PROVE  /\ Keys(cands) = [k \in 1..Len(cands) |-> Key(cands[k])]
         /\ Keys(cands) \in Orders(cands)
<1> DEFINE n == Len(cands)
<1>1. n \in Nat /\ DOMAIN cands = 1..n
  BY DEF IsCandidates
<1>2. Keys(cands) = [k \in 1..n |-> Key(cands[k])]
  BY <1>1 DEF Keys
<1>3. Identity(n) \in Perm(n) /\ \A k \in 1..n : Identity(n)[k] = k
  BY <1>1 DEF Identity, Perm, IsInjective
<1>4. Keys(cands) = [k \in 1..n |-> Key(cands[Identity(n)[k]])]
  BY <1>2, <1>3
<1> QED
  BY <1>2, <1>3, <1>4 DEF Orders

\* In whatever order, the candidates are there once.
LEMMA OrdersKeepAll ==
  ASSUME NEW seg, IsSegment(seg), NEW keys,
         keys \in Orders(seg.cands) \cup Orders(AddSupplemental(seg).cands)
  PROVE  /\ IsInjective(keys)
         /\ ToSet(Keys(seg.cands)) \subseteq ToSet(keys)
         /\ ToSet(keys) \subseteq ToSet(Keys(seg.cands)) \cup {<<seg.supplement, 0>>}
<1> DEFINE new == AddSupplemental(seg)
           m == Len(seg.cands)
<1>1. PICK c \in {seg.cands, new.cands} : keys \in Orders(c)
  OBVIOUS
<1>2. /\ IsCandidates(seg.cands) /\ m \in Nat /\ Len(new.cands) \in Nat
      /\ \A k \in 1..m : new.cands[k] = seg.cands[k] /\ k \in 1..Len(new.cands)
      /\ \A k, l \in 1..Len(new.cands) : Key(new.cands[k]) = Key(new.cands[l]) => k = l
      /\ \A k \in 1..Len(new.cands) :
           k \in 1..m \/ Key(new.cands[k]) = <<seg.supplement, 0>>
  BY Supplemented
<1> DEFINE n == Len(c)
<1>3. /\ n \in Nat
      /\ \A k \in 1..m : c[k] = seg.cands[k] /\ k \in 1..n
      /\ \A k, l \in 1..n : Key(c[k]) = Key(c[l]) => k = l
      /\ \A k \in 1..n : k \in 1..m \/ Key(c[k]) = <<seg.supplement, 0>>
  <2>1. CASE c = seg.cands
    <3>1. \A k \in 1..m : Key(new.cands[k]) = Key(seg.cands[k])
      BY <1>2
    <3> HIDE DEF new, m
    <3>2. \A k, l \in 1..m : Key(seg.cands[k]) = Key(seg.cands[l]) => k = l
      BY <1>2, <3>1
    <3> QED
      BY <1>2, <2>1, <3>2 DEF m
  <2>2. CASE c = new.cands
    <3> HIDE DEF new, m
    <3> QED
      BY <1>2, <2>2
  <2> QED
    BY <2>1, <2>2
<1>4. PICK p \in Perm(n) : keys = [k \in 1..n |-> Key(c[p[k]])]
  BY <1>1 DEF Orders
<1>5. Keys(seg.cands) = [k \in 1..m |-> Key(seg.cands[k])]
  BY <1>2, GivenOrder
<1> HIDE DEF m, n, new
<1>6. \A k \in 1..n : p[k] \in 1..n /\ \A l \in 1..n : p[k] = p[l] => k = l
  BY DEF Perm, IsInjective
<1>7. IsInjective(keys)
  BY <1>3, <1>4, <1>6 DEF IsInjective
<1>8. ASSUME NEW x \in ToSet(Keys(seg.cands)) PROVE x \in ToSet(keys)
  <2>1. PICK i \in 1..m : x = Key(seg.cands[i])
    BY <1>5, <1>8 DEF ToSet
  <2>2. i \in 1..n /\ x = Key(c[i])
    BY <1>3, <2>1
  <2>3. PICK k \in 1..n : p[k] = i
    BY <1>3, <2>2, PermHas
  <2> QED
    BY <1>4, <2>2, <2>3 DEF ToSet
<1>9. ASSUME NEW x \in ToSet(keys)
      PROVE  x \in ToSet(Keys(seg.cands)) \cup {<<seg.supplement, 0>>}
  <2>1. PICK k \in 1..n : x = Key(c[p[k]])
    BY <1>4, <1>9 DEF ToSet
  <2>2. p[k] \in 1..n
    BY <1>6
  <2>3. CASE p[k] \in 1..m
    <3>1. x = Key(seg.cands[p[k]])
      BY <1>3, <2>1, <2>3
    <3> QED
      BY <1>5, <2>3, <3>1 DEF ToSet
  <2>4. CASE p[k] \notin 1..m
    BY <1>3, <2>1, <2>2, <2>4
  <2> QED
    BY <2>3, <2>4
<1> QED
  BY <1>7, <1>8, <1>9

\* The answer of the ranker as an order of the candidates.
AnswerOrder(r) == [k \in DOMAIN selected |-> selected[r[k]]]

\* What an answer does to the list in hand, which is Mozc's and its supplement.
LEMMA AnswerEffect ==
  ASSUME LoopInv, ListsInv, NEW r \in Rankings, RankAnswers(r),
         NEW cands, cands = AddSupplemental(input[index]).cands,
         NEW d, d = Desired(Len(cands), AnswerOrder(r))
  PROVE  /\ index \in DOMAIN input /\ IsCandidates(cands) /\ segs[index].cands = cands
         /\ AnswerOrder(r) \in Seq(1..Len(cands)) /\ IsInjective(AnswerOrder(r))
         /\ d \in Perm(Len(cands))
         /\ DOMAIN segs' = DOMAIN segs
         /\ \A i \in DOMAIN segs : i # index => segs'[i] = segs[i]
         /\ Keys(segs'[index].cands) = [k \in 1..Len(cands) |-> Key(cands[d[k]])]
         /\ anyReordered' = (anyReordered \/ d # Identity(Len(cands)))
<1> DEFINE seg == AddSupplemental(input[index])
           n == Len(cands)
           order == AnswerOrder(r)
<1>1. /\ pc = "rank" /\ index \in DOMAIN input /\ DOMAIN segs = DOMAIN input
      /\ index \in DOMAIN segs
  <2>1. Len(input) \in Nat /\ DOMAIN input = 1..Len(input)
    BY InputIsSequence DEF LoopInv
  <2>2. /\ pc = "rank" /\ index \in 0..Len(input) /\ index > 0 /\ DOMAIN segs = DOMAIN input
    BY DEF LoopInv, Places, RankAnswers
  <2> QED
    BY <2>1, <2>2
<1>2. segs[index] = seg /\ selected = Select(cands) /\ segs[index].cands = cands
  BY <1>1 DEF ListsInv
<1>3. IsSegment(input[index])
  BY <1>1, InputSegments DEF LoopInv
<1>4. /\ seg \in [free : BOOLEAN, supplement : {input[index].supplement}, cands : {cands}]
      /\ IsCandidates(cands) /\ n \in Nat
  BY <1>3, Supplemented
<1>5. SelectFacts(cands, selected)
  BY <1>2, <1>4, SelectCorrect
<1> HIDE DEF seg
<1>6. order \in Seq(1..n) /\ IsInjective(order)
  <2> DEFINE L == Len(selected)
  <2>1. /\ L \in Nat /\ selected \in [1..L -> 1..n]
        /\ \A k, l \in 1..L : selected[k] = selected[l] => k = l
    <3>1. /\ selected \in Seq(1..n)
          /\ \A k, l \in 1..L : cands[selected[k]].value = cands[selected[l]].value => k = l
      BY <1>5 DEF SelectFacts
    <3>2. L \in Nat /\ selected \in [1..L -> 1..n]
      BY <3>1
    <3> HIDE DEF L
    <3>3. \A k, l \in 1..L : selected[k] = selected[l] => k = l
      BY <3>1
    <3> QED
      BY <3>2, <3>3
  <2>2. DOMAIN selected = 1..L
    BY <2>1
  <2>3. r \in [1..L -> 1..L] /\ \A k, l \in 1..L : r[k] = r[l] => k = l
    BY <2>2 DEF Rankings, IsInjective
  <2> HIDE DEF L
  <2>4. order = [k \in 1..L |-> selected[r[k]]]
    BY <2>2 DEF AnswerOrder
  <2>5. order \in [1..L -> 1..n]
    BY <2>1, <2>3, <2>4
  <2>6. \A k, l \in 1..L : order[k] = order[l] => k = l
    BY <2>1, <2>3, <2>4
  <2>7. IsInjective(order)
    BY <2>5, <2>6 DEF IsInjective
  <2>8. order \in Seq(1..n)
    BY <2>1, <2>5
  <2> QED
    BY <2>7, <2>8
<1>7. d \in Perm(n) /\ Keys(Permuted(cands, order)) = [k \in 1..n |-> Key(cands[d[k]])]
  <2>1. d = Desired(Len(cands), order)
    OBVIOUS
  <2>2. IsCandidates(cands) /\ order \in Seq(1..Len(cands)) /\ IsInjective(order)
    BY <1>4, <1>6
  <2>3. IsPermuted(Permuted(cands, order), cands, d)
    <3> HIDE DEF order
    <3> QED BY <2>1, <2>2, PermutedKeys
  <2> QED
    BY <2>3 DEF IsPermuted
<1>8. /\ segs' = [segs EXCEPT ![index].cands = Permuted(cands, order)]
      /\ anyReordered' = (anyReordered \/ d # Identity(n))
  BY <1>2 DEF RankAnswers, AnswerOrder
<1> DEFINE P == Permuted(cands, order)
<1>9. segs' = [segs EXCEPT ![index] = [seg EXCEPT !.cands = P]]
  BY <1>2, <1>8
<1> HIDE DEF P, order
<1>10. [seg EXCEPT !.cands = P].cands = P
  BY <1>4
<1>11. /\ DOMAIN segs' = DOMAIN segs
       /\ \A i \in DOMAIN segs : i # index => segs'[i] = segs[i]
       /\ segs'[index].cands = P
  BY <1>1, <1>9, <1>10
<1> QED
  BY <1>1, <1>2, <1>4, <1>6, <1>7, <1>8, <1>11 DEF P, order

\* What adding the supplement does.
LEMMA SupplementEffect ==
  ASSUME LoopInv, ListsInv, Supplement
  PROVE  /\ pc = "scan" /\ index \in DOMAIN input /\ DOMAIN segs' = DOMAIN segs
         /\ segs[index] = input[index] /\ segs'[index] = AddSupplemental(input[index])
         /\ \A i \in DOMAIN segs : i # index => segs'[i] = segs[i]
         /\ selected' = Select(segs'[index].cands)
         /\ \/ HasChoice(segs'[index].cands) /\ pc' = "ask" /\ index' = index
            \/ pc' = "scan" /\ index' = index - 1
<1>1. /\ pc = "scan" /\ index \in DOMAIN input /\ DOMAIN segs = DOMAIN input
  <2>1. Len(input) \in Nat /\ DOMAIN input = 1..Len(input)
    BY InputIsSequence DEF LoopInv
  <2>2. /\ pc = "scan" /\ index \in 0..Len(input) /\ index > 0 /\ DOMAIN segs = DOMAIN input
    BY DEF LoopInv, Places, Supplement
  <2> QED
    BY <2>1, <2>2
<1>2. segs[index] = input[index]
  BY <1>1 DEF ListsInv
<1> DEFINE seg == AddSupplemental(input[index])
<1>3. /\ segs' = [segs EXCEPT ![index] = seg]
      /\ selected' = Select(seg.cands)
      /\ \/ HasChoice(seg.cands) /\ pc' = "ask" /\ index' = index
         \/ pc' = "scan" /\ index' = index - 1
  BY <1>2 DEF Supplement, Continue
<1> HIDE DEF seg
<1> QED
  BY <1>1, <1>2, <1>3 DEF seg

\* No step loses the form of the lists.
LEMMA ListsStep ==
  ASSUME LoopInv, ListsInv, [Next]_vars
  PROVE  ListsInv'
<1>1. /\ Len(input) \in Nat /\ DOMAIN input = 1..Len(input) /\ DOMAIN segs = DOMAIN input
      /\ index \in 0..Len(input) /\ input' = input
  <2>1. input' = input
    BY DEF Next, Realtime, Convert, Skip, Supplement, OutOfTime, Ask, RankFails, Return,
           RankAnswers, Done, vars
  <2> QED
    BY <2>1, InputIsSequence DEF LoopInv, Places
<1> DEFINE Fine(i, keys) ==
             keys \in Orders(input[i].cands) \cup Orders(AddSupplemental(input[i]).cands)
<1>2. \A i \in DOMAIN input : Fine(i, Keys(segs[i].cands))
  BY DEF ListsInv
<1>3. CASE UNCHANGED <<segs, pc, index, selected>>
  BY <1>1, <1>3 DEF ListsInv
<1>4. ASSUME NEW context \in BOOLEAN, Convert(context)
      PROVE  ListsInv'
  <2>1. pc = "idle" /\ pc' \in {"scan", "done"} /\ segs' = segs
    BY <1>4 DEF Convert
  <2>2. \A i \in DOMAIN input : segs[i] = input[i]
    BY <2>1 DEF ListsInv
  <2> QED
    BY <1>1, <1>2, <2>1, <2>2 DEF ListsInv
<1>5. CASE Skip \/ RankFails
  <2>1. pc \in {"scan", "rank"} /\ pc' = "scan" /\ index' = index - 1 /\ segs' = segs
    BY <1>5 DEF Skip, RankFails, Continue
  <2>2. \A i \in DOMAIN input : i < index - 1 \/ i = index - 1 => i < index
    BY <1>1
  <2> QED
    BY <1>1, <1>2, <2>1, <2>2 DEF ListsInv
<1>6. CASE Supplement
  <2>1. /\ pc = "scan" /\ index \in DOMAIN input /\ DOMAIN segs' = DOMAIN segs
        /\ segs'[index] = AddSupplemental(input[index])
        /\ \A i \in DOMAIN segs : i # index => segs'[i] = segs[i]
        /\ selected' = Select(segs'[index].cands)
        /\ \/ HasChoice(segs'[index].cands) /\ pc' = "ask" /\ index' = index
           \/ pc' = "scan" /\ index' = index - 1
    BY <1>6, SupplementEffect
  <2>2. \A i \in DOMAIN input :
          (i < index' \/ (i = index' /\ pc' = "scan")) => i # index /\ i < index
    BY <1>1, <2>1
  <2>3. Fine(index, Keys(AddSupplemental(input[index]).cands))
    <3>1. IsCandidates(AddSupplemental(input[index]).cands)
      BY <2>1, InputSegments, Supplemented DEF LoopInv
    <3> QED
      BY <3>1, GivenOrder
  <2>4. \A i \in DOMAIN input : Fine(i, Keys(segs'[i].cands))
    BY <1>1, <1>2, <2>1, <2>3
  <2>5. \A i \in DOMAIN input :
          (i < index' \/ (i = index' /\ pc' = "scan")) => segs'[i] = input[i]
    BY <1>1, <2>1, <2>2 DEF ListsInv
  <2>6. pc' # "idle"
    BY <2>1
  <2>7. pc' \in {"ask", "rank"} => /\ segs'[index'] = AddSupplemental(input[index'])
                                   /\ selected' = Select(segs'[index'].cands)
                                   /\ HasChoice(segs'[index'].cands)
    BY <2>1
  <2>8. HasChoice(segs[index].cands)' <=> HasChoice(segs'[index'].cands)
    BY DEF HasChoice
  <2> HIDE DEF Fine
  <2> QED
    BY <1>1, <2>4, <2>5, <2>6, <2>7, <2>8 DEF ListsInv, Fine
<1>7. CASE OutOfTime \/ Return
  <2>1. pc' = "done" /\ index' = index /\ segs' = segs /\ pc \in {"ask", "scan"}
    BY <1>7 DEF OutOfTime, Return
  <2> QED
    BY <1>1, <1>2, <2>1 DEF ListsInv
<1>8. CASE Ask
  <2>1. pc = "ask" /\ pc' = "rank" /\ UNCHANGED <<segs, index, selected>>
    BY <1>8 DEF Ask
  <2> QED
    BY <1>1, <1>2, <2>1 DEF ListsInv
<1>9. ASSUME NEW r \in Rankings, RankAnswers(r)
      PROVE  ListsInv'
  <2> DEFINE cands == AddSupplemental(input[index]).cands
             d == Desired(Len(cands), AnswerOrder(r))
  <2>1. /\ index \in DOMAIN input
        /\ d \in Perm(Len(cands))
        /\ \A i \in DOMAIN segs : i # index => segs'[i] = segs[i]
        /\ Keys(segs'[index].cands) = [k \in 1..Len(cands) |-> Key(cands[d[k]])]
    BY <1>9, AnswerEffect
  <2>2. pc' = "scan" /\ index' = index - 1
    BY <1>9 DEF RankAnswers, Continue
  <2>3. Fine(index, Keys(segs'[index].cands))
    BY <2>1 DEF Orders
  <2>4. \A i \in DOMAIN input : Fine(i, Keys(segs'[i].cands))
    BY <1>1, <1>2, <2>1, <2>3
  <2>5. \A i \in DOMAIN input :
          (i < index' \/ (i = index' /\ pc' = "scan")) => i # index /\ i < index
    BY <1>1, <2>2
  <2>6. \A i \in DOMAIN input :
          (i < index' \/ (i = index' /\ pc' = "scan")) => segs'[i] = input[i]
    BY <1>1, <2>1, <2>5 DEF ListsInv
  <2> HIDE DEF d
  <2> QED
    BY <1>1, <2>2, <2>4, <2>6 DEF ListsInv
<1> QED
  BY <1>3, <1>4, <1>5, <1>6, <1>7, <1>8, <1>9 DEF Next, Realtime, Done, vars

\* So the lists have that form always.
LEMMA ListsCorrect == Spec => []ListsInv
<1>1. LoopInv /\ Init => ListsInv
  <2> SUFFICES ASSUME LoopInv, Init PROVE ListsInv
    OBVIOUS
  <2>1. ASSUME NEW i \in DOMAIN input PROVE Keys(input[i].cands) \in Orders(input[i].cands)
    BY InputSegments, Supplemented, GivenOrder DEF LoopInv
  <2> QED
    BY <2>1 DEF Init, ListsInv
<1>2. LoopInv /\ ListsInv /\ [Next]_vars => ListsInv'
  BY ListsStep
<1> QED
  BY <1>1, <1>2, LoopCorrect, PTL DEF Spec

\* Whatever the ranker answers and however often it fails or is late, the user
\* can still choose everything Mozc showed, once, and nothing else but the
\* supplement of the reading.
THEOREM CandidatesAreKept == Spec => []NoCandidateLost
<1>1. LoopInv /\ ListsInv => NoCandidateLost
  <2> SUFFICES ASSUME LoopInv, ListsInv, NEW i \in DOMAIN segs
               PROVE  /\ IsInjective(Keys(segs[i].cands))
                      /\ ToSet(Keys(input[i].cands)) \subseteq ToSet(Keys(segs[i].cands))
                      /\ ToSet(Keys(segs[i].cands))
                           \subseteq ToSet(Keys(input[i].cands)) \cup {<<input[i].supplement, 0>>}
    BY DEF NoCandidateLost
  <2>1. i \in DOMAIN input
    BY DEF LoopInv, Places
  <2>2. IsSegment(input[i])
    BY <2>1, InputSegments DEF LoopInv
  <2> QED
    BY <2>1, <2>2, OrdersKeepAll DEF ListsInv
<1> QED
  BY <1>1, LoopCorrect, ListsCorrect, PTL

\* A list is in a new order exactly when the wanted order is not the one it has.
LEMMA NewOrder ==
  ASSUME NEW seg, IsSegment(seg), NEW cands, cands = AddSupplemental(seg).cands,
         NEW d \in Perm(Len(cands)), NEW keys,
         keys = [k \in 1..Len(cands) |-> Key(cands[d[k]])]
  PROVE  keys \notin Given(seg) <=> d # Identity(Len(cands))
<1> DEFINE n == Len(cands)
           m == Len(seg.cands)
           new == AddSupplemental(seg)
<1>1. /\ IsCandidates(seg.cands) /\ IsCandidates(cands) /\ m \in Nat /\ n \in Nat
      /\ new = seg \/ n = m + 1
      /\ \A k, l \in 1..n : Key(cands[k]) = Key(cands[l]) => k = l
  BY Supplemented
<1>2. /\ Keys(cands) = [k \in 1..n |-> Key(cands[k])]
      /\ Keys(seg.cands) = [k \in 1..m |-> Key(seg.cands[k])]
  <2>1. Keys(cands) = [k \in 1..Len(cands) |-> Key(cands[k])]
    BY <1>1, GivenOrder, ZenonT(60)
  <2>2. Keys(seg.cands) = [k \in 1..Len(seg.cands) |-> Key(seg.cands[k])]
    BY <1>1, GivenOrder
  <2> QED
    BY <2>1, <2>2
<1>3. d \in [1..n -> 1..n] /\ \A k \in 1..n : Identity(n)[k] = k
  BY DEF Perm, Identity
<1>4. Given(seg) = {Keys(seg.cands), Keys(cands)}
  BY DEF Given
<1>5. CASE d = Identity(n)
  BY <1>2, <1>3, <1>4, <1>5
<1>6. CASE d # Identity(n)
  <2>1. PICK k \in 1..n : d[k] # k
    BY <1>3, <1>6 DEF Identity
  <2>2. Key(cands[d[k]]) # Key(cands[k])
    BY <1>1, <1>3, <2>1
  <2>3. keys[k] = Key(cands[d[k]]) /\ Keys(cands)[k] = Key(cands[k])
    BY <1>2
  <2>4. keys # Keys(cands)
    BY <2>2, <2>3
  <2>5. new = seg \/ keys # Keys(seg.cands)
    <3>1. DOMAIN keys = 1..n /\ DOMAIN Keys(seg.cands) = 1..m
      BY <1>2
    <3>2. n = m + 1 => n \in 1..n /\ n \notin 1..m
      BY <1>1
    <3> QED
      BY <1>1, <3>1, <3>2
  <2> QED
    BY <1>4, <1>6, <2>4, <2>5
<1> QED
  BY <1>5, <1>6

\* anyReordered changes with the lists.
LEMMA ChangeStep ==
  ASSUME LoopInv, ListsInv, ChangeInv, [Next]_vars
  PROVE  ChangeInv'
<1>1. input' = input /\ DOMAIN segs = DOMAIN input
  BY DEF Next, Realtime, Convert, Skip, Supplement, OutOfTime, Ask, RankFails, Return,
         RankAnswers, Done, vars, LoopInv, Places
<1> DEFINE Changed(s, i) == Keys(s[i].cands) \notin Given(input[i])
<1>2. anyReordered \in BOOLEAN /\ (anyReordered <=> \E i \in DOMAIN input : Changed(segs, i))
  BY DEF ChangeInv
<1> SUFFICES /\ anyReordered' \in BOOLEAN
             /\ anyReordered' <=> \E i \in DOMAIN input : Changed(segs', i)
  <2>1. ChangeInv' <=>
          /\ anyReordered' \in BOOLEAN
          /\ anyReordered' <=> \E i \in DOMAIN input' : Keys(segs'[i].cands) \notin Given(input'[i])
    BY DEF ChangeInv
  <2> QED
    BY <1>1, <2>1
<1>3. CASE UNCHANGED <<segs, anyReordered>>
  BY <1>2, <1>3
<1>4. CASE Supplement
  <2>1. /\ anyReordered' = anyReordered /\ index \in DOMAIN input
        /\ segs[index] = input[index] /\ segs'[index] = AddSupplemental(input[index])
        /\ \A i \in DOMAIN segs : i # index => segs'[i] = segs[i]
    BY <1>4, SupplementEffect DEF Supplement
  <2>2. ~Changed(segs, index) /\ ~Changed(segs', index)
    BY <2>1 DEF Given
  <2>3. \A i \in DOMAIN input : Changed(segs, i) <=> Changed(segs', i)
    <3> SUFFICES ASSUME NEW i \in DOMAIN input PROVE Changed(segs, i) <=> Changed(segs', i)
      OBVIOUS
    <3>1. CASE i = index
      BY <2>2, <3>1
    <3>2. CASE i # index
      BY <1>1, <2>1, <3>2
    <3> QED
      BY <3>1, <3>2
  <2> HIDE DEF Changed
  <2> QED
    BY <1>2, <2>1, <2>3
<1>5. ASSUME NEW r \in Rankings, RankAnswers(r)
      PROVE  /\ anyReordered' \in BOOLEAN
             /\ anyReordered' <=> \E i \in DOMAIN input : Changed(segs', i)
  <2> DEFINE cands == AddSupplemental(input[index]).cands
             d == Desired(Len(cands), AnswerOrder(r))
  <2>1. /\ index \in DOMAIN input /\ segs[index].cands = cands
        /\ d \in Perm(Len(cands))
        /\ \A i \in DOMAIN segs : i # index => segs'[i] = segs[i]
        /\ Keys(segs'[index].cands) = [k \in 1..Len(cands) |-> Key(cands[d[k]])]
        /\ anyReordered' = (anyReordered \/ d # Identity(Len(cands)))
    BY <1>5, AnswerEffect
  <2>2. ~Changed(segs, index)
    BY <2>1 DEF Given
  <2>3. Changed(segs', index) <=> d # Identity(Len(cands))
    <3>1. IsSegment(input[index])
      BY <2>1, InputSegments DEF LoopInv
    <3> DEFINE keys == Keys(segs'[index].cands)
    <3>2. keys = [k \in 1..Len(cands) |-> Key(cands[d[k]])] /\ d \in Perm(Len(cands))
      BY <2>1
    <3>3. cands = AddSupplemental(input[index]).cands
      OBVIOUS
    <3> HIDE DEF cands, d, keys
    <3>4. keys \notin Given(input[index]) <=> d # Identity(Len(cands))
      BY <3>1, <3>2, <3>3, NewOrder
    <3> QED
      BY <3>4 DEF keys
  <2>4. \A i \in DOMAIN input : i # index => (Changed(segs, i) <=> Changed(segs', i))
    BY <1>1, <2>1
  <2> DEFINE new == d # Identity(Len(cands))
  <2>5. /\ anyReordered' = (anyReordered \/ new) /\ new \in BOOLEAN
        /\ Changed(segs', index) <=> new
    BY <2>1, <2>3
  <2> HIDE DEF Changed, new
  <2> QED
    BY <1>2, <2>1, <2>2, <2>4, <2>5
<1> QED
  BY <1>2, <1>3, <1>4, <1>5
     DEF Next, Realtime, Convert, Skip, OutOfTime, Ask, RankFails, Return, Done, vars

\* What Rewrite returns is the truth about what it did: true exactly when some
\* list is in a new order, whatever failed or was late on the way.
THEOREM ReturnIsTrue == Spec => []ReturnTellsChange
<1>1. LoopInv /\ Init => ChangeInv
  BY DEF Init, ChangeInv, Given
<1>2. LoopInv /\ ListsInv /\ ChangeInv /\ [Next]_vars => ChangeInv'
  BY ChangeStep
<1>3. LoopInv /\ ChangeInv => ReturnTellsChange
  BY DEF ReturnTellsChange, ChangeInv, Given, LoopInv, Places
<1> QED
  BY <1>1, <1>2, <1>3, LoopCorrect, ListsCorrect, PTL DEF Spec

-----------------------------------------------------------------------------
(* What the ranker is asked.                                                 *)

\* A request offers two surfaces at least, each once, first what Mozc shows.
IsChoice(q, s) ==
  /\ Len(q.values) \in 2..(Limit + SupplementLimit)
  /\ IsInjective(q.values)
  /\ q.values[1] = Top(s[q.index])

ChoiceInv ==
  \A k \in DOMAIN requests :
     /\ \A j \in 1 .. k - 1 : requests[j].index > requests[k].index
     /\ IsChoice(requests[k], input)

\* What is asked is a choice.
LEMMA AskedIsChoice ==
  ASSUME LoopInv, ListsInv, Ask
  PROVE  IsChoice(Request(index, selected), input)
<1> DEFINE seg == input[index]
           cands == AddSupplemental(seg).cands
           q == Request(index, selected)
           L == Len(selected)
<1>1. pc = "ask" /\ index \in DOMAIN input
  <2>1. Len(input) \in Nat /\ DOMAIN input = 1..Len(input)
    BY InputIsSequence DEF LoopInv
  <2>2. pc = "ask" /\ index \in 0..Len(input) /\ index > 0
    BY DEF LoopInv, Places, Ask
  <2> QED
    BY <2>1, <2>2
<1>2. segs[index].cands = cands /\ selected = Select(cands) /\ L >= 2
  BY <1>1 DEF ListsInv, HasChoice
<1>3. IsSegment(seg)
  BY <1>1, InputSegments DEF LoopInv
<1>4. /\ IsCandidates(seg.cands) /\ IsCandidates(cands) /\ Len(seg.cands) \in Nat
      /\ Len(cands) \in Nat
      /\ seg.cands # <<>> => /\ cands # <<>> /\ ~cands[1].supplemental
                             /\ cands[1] = seg.cands[1]
      /\ seg.cands = <<>> => cands = <<>>
  <2>1. seg.cands = <<>> => AddSupplemental(seg) = seg
    BY DEF AddSupplemental
  <2> QED
    BY <1>3, <2>1, Supplemented
<1> HIDE DEF cands
<1>5. SelectFacts(cands, selected)
  BY <1>2, <1>4, SelectCorrect
<1>6. L \in 2..(Limit + SupplementLimit) /\ DOMAIN selected = 1..L
  BY <1>2, <1>5, RewriterAssumption DEF SelectFacts
<1>7. /\ q.values = [k \in 1..L |-> cands[selected[k]].value] /\ q.index = index
      /\ Len(q.values) = L
  BY <1>2, <1>6 DEF Request
<1>8. IsInjective(q.values)
  BY <1>5, <1>7 DEF IsInjective, SelectFacts
<1>9. cands # <<>>
  <2>1. selected[1] \in 1..Len(cands)
    BY <1>5, <1>6 DEF SelectFacts
  <2> QED
    BY <2>1
<1>10. q.values[1] = Top(input[index])
  <2>1. seg.cands # <<>> /\ selected[1] = 1
    BY <1>4, <1>5, <1>9 DEF SelectFacts
  <2>2. q.values[1] = cands[1].value
    BY <1>6, <1>7, <2>1
  <2> QED
    BY <1>4, <2>1, <2>2 DEF Top
<1> QED
  BY <1>6, <1>7, <1>8, <1>10 DEF IsChoice

\* Requests stay choices, from right to left.
LEMMA ChoiceStep ==
  ASSUME LoopInv, ListsInv, ChoiceInv, [Next]_vars
  PROVE  ChoiceInv'
<1>1. input' = input
  BY DEF Next, Realtime, Convert, Skip, Supplement, OutOfTime, Ask, RankFails, Return,
         RankAnswers, Done, vars
<1>2. PICK n \in Nat : DOMAIN requests = 1..n
  BY DEF LoopInv, RequestTypes
<1>3. LoopInv'
  BY LoopStep
<1>4. PICK m \in Nat : DOMAIN requests' = 1..m
  BY <1>3 DEF LoopInv, RequestTypes
<1>5. /\ DOMAIN requests \subseteq DOMAIN requests'
      /\ \A k \in DOMAIN requests : /\ requests'[k].index = requests[k].index
                                    /\ requests'[k].values = requests[k].values
      /\ \A k \in DOMAIN requests' \ DOMAIN requests :
           Ask /\ requests'[k] = Request(index, selected)
  BY RequestsKeep
<1>6. m <= n + 1
  <2> SUFFICES ASSUME m > n + 1 PROVE FALSE
    BY <1>2, <1>4
  <2>1. n + 1 \in DOMAIN requests' \ DOMAIN requests
    BY <1>2, <1>4
  <2>2. Ask
    BY <1>5, <2>1
  <2>3. requests' = Append(requests, Request(index, selected))
    BY <2>2 DEF Ask
  <2>4. Len(requests) \in Nat /\ DOMAIN requests = 1..Len(requests)
        /\ DOMAIN requests' = 1..Len(requests) + 1
    BY <2>3, Sent DEF LoopInv
  <2>5. Len(requests) = n
    <3> DEFINE l == Len(requests)
    <3>1. l \in Nat /\ 1..l = 1..n
      BY <1>2, <2>4
    <3> HIDE DEF l
    <3>2. l = n
      BY <1>2, <3>1
    <3> QED
      BY <3>2 DEF l
  <2>6. m \in 1..m /\ m \notin 1..(n + 1)
    BY <1>2, <1>4
  <2> QED
    BY <1>4, <2>4, <2>5, <2>6
<1> SUFFICES ASSUME NEW k \in DOMAIN requests'
             PROVE  /\ \A j \in 1 .. k - 1 : requests'[j].index > requests'[k].index
                    /\ IsChoice(requests'[k], input)
  BY <1>1 DEF ChoiceInv, IsChoice, Top
<1>7. CASE k \in DOMAIN requests
  <2>1. \A j \in 1 .. k - 1 : j \in DOMAIN requests
    BY <1>2, <1>7
  <2>2. requests'[k].index = requests[k].index /\ requests'[k].values = requests[k].values
    BY <1>5, <1>7
  <2>3. \A j \in 1 .. k - 1 : requests'[j].index = requests[j].index
    BY <1>5, <2>1
  <2> QED
    BY <1>7, <2>2, <2>3 DEF ChoiceInv, IsChoice
<1>8. CASE k \notin DOMAIN requests
  <2>1. Ask /\ requests'[k] = Request(index, selected)
    BY <1>5, <1>8
  <2>2. requests'[k].index = index /\ IsChoice(requests'[k], input)
    BY <2>1, AskedIsChoice DEF Request
  <2>3. k = n + 1
    BY <1>2, <1>4, <1>6, <1>8
  <2>4. ASSUME NEW j \in 1 .. k - 1 PROVE requests'[j].index > index
    <3>1. j \in DOMAIN requests
      BY <1>2, <2>3
    <3>2. index < requests[j].index /\ requests[j].index \in Nat /\ index \in Nat
      <4>1. pc = "ask" /\ index \in Nat
        BY <2>1, InputIsSequence DEF Ask, LoopInv, Places
      <4> QED
        BY <3>1, <4>1 DEF LoopInv, GoneBy, RequestTypes, IsRequest
    <3> QED
      BY <1>5, <3>1, <3>2
  <2> QED
    BY <2>2, <2>4
<1> QED
  BY <1>7, <1>8

\* Whatever the segments and the limits, the ranker is asked about each segment
\* at most once, from right to left, and only to choose between different
\* surfaces, no more than the limits allow, that include what Mozc shows.
THEOREM RequestsOfferChoices == Spec => []RequestsAreChoices
<1>1. Init => ChoiceInv
  BY DEF Init, ChoiceInv
<1>2. LoopInv /\ ListsInv /\ ChoiceInv /\ [Next]_vars => ChoiceInv'
  BY ChoiceStep
<1>3. ChoiceInv => RequestsAreChoices
  BY DEF ChoiceInv, RequestsAreChoices, IsChoice
<1> QED
  BY <1>1, <1>2, <1>3, LoopCorrect, ListsCorrect, PTL DEF Spec

-----------------------------------------------------------------------------
(* What the user sees of an answer.                                          *)

\* Keys in the order that is wanted: those of the answer, then what is left of
\* the list.
LEMMA DesiredKeys ==
  ASSUME NEW old, NEW n \in Nat, old \in Seq(ToSet(old)), Len(old) = n, IsInjective(old),
         NEW order \in Seq(1..n), IsInjective(order)
  PROVE  LET ranked == InOrder(old, order)
         IN InOrder(old, Desired(n, order)) = ranked \o Kept(old, ToSet(old) \ ToSet(ranked))
<1> DEFINE ranked == InOrder(old, order)
           S == ToSet(old)
           T == S \ ToSet(ranked)
           P == (1..n) \ ToSet(order)
           K == Kept(Identity(n), P)
           rest == InOrder(old, K)
           m == Len(order)
           d == Desired(n, order)
<1>1. /\ old \in [1..n -> S] /\ DOMAIN old = 1..n
      /\ \A k, l \in 1..n : old[k] = old[l] => k = l
  <2>1. old \in [1..n -> S] /\ DOMAIN old = 1..n
    OBVIOUS
  <2> QED
    BY <2>1 DEF IsInjective
<1>2. m \in Nat /\ \A k \in 1..m : order[k] \in 1..n
  OBVIOUS
<1>a. ranked = [k \in 1..m |-> old[order[k]]]
  BY DEF InOrder
<1> HIDE DEF ranked
<1>3. P = PlacesOf(old, T)
  <2>1. ToSet(ranked) = {old[order[k]] : k \in 1..m} /\ ToSet(order) = {order[k] : k \in 1..m}
    BY <1>a DEF ToSet
  <2>2. ASSUME NEW i \in 1..n PROVE i \in ToSet(order) <=> old[i] \in ToSet(ranked)
    BY <1>1, <1>2, <2>1
  <2> QED
    BY <1>1, <2>2 DEF PlacesOf
<1>4. Kept(old, T) = rest
  <2>1. K = Kept(Identity(Len(old)), P)
    OBVIOUS
  <2>2. old \in Seq(S)
    OBVIOUS
  <2> HIDE DEF K, P, T, S
  <2>3. Kept(old, T) = InOrder(old, Kept(Identity(Len(old)), PlacesOf(old, T)))
    BY <2>2, KeptAtPlaces
  <2> QED
    BY <1>3, <2>1, <2>3
<1>5. K \in Seq(1..n) /\ Len(K) \in Nat /\ \A k \in 1..Len(K) : K[k] \in 1..n
  <2>1. IsListOf(K, n, P)
    BY KeptIdentity
  <2> HIDE DEF K, P
  <2> QED
    BY <2>1 DEF IsListOf
<1>6. d = order \o K
  BY DEF Desired
<1>7. d \in Perm(n)
  BY DesiredIsPerm
<1> HIDE DEF K, P, d
<1>8. /\ Len(d) = m + Len(K)
      /\ \A k \in 1..m + Len(K) : d[k] = IF k <= m THEN order[k] ELSE K[k - m]
  <2>1. /\ Len(order \o K) = Len(order) + Len(K)
        /\ \A k \in 1..Len(order) + Len(K) :
             (order \o K)[k] = IF k <= Len(order) THEN order[k] ELSE K[k - Len(order)]
    BY <1>5, ConcatProperties
  <2> QED
    BY <1>6, <2>1
<1>9. n = m + Len(K)
  <2>1. Len(d) = n
    BY <1>7 DEF Perm
  <2> QED
    BY <1>8, <2>1
<1>10. ranked \in Seq(S) /\ Len(ranked) = m /\ rest \in Seq(S) /\ Len(rest) = Len(K)
  BY <1>1, <1>2, <1>5, <1>a DEF InOrder
<1>11. /\ ranked \o rest \in Seq(S) /\ Len(ranked \o rest) = m + Len(K)
       /\ \A k \in 1..m + Len(K) :
            (ranked \o rest)[k] = IF k <= m THEN ranked[k] ELSE rest[k - m]
  <2> DEFINE a == ranked
  <2>1. a \in Seq(S) /\ rest \in Seq(S) /\ Len(a) = m /\ Len(rest) = Len(K)
    BY <1>10
  <2> HIDE DEF a, rest, S, m
  <2>2. /\ a \o rest \in Seq(S) /\ Len(a \o rest) = Len(a) + Len(rest)
        /\ \A k \in 1..Len(a) + Len(rest) :
             (a \o rest)[k] = IF k <= Len(a) THEN a[k] ELSE rest[k - Len(a)]
    BY <2>1, ConcatProperties
  <2> QED
    BY <2>1, <2>2 DEF a
<1>12. ASSUME NEW k \in 1..n PROVE (ranked \o rest)[k] = old[d[k]]
  <2>1. CASE k <= m
    <3>1. k \in 1..m
      BY <1>2, <2>1
    <3> QED
      BY <1>8, <1>9, <1>11, <1>a, <2>1, <3>1
  <2>2. CASE ~(k <= m)
    <3>1. k - m \in 1..Len(K)
      BY <1>2, <1>5, <1>9, <2>2
    <3> QED
      BY <1>8, <1>9, <1>11, <2>2, <3>1 DEF InOrder
  <2> QED
    BY <2>1, <2>2
<1> DEFINE w == ranked \o rest
<1>13. w \in [1..n -> S]
  <2>1. w \in Seq(S) /\ Len(w) = n
    BY <1>9, <1>11
  <2> HIDE DEF w, S
  <2> QED
    BY <2>1
<1> HIDE DEF w, S
<1>14. w = [k \in 1..n |-> old[d[k]]]
  BY <1>12, <1>13 DEF w
<1> QED
  BY <1>4, <1>8, <1>9, <1>14 DEF w, S, d, ranked, InOrder

\* Whatever the ranker's answer, the list the user gets leads with the ranked
\* candidates in the order of the answer; all others follow in the order they had.
THEOREM AnswerBecomesList == Spec => AnswerIsShown
<1> DEFINE Shown(r) ==
             LET old == Keys(segs[index].cands)
                 new == Keys(segs'[index].cands)
                 ranked == [k \in DOMAIN selected |-> old[selected[r[k]]]]
             IN new = ranked \o Kept(old, ToSet(old) \ ToSet(ranked))
<1>1. ASSUME LoopInv, ListsInv, NEW r \in Rankings, RankAnswers(r) PROVE Shown(r)
  <2> DEFINE cands == AddSupplemental(input[index]).cands
             n == Len(cands)
             order == AnswerOrder(r)
             d == Desired(n, order)
             old == Keys(cands)
             ranked == [k \in DOMAIN selected |-> old[selected[r[k]]]]
  <2>1. /\ index \in DOMAIN input /\ segs[index].cands = cands /\ IsCandidates(cands)
        /\ order \in Seq(1..n) /\ IsInjective(order) /\ d \in Perm(n)
        /\ Keys(segs'[index].cands) = [k \in 1..n |-> Key(cands[d[k]])]
    BY <1>1, AnswerEffect
  <2>2. n \in Nat /\ \A k, l \in 1..n : Key(cands[k]) = Key(cands[l]) => k = l
    <3>1. IsSegment(input[index])
      BY <1>1, <2>1, InputSegments DEF LoopInv
    <3> QED
      BY <3>1, Supplemented
  <2> HIDE DEF cands, d, order
  <2>3. old = [k \in 1..n |-> Key(cands[k])]
    BY <2>1, GivenOrder
  <2>4. IsInjective(old)
    BY <2>2, <2>3 DEF IsInjective
  <2>5. old \in Seq(ToSet(old)) /\ Len(old) = n
    <3> DEFINE o == old
    <3>1. o = [k \in 1..n |-> Key(cands[k])]
      BY <2>3
    <3> HIDE DEF o
    <3>2. DOMAIN o = 1..n /\ \A k \in 1..n : o[k] \in ToSet(o)
      BY <3>1 DEF ToSet
    <3>3. o \in [1..n -> ToSet(o)]
      BY <3>1, <3>2
    <3>4. o \in Seq(ToSet(o)) /\ Len(o) = n
      BY <2>2, <3>3
    <3> QED
      BY <3>4 DEF o
  <2>6. \A k \in 1..n : d[k] \in 1..n
    BY <2>1 DEF Perm
  <2>7. Keys(segs'[index].cands) = [k \in 1..n |-> old[d[k]]]
    BY <2>1, <2>3, <2>6
  <2>8. ranked = [k \in 1..Len(order) |-> old[order[k]]]
    <3>1. \A k \in DOMAIN selected : order[k] = selected[r[k]]
      BY DEF order, AnswerOrder
    <3>2. DOMAIN order = DOMAIN selected
      BY DEF order, AnswerOrder
    <3>3. DOMAIN order = 1..Len(order)
      BY <2>1
    <3> HIDE DEF old
    <3> QED
      BY <3>1, <3>2, <3>3
  <2> HIDE DEF old, ranked, n
  <2> DEFINE new == Keys(segs'[index].cands)
  <2>9. new = InOrder(old, Desired(n, order)) /\ ranked = InOrder(old, order)
    <3>1. Len(d) = n
      BY <2>1, <2>2 DEF Perm
    <3> QED
      BY <2>7, <2>8, <3>1 DEF d, InOrder
  <2>10. new = ranked \o Kept(old, ToSet(old) \ ToSet(ranked))
    <3>1. /\ n \in Nat /\ old \in Seq(ToSet(old)) /\ Len(old) = n /\ IsInjective(old)
          /\ order \in Seq(1..n) /\ IsInjective(order) /\ ranked = InOrder(old, order)
      BY <2>1, <2>2, <2>4, <2>5, <2>9
    <3> HIDE DEF new
    <3>2. InOrder(old, Desired(n, order))
          = InOrder(old, order) \o Kept(old, ToSet(old) \ ToSet(InOrder(old, order)))
      BY <3>1, DesiredKeys
    <3> QED
      BY <2>9, <3>1, <3>2
  <2> QED
    BY <2>1, <2>10 DEF old, ranked
<1>2. LoopInv /\ ListsInv => [\A r \in Rankings : RankAnswers(r) => Shown(r)]_vars
  BY <1>1
<1> QED
  BY <1>2, LoopCorrect, ListsCorrect, PTL DEF AnswerIsShown, Spec
=============================================================================
