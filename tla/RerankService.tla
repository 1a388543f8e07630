---------------------------- MODULE RerankService ----------------------------
(***************************************************************************)
(* What ranker/speculative.py promises to the callers of rank(): a         *)
(* prefetch is answered at once with the order its candidates came in, an  *)
(* explicit request with the model's order for its own key, or it fails.   *)
(* No cache, no worker and no other caller can be seen in an answer.       *)
(***************************************************************************)
CONSTANTS Callers, Keys, None, MozcOrder, Failed

VARIABLES
  asked,    \* the key of the explicit request each caller waits for, or None
  answer    \* the last answer each caller got, or None

vars == <<asked, answer>>

Init ==
  /\ asked = [c \in Callers |-> None]
  /\ answer = [c \in Callers |-> None]

AskPrefetch(c, k) ==
  /\ asked[c] = None
  /\ answer' = [answer EXCEPT ![c] = [key |-> k, order |-> MozcOrder]]
  /\ UNCHANGED asked

AskExplicit(c, k) ==
  /\ asked[c] = None
  /\ asked' = [asked EXCEPT ![c] = k]
  /\ UNCHANGED answer

Reply(c) ==
  /\ asked[c] # None
  /\ \E order \in {asked[c], Failed} :
        answer' = [answer EXCEPT ![c] = [key |-> asked[c], order |-> order]]
  /\ asked' = [asked EXCEPT ![c] = None]

Next ==
  \E c \in Callers :
     \/ \E k \in Keys : AskPrefetch(c, k) \/ AskExplicit(c, k)
     \/ Reply(c)

Spec == Init /\ [][Next]_vars

\* Every explicit request is answered.
LiveSpec == Spec /\ \A c \in Callers : WF_vars(Reply(c))
=============================================================================
