---------------------------- MODULE RequestService ----------------------------
(***************************************************************************)
(* What a rerank request promises to the code that makes it, whatever      *)
(* happens to the pipe and the ranker: it ends with an order of its own    *)
(* candidates, computed for this very request, or with Mozc's order.       *)
(***************************************************************************)
CONSTANTS Clients, Ids, Orders, Fallback, None

VARIABLES
  asked,    \* the request each client waits for, or None
  result    \* how the last request of each client ended, or None

vars == <<asked, result>>

Init ==
  /\ asked = [c \in Clients |-> None]
  /\ result = [c \in Clients |-> None]

Ask(c) ==
  /\ asked[c] = None
  /\ \E i \in Ids : asked' = [asked EXCEPT ![c] = i]
  /\ result' = [result EXCEPT ![c] = None]

Answer(c) ==
  /\ asked[c] # None
  /\ \E o \in {Fallback} \cup [id : {<<c, asked[c]>>}, order : Orders] :
        result' = [result EXCEPT ![c] = [id |-> asked[c], answer |-> o]]
  /\ asked' = [asked EXCEPT ![c] = None]

Next == \E c \in Clients : Ask(c) \/ Answer(c)

Spec == Init /\ [][Next]_vars
=============================================================================
