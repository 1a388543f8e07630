-------------------------- MODULE RankerPipeProofs --------------------------
(***************************************************************************)
(* Proofs about the pipe of RankerPipe for any number of servers, clients  *)
(* and strangers, any requests and any number of candidates.               *)
(***************************************************************************)
EXTENDS RankerPipe, TLAPS

Message == [id : Users \X Nat, req : Request \cup BadLine]

Reply == [id : Users \X Nat, order : Orders]

Serving == {"connect", "listen", "read", "rank", "flush", "close"}

ServerTypes ==
  /\ srv \in [Servers -> [at : Serving \cup {"off", "create"},
                          line : Message \cup {None}, answer : Reply \cup {None}]]
  /\ \A s \in Servers : /\ srv[s].at = "rank" => srv[s].line \in Message
                        /\ srv[s].at = "flush" => srv[s].answer \in Reply

PipeTypes ==
  pipe \in [owner : Servers \cup {None}, peer : Users \cup {None}, gone : BOOLEAN,
            in : [line : Message, last : BOOLEAN] \cup {None}, out : Reply \cup {None}]

\* Who is not idle has something to send; who is idle waits for nothing.
UserTypes ==
  /\ usr \in [Users -> [at : {"idle", "find", "open", "write", "read"}, n : Nat,
                        req : Request \cup BadLine \cup {None}, sent : Nat, awaited : BOOLEAN]]
  /\ \A u \in Users : usr[u].at # "idle" => usr[u].req \in Request \cup BadLine
  /\ \A u \in Users : usr[u].awaited => usr[u].at # "idle" /\ usr[u].n \in 1..MaxRequests
  /\ \A u \in Strangers : ~usr[u].awaited

CounterTypes ==
  /\ stats \in [Servers -> [requests : Nat, ime : Nat, reordered : Nat, top : Nat]]
  /\ given \in [Servers -> Nat]

TypeInv == ServerTypes /\ PipeTypes /\ UserTypes /\ CounterTypes

-----------------------------------------------------------------------------
(* Types.                                                                    *)

\* The assumption on the special value, in the form the steps need it.
LEMMA NoneIsSpecial ==
  /\ None \notin Servers /\ None \notin Users /\ None \notin 1..MaxRequests
  /\ None \notin Request \cup BadLine
BY PipeAssumption

\* Clients and strangers are different users.
LEMMA Strange == Strangers \subseteq Users /\ Clients \subseteq Users /\ Clients \cap Strangers = {}
BY PipeAssumption DEF Users

\* Mozc's order is one of the orders.
LEMMA MozcOrderIsOrder == MozcOrder \in Orders
BY DEF MozcOrder, Orders, IsInjective

\* What is written to the pipe is a message.
LEMMA LineIsMessage ==
  ASSUME UserTypes, NEW u \in Users, usr[u].at # "idle"
  PROVE  Line(u) \in Message
BY DEF UserTypes, Line, Message

\* Closing a handle keeps the pipe's type and its owner.
LEMMA HangupTypes ==
  ASSUME PipeTypes, NEW u, Hangup(u)
  PROVE  PipeTypes' /\ pipe'.owner = pipe.owner /\ pipe'.out = pipe.out
BY DEF PipeTypes, Hangup

\* A pipe without an instance is well typed.
LEMMA NoInstanceTypes == ASSUME pipe' = NoInstance PROVE PipeTypes'
BY DEF NoInstance, PipeTypes

\* The types hold at the beginning.
LEMMA InitTypes == ASSUME Init PROVE TypeInv
<1>1. ServerTypes
  BY DEF Init, ServerTypes, Off, Serving
<1>2. PipeTypes
  BY DEF Init, PipeTypes, NoInstance
<1>3. UserTypes
  BY Strange DEF Init, UserTypes
<1>4. CounterTypes
  BY DEF Init, CounterTypes, NoStats
<1> QED BY <1>1, <1>2, <1>3, <1>4 DEF TypeInv

\* Every step of a server keeps the types of the servers.
LEMMA ServerKeepsServers ==
  ASSUME TypeInv, NEW s \in Servers, Start(s) \/ ServerStep(s) \/ Kill(s)
  PROVE  ServerTypes'
<1> USE DEF TypeInv, ServerTypes, Serving
<1>1. CASE Start(s)
  BY <1>1 DEF Start, Goto
<1>2. CASE Create(s)
  BY <1>2 DEF Create, Goto, Off
<1>3. CASE Connect(s)
  BY <1>3 DEF Connect, Goto
<1>4. CASE Accept(s)
  BY <1>4 DEF Accept, Goto
<1>5. CASE Read(s)
  <2>1. pipe.in # None /\ pipe.in.line \in Message
    BY <1>5 DEF Read, PipeTypes
  <2> QED BY <1>5, <2>1 DEF Read
<1>6. CASE ReadFails(s)
  BY <1>6 DEF ReadFails, Goto
<1>7. CASE Rank(s)
  <2>1. PICK order \in ProcessLine(srv[s].line) :
          IF order = None
          THEN Goto(s, "close")
          ELSE srv' = [srv EXCEPT ![s] = [@ EXCEPT !.at = "flush",
                                                   !.answer = [id |-> srv[s].line.id, order |-> order]]]
    BY <1>7 DEF Rank
  <2>2. srv[s].line \in Message
    BY <1>7 DEF Rank
  <2>3. order = None \/ order \in Orders
    BY MozcOrderIsOrder DEF ProcessLine
  <2>4. CASE order = None
    BY <2>1, <2>4 DEF Goto
  <2>5. CASE order # None
    <3>1. [id |-> srv[s].line.id, order |-> order] \in Reply
      BY <2>2, <2>3, <2>5 DEF Message, Reply
    <3>2. srv' = [srv EXCEPT ![s] = [@ EXCEPT !.at = "flush",
                                              !.answer = [id |-> srv[s].line.id, order |-> order]]]
      BY <2>1, <2>5
    <3>3. srv' \in [Servers -> [at : Serving \cup {"off", "create"},
                                line : Message \cup {None}, answer : Reply \cup {None}]]
      BY <3>1, <3>2
    <3>4. srv'[s].at = "flush" /\ srv'[s].answer \in Reply
      BY <3>1, <3>2
    <3>5. \A r \in Servers : r # s => srv'[r] = srv[r]
      BY <3>2
    <3> QED BY <3>3, <3>4, <3>5
  <2> QED BY <2>4, <2>5
<1>8. CASE RankArray(s)
  BY <1>8 DEF RankArray, Off
<1>9. CASE Flush(s)
  BY <1>9 DEF Flush, Goto
<1>10. CASE Close(s)
  BY <1>10 DEF Close, Off
<1>11. CASE Kill(s)
  BY <1>11 DEF Kill, Off
<1> QED BY <1>1, <1>2, <1>3, <1>4, <1>5, <1>6, <1>7, <1>8, <1>9, <1>10, <1>11 DEF ServerStep

\* Every step of a server keeps the type of the pipe.
LEMMA ServerKeepsPipe ==
  ASSUME TypeInv, NEW s \in Servers, Start(s) \/ ServerStep(s) \/ Kill(s)
  PROVE  PipeTypes'
<1>0. PipeTypes
  BY DEF TypeInv
<1>1. CASE UNCHANGED pipe
  BY <1>0, <1>1 DEF PipeTypes
<1>2. CASE pipe' = NoInstance
  BY <1>2, NoInstanceTypes
<1>3. CASE pipe' = [NoInstance EXCEPT !.owner = s]
  BY <1>3 DEF NoInstance, PipeTypes
<1>4. CASE pipe' = [pipe EXCEPT !.in = None]
  BY <1>0, <1>4 DEF PipeTypes
<1>5. CASE Rank(s)
  <2>1. PICK order \in ProcessLine(srv[s].line) :
          IF order = None
          THEN UNCHANGED pipe
          ELSE pipe' = IF pipe.gone THEN pipe
                       ELSE [pipe EXCEPT !.out = [id |-> srv[s].line.id, order |-> order]]
    BY <1>5 DEF Rank
  <2>2. srv[s].line \in Message
    BY <1>5 DEF Rank, TypeInv, ServerTypes
  <2>3. order = None \/ order \in Orders
    BY MozcOrderIsOrder DEF ProcessLine
  <2>4. order # None => [id |-> srv[s].line.id, order |-> order] \in Reply
    BY <2>2, <2>3 DEF Message, Reply
  <2> QED BY <1>0, <2>1, <2>4 DEF PipeTypes
<1> QED
  BY <1>1, <1>2, <1>3, <1>4, <1>5
  DEF ServerStep, Start, Create, Connect, Accept, Read, ReadFails, RankArray, Flush, Close, Kill

\* What is counted is counted in natural numbers.
LEMMA CountTypes ==
  ASSUME NEW c \in [requests : Nat, ime : Nat, reordered : Nat, top : Nat], NEW a \in Reply
  PROVE  LET ime == IF a.id[1] \in Mozc THEN 1 ELSE 0
             changed == IF a.order # MozcOrder THEN 1 ELSE 0
             top == IF a.order[1] # 1 THEN 1 ELSE 0
         IN  /\ Count(c, a) \in [requests : Nat, ime : Nat, reordered : Nat, top : Nat]
             /\ Count(c, a).requests = c.requests + 1
             /\ Count(c, a).ime = c.ime + ime
             /\ Count(c, a).reordered = c.reordered + ime * changed
             /\ Count(c, a).top = c.top + ime * top
<1> DEFINE ime == IF a.id[1] \in Mozc THEN 1 ELSE 0
           changed == IF a.order # MozcOrder THEN 1 ELSE 0
           top == IF a.order[1] # 1 THEN 1 ELSE 0
<1>1. Count(c, a) = [requests |-> c.requests + 1, ime |-> c.ime + ime,
                     reordered |-> c.reordered + ime * changed, top |-> c.top + ime * top]
  BY DEF Count
<1>2. ime \in {0, 1} /\ changed \in {0, 1} /\ top \in {0, 1}
  OBVIOUS
<1>3. ime * changed \in Nat /\ ime * top \in Nat
  BY <1>2
<1>4. c.requests \in Nat /\ c.ime \in Nat /\ c.reordered \in Nat /\ c.top \in Nat
  OBVIOUS
<1> HIDE DEF ime, changed, top
<1>5. /\ c.requests + 1 \in Nat /\ c.ime + ime \in Nat
      /\ c.reordered + ime * changed \in Nat /\ c.top + ime * top \in Nat
  BY <1>2, <1>3, <1>4
<1>6. /\ Count(c, a) \in [requests : Nat, ime : Nat, reordered : Nat, top : Nat]
      /\ Count(c, a).requests = c.requests + 1
      /\ Count(c, a).ime = c.ime + ime
      /\ Count(c, a).reordered = c.reordered + ime * changed
      /\ Count(c, a).top = c.top + ime * top
  BY <1>1, <1>5
<1> QED BY <1>6 DEF ime, changed, top

\* Every step of a server keeps the types of the counters.
LEMMA ServerKeepsCounters ==
  ASSUME TypeInv, NEW s \in Servers, Start(s) \/ ServerStep(s) \/ Kill(s)
  PROVE  CounterTypes'
<1>0. CounterTypes
  BY DEF TypeInv
<1>1. CASE Start(s)
  BY <1>0, <1>1 DEF Start, CounterTypes, NoStats
<1>2. CASE Rank(s)
  BY <1>0, <1>2 DEF Rank, CounterTypes
<1>3. CASE Flush(s)
  <2>1. Count(stats[s], srv[s].answer) \in [requests : Nat, ime : Nat, reordered : Nat, top : Nat]
    BY <1>0, <1>3, CountTypes DEF Flush, TypeInv, ServerTypes, CounterTypes
  <2> QED BY <1>0, <1>3, <2>1 DEF Flush, CounterTypes
<1> QED
  BY <1>0, <1>1, <1>2, <1>3
  DEF ServerStep, Create, Connect, Accept, Read, ReadFails, RankArray, Close, Kill, CounterTypes

\* Every step of a user keeps the types.
LEMMA UserKeepsPipe ==
  ASSUME TypeInv, NEW u \in Users, Find(u) \/ Open(u) \/ Write(u) \/ Hangup(u) \/ UNCHANGED pipe
  PROVE  PipeTypes' /\ pipe'.owner = pipe.owner
<1>0. PipeTypes /\ UserTypes
  BY DEF TypeInv
<1>1. CASE UNCHANGED pipe
  BY <1>0, <1>1 DEF PipeTypes
<1>2. CASE Open(u)
  BY <1>0, <1>2 DEF Open, PipeTypes
<1>3. CASE Write(u)
  <2>1. Line(u) \in Message
    BY <1>0, <1>3, LineIsMessage DEF Write
  <2>2. LastPart(u) \in BOOLEAN
    BY DEF LastPart
  <2>3. [line |-> Line(u), last |-> LastPart(u)] \in [line : Message, last : BOOLEAN]
    BY <2>1, <2>2
  <2> QED BY <1>0, <1>3, <2>3 DEF Write, PipeTypes
<1>4. CASE Hangup(u)
  BY <1>0, <1>4, HangupTypes
<1>5. CASE Find(u)
  BY <1>1, <1>5 DEF Find
<1> QED BY <1>1, <1>2, <1>3, <1>4, <1>5

UserRecord == [at : {"idle", "find", "open", "write", "read"}, n : Nat,
               req : Request \cup BadLine \cup {None}, sent : Nat, awaited : BOOLEAN]

\* One user goes on to a record that is in order; the others stay as they are.
LEMMA OneUser ==
  ASSUME UserTypes, NEW u \in Users, NEW r \in UserRecord,
         usr' = [usr EXCEPT ![u] = r],
         r.at # "idle" => r.req \in Request \cup BadLine,
         r.awaited => r.at # "idle" /\ r.n \in 1..MaxRequests,
         u \in Strangers => ~r.awaited
  PROVE  UserTypes'
<1>1. usr'[u] = r /\ (\A v \in Users : v # u => usr'[v] = usr[v])
  BY DEF UserTypes
<1>2. usr' \in [Users -> UserRecord]
  BY DEF UserTypes, UserRecord
<1>3. \A v \in Strangers : v \in Users
  BY Strange
<1> QED BY <1>1, <1>2, <1>3 DEF UserTypes, UserRecord

\* The end of a request keeps the types of the users.
LEMMA EndKeepsUsers ==
  ASSUME UserTypes, NEW c \in Clients, NEW a, End(c, a)
  PROVE  UserTypes'
<1> DEFINE r == [at |-> "idle", n |-> usr[c].n, req |-> None, sent |-> 0, awaited |-> FALSE]
<1>1. c \in Users /\ usr[c].n \in Nat
  BY DEF UserTypes, Users
<1>2. usr' = [usr EXCEPT ![c] = r] /\ ~r.awaited /\ r.at = "idle"
  BY DEF End
<1>3. r \in UserRecord
  BY <1>1 DEF UserRecord
<1> HIDE DEF r
<1> QED BY <1>1, <1>2, <1>3, OneUser

\* Looking for the pipe, opening it and writing keeps the types of the users.
LEMMA ReachesKeepsUsers ==
  ASSUME UserTypes, NEW u \in Users, Reaches(u)
  PROVE  UserTypes'
<1>0. usr[u] \in UserRecord
  BY DEF UserTypes, UserRecord
<1>1. ASSUME NEW a \in {"find", "open", "write", "read"}, NEW n \in Nat, usr[u].at # "idle",
             usr' = [usr EXCEPT ![u] = [usr[u] EXCEPT !.at = a, !.sent = n]]
      PROVE  UserTypes'
  <2> DEFINE r == [usr[u] EXCEPT !.at = a, !.sent = n]
  <2>1. /\ r \in UserRecord /\ r.at = a /\ r.n = usr[u].n
        /\ r.req = usr[u].req /\ r.awaited = usr[u].awaited
    BY <1>0 DEF UserRecord
  <2>2. usr' = [usr EXCEPT ![u] = r]
    BY <1>1
  <2>3. /\ usr[u].req \in Request \cup BadLine
        /\ usr[u].awaited => usr[u].n \in 1..MaxRequests
        /\ u \in Strangers => ~usr[u].awaited
    BY <1>1 DEF UserTypes
  <2> HIDE DEF r
  <2> QED BY <2>1, <2>2, <2>3, OneUser
<1>2. CASE Find(u)
  <2>1. usr' = [usr EXCEPT ![u] = [usr[u] EXCEPT !.at = "open", !.sent = usr[u].sent]]
    BY <1>0, <1>2 DEF Find, UserTypes, UserRecord
  <2> QED BY <1>0, <1>1, <1>2, <2>1 DEF Find, UserRecord
<1>3. CASE Open(u)
  <2> DEFINE a == IF Free THEN "write" ELSE "find"
  <2>1. usr' = [usr EXCEPT ![u] = [usr[u] EXCEPT !.at = a, !.sent = usr[u].sent]]
    BY <1>0, <1>3 DEF Open, UserTypes, UserRecord
  <2> QED BY <1>0, <1>1, <1>3, <2>1 DEF Open, UserRecord
<1>4. CASE Write(u)
  <2> DEFINE a == IF LastPart(u) THEN "read" ELSE "write"
  <2>1. usr' = [usr EXCEPT ![u] = [usr[u] EXCEPT !.at = a, !.sent = usr[u].sent + 1]]
    BY <1>0, <1>4 DEF Write, UserTypes, UserRecord
  <2>2. a \in {"find", "open", "write", "read"} /\ usr[u].sent + 1 \in Nat /\ usr[u].at # "idle"
    BY <1>0, <1>4 DEF Write, UserRecord
  <2> QED BY <1>1, <2>1, <2>2
<1> QED BY <1>2, <1>3, <1>4 DEF Reaches

\* So does every step of a client.
LEMMA ClientKeepsUsers ==
  ASSUME UserTypes, NEW c \in Clients, Ask(c) \/ ClientStep(c)
  PROVE  UserTypes'
<1>0. c \in Users /\ c \notin Strangers /\ usr[c] \in UserRecord
  BY Strange DEF UserTypes, UserRecord
<1>1. CASE Ask(c)
  <2>1. PICK req \in Requests :
          usr' = [usr EXCEPT ![c] = [at |-> "find", n |-> usr[c].n + 1, req |-> req,
                                     sent |-> 0, awaited |-> TRUE]]
    BY <1>1 DEF Ask
  <2> DEFINE r == [at |-> "find", n |-> usr[c].n + 1, req |-> req, sent |-> 0, awaited |-> TRUE]
  <2>2. usr[c].n \in Nat /\ MaxRequests \in Nat /\ usr[c].n < MaxRequests
    BY <1>0, <1>1, PipeAssumption DEF Ask, UserRecord
  <2>3. usr[c].n + 1 \in 1..MaxRequests /\ req \in Request
    BY <2>2, PipeAssumption
  <2>4. r \in UserRecord /\ r.at = "find" /\ r.req \in Request /\ r.n \in 1..MaxRequests
    BY <2>2, <2>3 DEF UserRecord
  <2>5. usr' = [usr EXCEPT ![c] = r]
    BY <2>1
  <2> HIDE DEF r
  <2> QED BY <1>0, <2>4, <2>5, OneUser
<1>2. CASE Reaches(c)
  BY <1>0, <1>2, ReachesKeepsUsers
<1>3. CASE Receive(c) \/ Broken(c) \/ GiveUp(c)
  BY <1>3, EndKeepsUsers DEF Receive, Broken, GiveUp
<1>4. CASE SafeTimeout(c)
  <2> DEFINE r == [usr[c] EXCEPT !.awaited = FALSE]
  <2>1. usr' = [usr EXCEPT ![c] = r]
    BY <1>0, <1>4 DEF SafeTimeout, UserTypes, UserRecord
  <2>2. r \in UserRecord /\ ~r.awaited /\ r.at = usr[c].at /\ r.req = usr[c].req
    BY <1>0 DEF UserRecord
  <2>3. usr[c].at # "idle" => usr[c].req \in Request \cup BadLine
    BY <1>0 DEF UserTypes
  <2> HIDE DEF r
  <2> QED BY <1>0, <2>1, <2>2, <2>3, OneUser
<1> QED BY <1>1, <1>2, <1>3, <1>4 DEF ClientStep

\* So does every step of a stranger.
LEMMA StrangerKeepsUsers ==
  ASSUME UserTypes, NEW u \in Strangers, Come(u) \/ Reaches(u) \/ Go(u)
  PROVE  UserTypes'
<1>0. u \in Users /\ usr[u] \in UserRecord /\ ~usr[u].awaited
  BY Strange DEF UserTypes, UserRecord
<1>1. CASE Come(u)
  <2>1. PICK line \in Lines :
          usr' = [usr EXCEPT ![u].at = "find", ![u].n = @ + 1, ![u].req = line]
    BY <1>1 DEF Come
  <2> DEFINE r == [at |-> "find", n |-> usr[u].n + 1, req |-> line,
                   sent |-> usr[u].sent, awaited |-> usr[u].awaited]
  <2>2. line \in BadLine
    BY PipeAssumption
  <2>3. r \in UserRecord /\ r.req \in BadLine /\ ~r.awaited
    BY <1>0, <2>2 DEF UserRecord
  <2>4. usr' = [usr EXCEPT ![u] = r]
    BY <1>0, <2>1 DEF UserTypes, UserRecord
  <2> HIDE DEF r
  <2> QED BY <1>0, <2>3, <2>4, OneUser
<1>2. CASE Reaches(u)
  BY <1>0, <1>2, ReachesKeepsUsers
<1>3. CASE Go(u)
  <2> DEFINE r == [usr[u] EXCEPT !.at = "idle", !.req = None, !.sent = 0]
  <2>1. usr' = [usr EXCEPT ![u] = r]
    BY <1>0, <1>3 DEF Go, UserTypes, UserRecord
  <2>2. r \in UserRecord /\ r.at = "idle" /\ ~r.awaited
    BY <1>0 DEF UserRecord
  <2> HIDE DEF r
  <2> QED BY <1>0, <2>1, <2>2, OneUser
<1> QED BY <1>1, <1>2, <1>3

\* Every step keeps all types.
LEMMA TypeInvIsInductive ==
  ASSUME TypeInv, [Next]_vars
  PROVE  TypeInv'
<1>1. CASE \E s \in Servers : Start(s) \/ ServerStep(s) \/ Kill(s)
  <2>1. PICK s \in Servers : Start(s) \/ ServerStep(s) \/ Kill(s)
    BY <1>1
  <2>2. UNCHANGED usr
    BY <2>1 DEF Start, ServerStep, Kill, Create, Connect, Accept, Read, ReadFails, Rank, RankArray, Flush, Close
  <2>3. UserTypes'
    BY <2>2 DEF TypeInv, UserTypes
  <2> QED BY <2>1, <2>3, ServerKeepsServers, ServerKeepsPipe, ServerKeepsCounters DEF TypeInv
<1>2. ASSUME NEW u \in Users, UNCHANGED <<srv, stats, given>>, UserTypes',
             Find(u) \/ Open(u) \/ Write(u) \/ Hangup(u) \/ UNCHANGED pipe
      PROVE  TypeInv'
  <2>1. ServerTypes' /\ CounterTypes'
    BY <1>2 DEF TypeInv, ServerTypes, CounterTypes
  <2> QED BY <1>2, <2>1, UserKeepsPipe DEF TypeInv
<1>3. CASE \E c \in Clients : Ask(c) \/ ClientStep(c)
  <2>1. PICK c \in Clients : Ask(c) \/ ClientStep(c)
    BY <1>3
  <2>2. UserTypes' /\ c \in Users
    BY <2>1, ClientKeepsUsers, Strange DEF TypeInv
  <2>3. /\ UNCHANGED <<srv, stats, given>>
        /\ Find(c) \/ Open(c) \/ Write(c) \/ Hangup(c) \/ UNCHANGED pipe
    BY <2>1 DEF Ask, ClientStep, Reaches, Find, Open, Write, Receive, Broken, GiveUp, SafeTimeout, End
  <2> QED BY <1>2, <2>2, <2>3
<1>4. CASE \E u \in Strangers : Come(u) \/ Reaches(u) \/ Go(u)
  <2>1. PICK u \in Strangers : Come(u) \/ Reaches(u) \/ Go(u)
    BY <1>4
  <2>2. UserTypes' /\ u \in Users
    BY <2>1, StrangerKeepsUsers, Strange DEF TypeInv
  <2>3. /\ UNCHANGED <<srv, stats, given>>
        /\ Find(u) \/ Open(u) \/ Write(u) \/ Hangup(u) \/ UNCHANGED pipe
    BY <2>1 DEF Come, Reaches, Find, Open, Write, Go
  <2> QED BY <1>2, <2>2, <2>3
<1>5. CASE UNCHANGED vars
  BY <1>5 DEF vars, TypeInv, ServerTypes, PipeTypes, UserTypes, CounterTypes
<1> QED BY <1>1, <1>3, <1>4, <1>5 DEF Next

\* Every reachable state of the pipe, its servers and their clients is well typed.
THEOREM PipeTypeCorrect == Spec => []TypeInv
<1>1. Init => TypeInv
  BY InitTypes
<1>2. TypeInv /\ [Next]_vars => TypeInv'
  BY TypeInvIsInductive
<1> QED BY <1>1, <1>2, PTL DEF Spec

-----------------------------------------------------------------------------
(* One server has the instance.                                              *)

\* A server takes the instance when it creates it and gives it back wherever it
\* leaves the loop or ends; users do not change the owner.
LEMMA OwnsInstanceIsInductive ==
  ASSUME TypeInv, OwnsInstance, [Next]_vars
  PROVE  OwnsInstance'
<1> USE NoneIsSpecial DEF OwnsInstance
<1>0. ServerTypes /\ PipeTypes
  BY DEF TypeInv
<1>1. ASSUME NEW s \in Servers, NEW a, srv'[s].at = a,
             \A r \in Servers : r # s => srv'[r] = srv[r],
             \/ pipe'.owner = pipe.owner /\ (a \in Serving <=> srv[s].at \in Serving)
             \/ pipe'.owner = None /\ (pipe.owner = s \/ pipe.owner = None) /\ a \notin Serving
             \/ pipe'.owner = s /\ (pipe.owner = s \/ pipe.owner = None) /\ a \in Serving
      PROVE  OwnsInstance'
  BY <1>1 DEF Serving
<1>2. ASSUME NEW s \in Servers, Start(s) \/ ServerStep(s) \/ Kill(s) PROVE OwnsInstance'
  <2>1. CASE Start(s)
    BY <1>0, <1>1, <2>1 DEF Start, Goto, ServerTypes, Serving
  <2>2. CASE Create(s)
    BY <1>0, <1>1, <2>2 DEF Create, Goto, ServerTypes, Serving, NoInstance, Off
  <2>3. CASE Connect(s)
    BY <1>0, <1>1, <2>3 DEF Connect, Goto, ServerTypes, Serving, NoInstance
  <2>4. CASE Accept(s)
    BY <1>0, <1>1, <2>4 DEF Accept, Goto, ServerTypes, Serving
  <2>5. CASE Read(s)
    <3>1. pipe'.owner = pipe.owner
      BY <1>0, <2>5 DEF Read, PipeTypes
    <3> QED BY <1>0, <1>1, <2>5, <3>1 DEF Read, ServerTypes, Serving
  <2>6. CASE ReadFails(s)
    BY <1>0, <1>1, <2>6 DEF ReadFails, Goto, ServerTypes, Serving
  <2>7. CASE Rank(s)
    <3>1. pipe'.owner = pipe.owner
      BY <1>0, <2>7 DEF Rank, PipeTypes
    <3>2. /\ srv[s].at = "rank" /\ srv'[s].at \in {"close", "flush"}
          /\ \A r \in Servers : r # s => srv'[r] = srv[r]
      <4>1. srv[s].at = "rank" /\ srv \in [Servers -> [at : Serving \cup {"off", "create"},
                          line : Message \cup {None}, answer : Reply \cup {None}]]
        BY <1>0, <2>7 DEF Rank, ServerTypes
      <4>2. PICK order :
              IF order = None
              THEN Goto(s, "close")
              ELSE srv' = [srv EXCEPT ![s] = [@ EXCEPT !.at = "flush",
                                                       !.answer = [id |-> srv[s].line.id, order |-> order]]]
        BY <2>7 DEF Rank
      <4>3. CASE order = None
        BY <4>1, <4>2, <4>3 DEF Goto
      <4>4. CASE order # None
        <5>1. srv' = [srv EXCEPT ![s] = [@ EXCEPT !.at = "flush",
                                                  !.answer = [id |-> srv[s].line.id, order |-> order]]]
          BY <4>2, <4>4
        <5> QED BY <4>1, <5>1
      <4> QED BY <4>3, <4>4
    <3> QED BY <1>1, <3>1, <3>2 DEF Serving
  <2>8. CASE RankArray(s)
    BY <1>0, <1>1, <2>8 DEF RankArray, ServerTypes, Serving, NoInstance, Off
  <2>9. CASE Flush(s)
    BY <1>0, <1>1, <2>9 DEF Flush, Goto, ServerTypes, Serving
  <2>10. CASE Close(s)
    BY <1>0, <1>1, <2>10 DEF Close, ServerTypes, Serving, NoInstance, Off
  <2>11. CASE Kill(s)
    BY <1>0, <1>1, <2>11 DEF Kill, ServerTypes, Serving, NoInstance, Off
  <2> QED BY <1>2, <2>1, <2>2, <2>3, <2>4, <2>5, <2>6, <2>7, <2>8, <2>9, <2>10, <2>11 DEF ServerStep
<1>3. ASSUME NEW u \in Users, UNCHANGED srv, Find(u) \/ Open(u) \/ Write(u) \/ Hangup(u) \/ UNCHANGED pipe
      PROVE  OwnsInstance'
  BY <1>3, UserKeepsPipe
<1>4. ASSUME NEW c \in Clients, Ask(c) \/ ClientStep(c) PROVE OwnsInstance'
  BY <1>3, <1>4, Strange
  DEF Ask, ClientStep, Reaches, Find, Open, Write, Receive, Broken, GiveUp, SafeTimeout, End
<1>5. ASSUME NEW u \in Strangers, Come(u) \/ Reaches(u) \/ Go(u) PROVE OwnsInstance'
  BY <1>3, <1>5, Strange DEF Come, Reaches, Find, Open, Write, Go
<1>6. CASE UNCHANGED vars
  BY <1>6 DEF vars
<1> QED BY <1>2, <1>4, <1>5, <1>6 DEF Next

\* No path through the request loop leaks the instance or serves without it, however
\* servers, clients and strangers interleave and end (ranker.py:388-475).
THEOREM InstanceIsOwned == Spec => []OwnsInstance
<1>1. Init => OwnsInstance
  BY NoneIsSpecial DEF Init, OwnsInstance, NoInstance, Off
<1>2. TypeInv /\ OwnsInstance /\ [Next]_vars => OwnsInstance'
  BY OwnsInstanceIsInductive
<1> QED BY <1>1, <1>2, PipeTypeCorrect, PTL DEF Spec

-----------------------------------------------------------------------------
(* The counters of the status file.                                          *)

CountersOf(s) ==
  /\ srv[s].at # "off" => stats[s].requests = given[s] - (IF srv[s].at = "flush" THEN 1 ELSE 0)
  /\ stats[s].top <= stats[s].reordered
  /\ stats[s].reordered <= stats[s].ime
  /\ stats[s].ime <= stats[s].requests

\* One answer counted keeps the order of the counters: a changed top is a changed
\* order.
LEMMA CountKeepsOrder ==
  ASSUME NEW c \in [requests : Nat, ime : Nat, reordered : Nat, top : Nat], NEW a \in Reply,
         c.top <= c.reordered, c.reordered <= c.ime, c.ime <= c.requests
  PROVE  /\ Count(c, a).requests = c.requests + 1
         /\ Count(c, a).top <= Count(c, a).reordered
         /\ Count(c, a).reordered <= Count(c, a).ime
         /\ Count(c, a).ime <= Count(c, a).requests
<1> DEFINE ime == IF a.id[1] \in Mozc THEN 1 ELSE 0
           changed == IF a.order # MozcOrder THEN 1 ELSE 0
           top == IF a.order[1] # 1 THEN 1 ELSE 0
<1>1. /\ Count(c, a).requests = c.requests + 1
      /\ Count(c, a).ime = c.ime + ime
      /\ Count(c, a).reordered = c.reordered + ime * changed
      /\ Count(c, a).top = c.top + ime * top
  BY CountTypes
<1>2. MozcOrder[1] = 1
  BY PipeAssumption DEF MozcOrder
<1>3. a.order[1] # 1 => a.order # MozcOrder
  BY <1>2
<1>4. ime \in {0, 1} /\ changed \in {0, 1} /\ top \in {0, 1} /\ top <= changed
  BY <1>3
<1>5. c.requests \in Nat /\ c.ime \in Nat /\ c.reordered \in Nat /\ c.top \in Nat
  OBVIOUS
<1> HIDE DEF ime, changed, top
<1>6. ime * top <= ime * changed /\ ime * changed <= ime /\ ime * top \in Nat /\ ime * changed \in Nat
  BY <1>4
<1> QED BY <1>1, <1>4, <1>5, <1>6

\* Only Start, Rank and Flush change a counter, each that of its own server.
LEMMA CountersAgreeIsInductive ==
  ASSUME TypeInv, CountersAgree, [Next]_vars
  PROVE  CountersAgree'
<1>0. /\ ServerTypes /\ CounterTypes
      /\ \A s \in Servers : CountersOf(s)
  BY DEF TypeInv, CountersAgree, CountersOf
<1>1. ASSUME \A s \in Servers : CountersOf(s)' PROVE CountersAgree'
  BY <1>1 DEF CountersAgree, CountersOf
<1>2. ASSUME NEW s \in Servers,
             \A r \in Servers : r # s => srv'[r] = srv[r] /\ stats'[r] = stats[r] /\ given'[r] = given[r],
             CountersOf(s)'
      PROVE  CountersAgree'
  <2>1. ASSUME NEW r \in Servers, r # s PROVE CountersOf(r)'
    BY <1>0, <1>2, <2>1 DEF CountersOf
  <2> QED BY <1>1, <1>2, <2>1
<1>3. ASSUME NEW s \in Servers,
             \A r \in Servers : r # s => srv'[r] = srv[r],
             UNCHANGED <<stats, given>>,
             \/ srv'[s].at = "off"
             \/ srv[s].at # "off" /\ srv[s].at # "flush" /\ srv'[s].at # "flush"
      PROVE  CountersAgree'
  <2>1. CountersOf(s)'
    BY <1>0, <1>3 DEF CountersOf
  <2> QED BY <1>2, <1>3, <2>1
<1>4. ASSUME NEW s \in Servers, Start(s) \/ ServerStep(s) \/ Kill(s) PROVE CountersAgree'
  <2>1. CASE Start(s)
    <3>1. CountersOf(s)'
      BY <1>0, <2>1 DEF Start, Goto, ServerTypes, CounterTypes, CountersOf, NoStats
    <3> QED BY <1>0, <1>2, <2>1, <3>1 DEF Start, Goto, ServerTypes, CounterTypes
  <2>2. CASE Create(s)
    BY <1>0, <1>3, <2>2 DEF Create, Goto, ServerTypes, Off
  <2>3. CASE Connect(s)
    BY <1>0, <1>3, <2>3 DEF Connect, Goto, ServerTypes
  <2>4. CASE Accept(s)
    BY <1>0, <1>3, <2>4 DEF Accept, Goto, ServerTypes
  <2>5. CASE Read(s)
    BY <1>0, <1>3, <2>5 DEF Read, ServerTypes
  <2>6. CASE ReadFails(s)
    BY <1>0, <1>3, <2>6 DEF ReadFails, Goto, ServerTypes
  <2>7. CASE Rank(s)
    <3>1. PICK order :
            IF order = None
            THEN Goto(s, "close") /\ UNCHANGED given
            ELSE /\ srv' = [srv EXCEPT ![s] = [@ EXCEPT !.at = "flush",
                                                        !.answer = [id |-> srv[s].line.id, order |-> order]]]
                 /\ given' = [given EXCEPT ![s] = @ + 1]
      BY <2>7 DEF Rank
    <3>2. srv[s].at = "rank" /\ UNCHANGED stats
      BY <2>7 DEF Rank
    <3>3. CASE order = None
      BY <1>0, <1>3, <3>1, <3>2, <3>3 DEF Goto, ServerTypes
    <3>4. CASE order # None
      <4>1. srv' = [srv EXCEPT ![s] = [@ EXCEPT !.at = "flush",
                                                !.answer = [id |-> srv[s].line.id, order |-> order]]]
        BY <3>1, <3>4
      <4>2. srv'[s].at = "flush" /\ \A r \in Servers : r # s => srv'[r] = srv[r]
        BY <1>0, <4>1 DEF ServerTypes
      <4>3. given'[s] = given[s] + 1 /\ \A r \in Servers : r # s => given'[r] = given[r]
        BY <1>0, <3>1, <3>4 DEF CounterTypes
      <4>4. CountersOf(s)'
        BY <1>0, <3>2, <4>2, <4>3 DEF CounterTypes, CountersOf
      <4> QED BY <1>2, <3>2, <4>2, <4>3, <4>4
    <3> QED BY <3>3, <3>4
  <2>8. CASE RankArray(s)
    BY <1>0, <1>3, <2>8 DEF RankArray, ServerTypes, Off
  <2>9. CASE Flush(s)
    <3>1. /\ srv[s].at = "flush" /\ srv[s].answer \in Reply /\ UNCHANGED given
          /\ srv'[s].at = "close" /\ \A r \in Servers : r # s => srv'[r] = srv[r]
      BY <1>0, <2>9 DEF Flush, Goto, ServerTypes
    <3>2. /\ stats'[s] = Count(stats[s], srv[s].answer)
          /\ \A r \in Servers : r # s => stats'[r] = stats[r]
      BY <1>0, <2>9 DEF Flush, CounterTypes
    <3>3. CountersOf(s)'
      <4>1. /\ stats[s] \in [requests : Nat, ime : Nat, reordered : Nat, top : Nat]
            /\ given[s] \in Nat /\ CountersOf(s)
        BY <1>0 DEF CounterTypes
      <4>2. /\ stats'[s].requests = stats[s].requests + 1
            /\ stats'[s].top <= stats'[s].reordered
            /\ stats'[s].reordered <= stats'[s].ime
            /\ stats'[s].ime <= stats'[s].requests
        BY <3>1, <3>2, <4>1, CountKeepsOrder DEF CountersOf
      <4> QED BY <3>1, <4>1, <4>2 DEF CountersOf
    <3> QED BY <1>2, <3>1, <3>2, <3>3
  <2>10. CASE Close(s)
    BY <1>0, <1>3, <2>10 DEF Close, ServerTypes, Off
  <2>11. CASE Kill(s)
    BY <1>0, <1>3, <2>11 DEF Kill, ServerTypes, Off
  <2> QED BY <1>4, <2>1, <2>2, <2>3, <2>4, <2>5, <2>6, <2>7, <2>8, <2>9, <2>10, <2>11 DEF ServerStep
<1>5. CASE UNCHANGED <<srv, stats, given>>
  BY <1>0, <1>1, <1>5 DEF CountersOf
<1>6. ASSUME NEW c \in Clients, Ask(c) \/ ClientStep(c) PROVE UNCHANGED <<srv, stats, given>>
  BY <1>6 DEF Ask, ClientStep, Reaches, Find, Open, Write, Receive, Broken, GiveUp, SafeTimeout, End
<1>7. ASSUME NEW u \in Strangers, Come(u) \/ Reaches(u) \/ Go(u) PROVE UNCHANGED <<srv, stats, given>>
  BY <1>7 DEF Come, Reaches, Find, Open, Write, Go
<1> QED BY <1>4, <1>5, <1>6, <1>7 DEF Next, vars

\* Every answer is counted once, and the counters of the status file stay ordered
\* (ranker.py:434-466).
THEOREM CountersHold == Spec => []CountersAgree
<1>1. Init => CountersAgree
  BY DEF Init, CountersAgree, NoStats, Off
<1>2. TypeInv /\ CountersAgree /\ [Next]_vars => CountersAgree'
  BY CountersAgreeIsInductive
<1> QED BY <1>1, <1>2, PipeTypeCorrect, PTL DEF Spec

-----------------------------------------------------------------------------
(* The service.                                                              *)

\* The request each client waits for, as the service sees it.
Asked == [c \in Clients |-> IF usr[c].awaited THEN usr[c].n ELSE None]

\* A request that ends is an answer of the service, or nothing if nobody waits.
LEMMA EndAnswers ==
  ASSUME TypeInv, NEW c \in Clients, NEW a, End(c, a),
         a \in {Fallback} \cup [id : {<<c, usr[c].n>>}, order : Orders]
  PROVE  Service!Answer(c) \/ UNCHANGED <<Asked, result>>
<1>0. c \in Users /\ UserTypes /\ Clients \subseteq Users
  BY Strange DEF TypeInv
<1>1. /\ usr'[c].awaited = FALSE
      /\ \A d \in Clients : d # c => usr'[d] = usr[d]
  BY <1>0 DEF UserTypes, End
<1>2. CASE usr[c].awaited
  <2>1. Asked[c] = usr[c].n /\ Asked[c] # None
    BY <1>0, <1>2, NoneIsSpecial DEF Asked, UserTypes
  <2>2. Asked' = [Asked EXCEPT ![c] = None]
    BY <1>1 DEF Asked
  <2>3. result' = [result EXCEPT ![c] = [id |-> Asked[c], answer |-> a]]
    BY <1>2, <2>1 DEF End
  <2> QED BY <2>1, <2>2, <2>3 DEF Service!Answer, Asked
<1>3. CASE ~usr[c].awaited
  <2>1. Asked' = Asked
    BY <1>1, <1>3 DEF Asked
  <2> QED BY <1>3, <2>1 DEF End
<1> QED BY <1>2, <1>3

\* Every step of the pipe is one of the service or none.
LEMMA StepsImplement ==
  ASSUME TypeInv, [Next]_vars
  PROVE  Service!Next \/ UNCHANGED <<Asked, result>>
<1>0. UserTypes /\ PipeTypes /\ Clients \subseteq Users
  BY Strange DEF TypeInv
<1>1. CASE UNCHANGED <<usr, result>>
  BY <1>1 DEF Asked
<1>2. ASSUME NEW s \in Servers, Start(s) \/ ServerStep(s) \/ Kill(s) PROVE UNCHANGED <<usr, result>>
  BY <1>2 DEF Start, ServerStep, Kill, Create, Connect, Accept, Read, ReadFails, Rank, RankArray, Flush, Close
<1>3. ASSUME NEW u \in Users, Reaches(u) PROVE UNCHANGED <<Asked, result>>
  <2>1. UNCHANGED result
    BY <1>3 DEF Reaches, Find, Open, Write
  <2>2. \A c \in Clients : usr'[c].awaited = usr[c].awaited /\ usr'[c].n = usr[c].n
    BY <1>0, <1>3 DEF Reaches, Find, Open, Write, UserTypes
  <2> QED BY <2>1, <2>2 DEF Asked
<1>4. ASSUME NEW u \in Strangers, Come(u) \/ Go(u) PROVE UNCHANGED <<Asked, result>>
  <2>1. UNCHANGED result
    BY <1>4 DEF Come, Go
  <2>2. \A c \in Clients : usr'[c] = usr[c]
    BY <1>0, <1>4, Strange DEF Come, Go, UserTypes
  <2> QED BY <2>1, <2>2 DEF Asked
<1>5. ASSUME NEW c \in Clients, Ask(c) PROVE Service!Ask(c)
  <2>1. /\ ~usr[c].awaited /\ usr[c].n \in Nat /\ usr[c].n < MaxRequests /\ MaxRequests \in Nat
        /\ usr'[c].awaited /\ usr'[c].n = usr[c].n + 1
        /\ \A d \in Clients : d # c => usr'[d] = usr[d]
    BY <1>0, <1>5, PipeAssumption DEF Ask, UserTypes
  <2>2. usr[c].n + 1 \in 1..MaxRequests
    BY <2>1
  <2>3. Asked[c] = None /\ Asked' = [Asked EXCEPT ![c] = usr[c].n + 1]
    BY <2>1 DEF Asked
  <2>4. result' = [result EXCEPT ![c] = None]
    BY <1>5 DEF Ask
  <2> QED BY <2>2, <2>3, <2>4 DEF Service!Ask, Asked
<1>6. ASSUME NEW c \in Clients, Receive(c) \/ Broken(c) \/ GiveUp(c)
      PROVE  Service!Answer(c) \/ UNCHANGED <<Asked, result>>
  <2>1. CASE Receive(c)
    <3>1. /\ pipe.out \in Reply
          /\ End(c, IF pipe.out.id = <<c, usr[c].n>> THEN pipe.out ELSE Fallback)
      BY <1>0, <2>1 DEF Receive, PipeTypes
    <3>2. (IF pipe.out.id = <<c, usr[c].n>> THEN pipe.out ELSE Fallback)
            \in {Fallback} \cup [id : {<<c, usr[c].n>>}, order : Orders]
      BY <3>1 DEF Reply
    <3> QED BY <3>1, <3>2, EndAnswers
  <2>2. CASE Broken(c) \/ GiveUp(c)
    BY <2>2, EndAnswers DEF Broken, GiveUp
  <2> QED BY <1>6, <2>1, <2>2
<1>7. ASSUME NEW c \in Clients, SafeTimeout(c) PROVE Service!Answer(c)
  <2>1. /\ usr[c].awaited /\ usr[c].n \in 1..MaxRequests /\ ~usr'[c].awaited
        /\ \A d \in Clients : d # c => usr'[d] = usr[d]
    BY <1>0, <1>7 DEF SafeTimeout, UserTypes
  <2>2. Asked[c] = usr[c].n /\ Asked[c] # None /\ Asked' = [Asked EXCEPT ![c] = None]
    BY <2>1, NoneIsSpecial DEF Asked
  <2>3. result' = [result EXCEPT ![c] = [id |-> Asked[c], answer |-> Fallback]]
    BY <1>7, <2>2 DEF SafeTimeout
  <2> QED BY <2>2, <2>3 DEF Service!Answer, Asked
<1>8. CASE UNCHANGED vars
  BY <1>1, <1>8 DEF vars
<1> QED
  BY <1>0, <1>1, <1>2, <1>3, <1>4, <1>5, <1>6, <1>7, <1>8, Strange DEF Next, ClientStep, Service!Next

\* A request ends once, with an order computed for this very request or with Mozc's
\* order, and nothing that comes late changes it (ai_ranker_client.cc:300-345,
\* windows_pipe.py, fallback.py:20-40).
THEOREM PipeImplementsRequests == Spec => ImplementsRequests
<1>1. Init => Service!Init
  BY Strange DEF Init, Service!Init
<1>2. TypeInv /\ [Next]_vars => [Service!Next]_(Service!vars)
  BY StepsImplement DEF Service!vars, Asked
<1> QED BY <1>1, <1>2, PipeTypeCorrect, PTL DEF Spec, ImplementsRequests, Service!Spec
=============================================================================
