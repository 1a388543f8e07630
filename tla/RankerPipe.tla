------------------------------ MODULE RankerPipe ------------------------------
(***************************************************************************)
(* The ranker process and its clients: the request loop of                 *)
(* ranker/ranker.py over the single instance of a named pipe, the C++      *)
(* client of the Mozc rewriter (ai_ranker_client.cc), the Python client    *)
(* (client/windows_pipe.py) with its wrapper safe_rank                     *)
(* (client/fallback.py), and programs that open the pipe on their own.     *)
(*                                                                         *)
(* A call that blocks or that another process can see ends an action.      *)
(* Time is not kept: a deadline may pass whenever its owner waits.  The    *)
(* text of requests and answers is abstracted to what the two validators   *)
(* look at; candidates are named by their rank in the request.             *)
(***************************************************************************)
EXTENDS Naturals, Sequences, FiniteSets, Functions

CONSTANTS
  Servers,      \* ranker processes that may run for the same pipe name
  Mozc,         \* requests of the C++ client that may exist at one time
  Harness,      \* calls of safe_rank(rank_once)
  Strangers,    \* programs that write a line of their own and read nothing
  Requests,     \* requests a client may send, see Request
  Lines,        \* lines a stranger may send, see BadLine
  Size,         \* candidates of a request
  Parts,        \* pipe writes a request takes, at most
  MaxRequests,  \* bound: requests of one client
  Fallback,     \* Mozc's order, kept because the request failed
  None

Clients == Mozc \cup Harness

Users == Clients \cup Strangers

\* What validate_request lets through: the trigger, whether there is any text
\* around the reading, and the number of pipe writes of its line.
Request ==
  [form : {"request"}, trigger : {"explicit", "interactive", "prefetch"},
   context : BOOLEAN, parts : 1..Parts]

\* A line that is no JSON or that validate_request refuses; JSON but no object.
BadLine == [form : {"broken", "array"}]

MozcOrder == [i \in 1..Size |-> i]

\* Orders of the candidates that validate_response lets through.
Orders == {o \in [1..Size -> 1..Size] : IsInjective(o)}

ASSUME PipeAssumption ==
  /\ Size \in Nat \ {0} /\ Parts \in Nat \ {0} /\ MaxRequests \in Nat
  /\ Requests \subseteq Request /\ Lines \subseteq BadLine
  /\ Mozc \cap Harness = {} /\ Clients \cap Strangers = {}
  /\ None \notin Servers \cup Users \cup Request \cup BadLine
  /\ None \notin 1..MaxRequests
  /\ Fallback \notin [id : Users \X Nat, order : Orders]

VARIABLES
  srv,      \* each server: where it is, the line it has read, its answer
  pipe,     \* the pipe's instance: owner, connected user, data both ways
  stats,    \* RuntimeStatus.data of each server
  given,    \* history: answers each server has produced in its life
  usr,      \* each user of the pipe: where it is, its request
  result    \* how each client's last request ended

vars == <<srv, pipe, stats, given, usr, result>>
-----------------------------------------------------------------------------
(* The pipe *)

NoInstance == [owner |-> None, peer |-> None, gone |-> FALSE, in |-> None, out |-> None]

Connected(u) == pipe.peer = u /\ ~pipe.gone

\* A client can open the only instance from its creation on, even before the
\* server is in ConnectNamedPipe.
Free == pipe.owner # None /\ pipe.peer = None

\* A user closes its handle; what it has written can still be read.
Hangup(u) == pipe' = IF Connected(u) THEN [pipe EXCEPT !.gone = TRUE] ELSE pipe
-----------------------------------------------------------------------------
(* The server *)

Off == [at |-> "off", line |-> None, answer |-> None]

NoStats == [requests |-> 0, ime |-> 0, reordered |-> 0, top |-> 0]

Init ==
  /\ srv = [s \in Servers |-> Off]
  /\ pipe = NoInstance
  /\ stats = [s \in Servers |-> NoStats]
  /\ given = [s \in Servers |-> 0]
  /\ usr = [u \in Users |-> [at |-> "idle", n |-> 0, req |-> None, sent |-> 0, awaited |-> FALSE]]
  /\ result = [c \in Clients |-> None]

Goto(s, at) == srv' = [srv EXCEPT ![s].at = at]

\* main: the process starts and its backend is loaded.  A process whose backend
\* cannot be loaded ends before it has touched the pipe.
Start(s) ==
  /\ srv[s].at = "off"
  /\ Goto(s, "create")
  /\ stats' = [stats EXCEPT ![s] = NoStats]
  /\ given' = [given EXCEPT ![s] = 0]
  /\ UNCHANGED <<pipe, usr, result>>

\* CreateNamedPipeW: only one instance of the name may exist.
Create(s) ==
  /\ srv[s].at = "create"
  /\ IF pipe.owner = None
     THEN Goto(s, "connect") /\ pipe' = [NoInstance EXCEPT !.owner = s]
     ELSE srv' = [srv EXCEPT ![s] = Off] /\ UNCHANGED pipe
  /\ UNCHANGED <<stats, given, usr, result>>

\* ConnectNamedPipe: it waits for a client.  For one that came before the call
\* it returns 0, and ctypes.get_last_error() is not ERROR_PIPE_CONNECTED, as
\* functions of ctypes.windll do not keep the error: the instance is closed.
ConnectLeaky(s) ==
  /\ srv[s].at = "connect"
  /\ Goto(s, IF pipe.peer = None THEN "listen" ELSE "create")
  /\ UNCHANGED <<pipe, stats, given, usr, result>>
Connect(s) ==
  /\ srv[s].at = "connect"
  /\ IF pipe.peer = None
     THEN Goto(s, "listen") /\ UNCHANGED pipe
     ELSE Goto(s, "create") /\ pipe' = NoInstance
  /\ UNCHANGED <<stats, given, usr, result>>

Accept(s) ==
  /\ srv[s].at = "listen"
  /\ pipe.peer # None
  /\ Goto(s, "read")
  /\ UNCHANGED <<pipe, stats, given, usr, result>>

\* ReadFile until a line is complete.
Read(s) ==
  /\ srv[s].at = "read"
  /\ pipe.in # None
  /\ pipe' = [pipe EXCEPT !.in = None]
  /\ srv' = IF pipe.in.last
            THEN [srv EXCEPT ![s] = [@ EXCEPT !.at = "rank", !.line = pipe.in.line]]
            ELSE srv
  /\ UNCHANGED <<stats, given, usr, result>>

\* ReadFile fails: the client has gone and left no complete line.
ReadStuck(s) == FALSE
ReadFails(s) ==
  /\ srv[s].at = "read"
  /\ pipe.in = None
  /\ pipe.gone
  /\ Goto(s, "close")
  /\ UNCHANGED <<pipe, stats, given, usr, result>>

\* process_line: nothing for a line that is no request; Mozc's order for an
\* interactive request without context; otherwise what the model says, if it
\* does not raise and validate_response lets it pass.
ProcessLine(line) ==
  CASE line.req.form # "request" -> {None}
    [] line.req.trigger = "interactive" /\ ~line.req.context -> {MozcOrder}
    [] OTHER -> Orders \cup {None}

Rank(s) ==
  /\ srv[s].at = "rank"
  /\ srv[s].line.req.form # "array"
  /\ \E order \in ProcessLine(srv[s].line) :
        IF order = None
        THEN Goto(s, "close") /\ UNCHANGED <<given, pipe>>
        ELSE LET answer == [id |-> srv[s].line.id, order |-> order]
             IN  /\ srv' = [srv EXCEPT ![s] = [@ EXCEPT !.at = "flush", !.answer = answer]]
                 /\ given' = [given EXCEPT ![s] = @ + 1]
                 /\ pipe' = IF pipe.gone THEN pipe ELSE [pipe EXCEPT !.out = answer]
  /\ UNCHANGED <<stats, usr, result>>

\* A line that is JSON but no object: observed.get raises outside the try, and
\* the process ends.
RankArray(s) ==
  /\ srv[s].at = "rank"
  /\ srv[s].line.req.form = "array"
  /\ srv' = [srv EXCEPT ![s] = Off]
  /\ pipe' = NoInstance
  /\ UNCHANGED <<stats, given, usr, result>>

\* summarize_reorder and the counters of RuntimeStatus.
CountUnordered(counts, answer) ==
  LET ime == IF answer.id[1] \in Mozc THEN 1 ELSE 0
      top == IF answer.order[1] # 1 THEN 1 ELSE 0
  IN  [requests  |-> counts.requests + 1,
       ime       |-> counts.ime + ime,
       reordered |-> counts.reordered + ime * (IF answer.order # MozcOrder THEN 1 ELSE 0),
       top       |-> counts.top + top]
Count(counts, answer) ==
  LET ime == IF answer.id[1] \in Mozc THEN 1 ELSE 0
      changed == IF answer.order # MozcOrder THEN 1 ELSE 0
      top == IF answer.order[1] # 1 THEN 1 ELSE 0
  IN  [requests  |-> counts.requests + 1,
       ime       |-> counts.ime + ime,
       reordered |-> counts.reordered + ime * changed,
       top       |-> counts.top + ime * top]

\* FlushFileBuffers returns when the client has read the answer or has gone.
\* WriteFile's result is not looked at: the answer is counted in any case.
Flush(s) ==
  /\ srv[s].at = "flush"
  /\ pipe.out = None \/ pipe.gone
  /\ Goto(s, "close")
  /\ stats' = [stats EXCEPT ![s] = Count(@, srv[s].answer)]
  /\ UNCHANGED <<pipe, given, usr, result>>

\* DisconnectNamedPipe and CloseHandle.
Close(s) ==
  /\ srv[s].at = "close"
  /\ srv' = [srv EXCEPT ![s] = [Off EXCEPT !.at = "create"]]
  /\ pipe' = NoInstance
  /\ UNCHANGED <<stats, given, usr, result>>

\* The process ends from outside (the tray terminates it, the user signs out).
Kill(s) ==
  /\ srv[s].at # "off"
  /\ srv' = [srv EXCEPT ![s] = Off]
  /\ pipe' = IF pipe.owner = s THEN NoInstance ELSE pipe
  /\ UNCHANGED <<stats, given, usr, result>>
-----------------------------------------------------------------------------
(* The clients *)

Line(u) == [id |-> <<u, usr[u].n>>, req |-> usr[u].req]

\* Client::Request after its checks; safe_rank's thread.
Ask(c) ==
  /\ usr[c].at = "idle"
  /\ usr[c].n < MaxRequests
  /\ \E req \in Requests :
        usr' = [usr EXCEPT ![c] = [at |-> "find", n |-> @.n + 1, req |-> req,
                                   sent |-> 0, awaited |-> TRUE]]
  /\ result' = [result EXCEPT ![c] = None]
  /\ UNCHANGED <<srv, pipe, stats, given>>

\* WaitNamedPipeW has found an instance that no client has opened.
Find(u) ==
  /\ usr[u].at = "find"
  /\ Free
  /\ usr' = [usr EXCEPT ![u].at = "open"]
  /\ UNCHANGED <<srv, pipe, stats, given, result>>

\* CreateFileW: another client may have been faster, or the server.
Open(u) ==
  /\ usr[u].at = "open"
  /\ usr' = [usr EXCEPT ![u].at = IF Free THEN "write" ELSE "find"]
  /\ pipe' = IF Free THEN [pipe EXCEPT !.peer = u] ELSE pipe
  /\ UNCHANGED <<srv, stats, given, result>>

LastPart(u) == u \in Strangers \/ usr[u].sent + 1 = usr[u].req.parts

\* WriteFile as far as the pipe's buffer has room.
Write(u) ==
  /\ usr[u].at = "write"
  /\ Connected(u)
  /\ pipe.in = None
  /\ pipe' = [pipe EXCEPT !.in = [line |-> Line(u), last |-> LastPart(u)]]
  /\ usr' = [usr EXCEPT ![u].sent = @ + 1,
                        ![u].at = IF LastPart(u) THEN "read" ELSE @]
  /\ UNCHANGED <<srv, stats, given, result>>

\* The request ends and its handle is closed; if nobody waits for it any more,
\* its result is dropped.
EndLate(c, answer) ==
  /\ usr' = [usr EXCEPT ![c] = [at |-> "idle", n |-> @.n, req |-> None,
                                sent |-> 0, awaited |-> FALSE]]
  /\ result' = [result EXCEPT ![c] = [id |-> usr[c].n, answer |-> answer]]
  /\ Hangup(c)
  /\ UNCHANGED <<srv, stats, given>>
End(c, answer) ==
  /\ usr' = [usr EXCEPT ![c] = [at |-> "idle", n |-> @.n, req |-> None,
                                sent |-> 0, awaited |-> FALSE]]
  /\ result' = IF usr[c].awaited
               THEN [result EXCEPT ![c] = [id |-> usr[c].n, answer |-> answer]]
               ELSE result
  /\ Hangup(c)
  /\ UNCHANGED <<srv, stats, given>>

\* ReadFile has a line; ParseResponse (validate_response) compares its id.
Receive(c) ==
  /\ usr[c].at = "read"
  /\ Connected(c) /\ pipe.out # None
  /\ End(c, IF pipe.out.id = <<c, usr[c].n>> THEN pipe.out ELSE Fallback)

\* The server has closed the pipe or has ended.  rank_once sees it only when
\* it writes: it reads after PeekNamedPipe has shown bytes.
Broken(c) ==
  /\ usr[c].at \in {"write"} \cup (IF c \in Mozc THEN {"read"} ELSE {})
  /\ ~Connected(c)
  /\ End(c, Fallback)

\* The deadline of the request passes: it is looked at before each search for
\* the pipe and while bytes are awaited.  rank_once has none while it writes.
GiveUpConnected(c) ==
  /\ usr[c].at \in {"read"} \cup (IF c \in Mozc THEN {"write"} ELSE {})
  /\ End(c, Fallback)
GiveUp(c) ==
  /\ usr[c].at \in {"find", "read"} \cup (IF c \in Mozc THEN {"write"} ELSE {})
  /\ End(c, Fallback)

\* The deadline of safe_rank passes: it returns, its thread goes on.
SafeTimeout(c) ==
  /\ c \in Harness
  /\ usr[c].awaited
  /\ usr' = [usr EXCEPT ![c].awaited = FALSE]
  /\ result' = [result EXCEPT ![c] = [id |-> usr[c].n, answer |-> Fallback]]
  /\ UNCHANGED <<srv, pipe, stats, given>>

\* A stranger looks for the pipe with a line of its own, or leaves, whether it
\* has written the line or not.
Come(u) ==
  /\ usr[u].at = "idle"
  /\ usr[u].n < MaxRequests
  /\ \E line \in Lines :
        usr' = [usr EXCEPT ![u].at = "find", ![u].n = @ + 1, ![u].req = line]
  /\ UNCHANGED <<srv, pipe, stats, given, result>>

Go(u) ==
  /\ usr[u].at # "idle"
  /\ usr' = [usr EXCEPT ![u] = [@ EXCEPT !.at = "idle", !.req = None, !.sent = 0]]
  /\ Hangup(u)
  /\ UNCHANGED <<srv, stats, given, result>>
-----------------------------------------------------------------------------
ServerStep(s) ==
  \/ Create(s) \/ Connect(s) \/ Accept(s) \/ Read(s) \/ ReadFails(s)
  \/ Rank(s) \/ RankArray(s) \/ Flush(s) \/ Close(s)

Reaches(u) == Find(u) \/ Open(u) \/ Write(u)

ClientStep(c) ==
  Reaches(c) \/ Receive(c) \/ Broken(c) \/ GiveUp(c) \/ SafeTimeout(c)

Next ==
  \/ \E s \in Servers : Start(s) \/ ServerStep(s) \/ Kill(s)
  \/ \E c \in Clients : Ask(c) \/ ClientStep(c)
  \/ \E u \in Strangers : Come(u) \/ Reaches(u) \/ Go(u)

\* A server that can go on does, and a request's threads do.  A deadline that
\* has passed stays so: every later look at it ends the request (SF).
\* Nothing makes a stranger write or leave, nor a server start or end.
Fairness ==
  /\ \A s \in Servers : WF_vars(ServerStep(s))
  /\ \A c \in Clients : WF_vars(Open(c)) /\ WF_vars(Write(c)) /\ WF_vars(Receive(c))
                        /\ WF_vars(Broken(c)) /\ SF_vars(GiveUp(c)) /\ WF_vars(SafeTimeout(c))

Spec == Init /\ [][Next]_vars /\ Fairness
-----------------------------------------------------------------------------
(* Properties *)

\* A server has the instance exactly while it serves with it: no path through
\* the loop leaks the handle, which would end the server at the next create.
OwnsInstance ==
  \A s \in Servers :
     pipe.owner = s <=> srv[s].at \in {"connect", "listen", "read", "rank", "flush", "close"}

\* The counters of the status file: every answer is counted once, and a change
\* of the top is a change of the order of a request that came from Mozc.
CountersAgree ==
  \A s \in Servers :
     /\ srv[s].at # "off" => stats[s].requests = given[s] - (IF srv[s].at = "flush" THEN 1 ELSE 0)
     /\ stats[s].top <= stats[s].reordered
     /\ stats[s].reordered <= stats[s].ime
     /\ stats[s].ime <= stats[s].requests

\* A request ends once, with an order that was computed for it or with Mozc's
\* order, never with the answer to another request, and an answer that comes
\* after safe_rank has returned changes nothing.
Service ==
  INSTANCE RequestService WITH
    Ids <- 1..MaxRequests,
    asked <- [c \in Clients |-> IF usr[c].awaited THEN usr[c].n ELSE None],
    result <- result
ImplementsRequests == Service!Spec

\* Every request ends, although servers end, strangers keep the pipe and
\* answers are late; and so does the thread behind it.
RequestsEnd == \A c \in Clients : usr[c].at # "idle" ~> usr[c].at = "idle"

\* The server waits for a client again and again while it runs, unless a
\* stranger keeps its connection for ever.
ServerComesBack ==
  \A s \in Servers :
     \/ []<>(srv[s].at \in {"listen", "off"})
     \/ <>[](\E u \in Strangers : Connected(u))

\* A client that has connected to the pipe has its request read: the server
\* treats ERROR_PIPE_CONNECTED as a connection (ranker.py:398).
EarlyClientIsServed ==
  [][\A s \in Servers, c \in Clients :
        srv[s].at = "connect" /\ srv'[s].at = "create" => ~Connected(c)]_vars
=============================================================================
