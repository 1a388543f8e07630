-------------------------- MODULE LoadingIndicator --------------------------
(***************************************************************************)
(* The pill that a server shows while it converts                          *)
(* (src/ranker/loading_ui.py): the server's thread posts messages to a     *)
(* window that a thread of its own owns.  The server waits two seconds for *)
(* the window and goes on without it; a window that comes later takes part *)
(* from the next call on.  Positions are pixels of the primary screen.     *)
(***************************************************************************)
EXTENDS Integers, Sequences

CONSTANTS
  Screen,           \* [w, h] of the primary screen
  Carets,           \* where the caret's foot may be on the screen, or NoCaret
  NoCaret,
  Cursors,          \* where the mouse may be
  MaxCalls          \* bound: inferences

Width == 128
Height == 30

\* Any real screen; a foreground window and the mouse may lie beside it.
ASSUME ScreenAssumption ==
  /\ Screen.w \in Nat /\ Screen.h \in Nat
  /\ Screen.w >= Width + 24 /\ Screen.h >= Height + 60
  /\ \A p \in (Carets \ {NoCaret}) \cup Cursors : p.x \in Int /\ p.y \in Int

VARIABLES
  server,           \* what the server's thread does
  pump,             \* what the window's thread does
  hwnd,             \* the attribute is set
  window,           \* "none", "hidden" or "shown"
  pos,
  posted,           \* the window's queue
  calls

pillVars == <<server, pump, hwnd, window, pos, posted, calls>>

PillInit ==
  /\ server = "new"
  /\ pump = "none"
  /\ hwnd = FALSE
  /\ window = "none"
  /\ pos = [x |-> -1000, y |-> -1000]
  /\ posted = <<>>
  /\ calls = 0

-----------------------------------------------------------------------------
(* Where the pill goes.                                                      *)

\* Seeded bug: the left and upper margins forgotten.
ClampAbove(v, low, high) == IF v < high THEN v ELSE high

\* min and max of loading_ui.py:126-127.
Clamp(v, low, high) ==
  LET m == IF v < high THEN v ELSE high IN IF m > low THEN m ELSE low

Corner == [x |-> Screen.w - Width - 24, y |-> Screen.h - Height - 60]

Fits(p) == p.x \in 0 .. Screen.w - Width /\ p.y \in 0 .. Screen.h - Height

NextToCursor(p) == [x |-> Clamp(p.x + 16, 10, Screen.w - Width - 10),
                    y |-> Clamp(p.y + 16, 10, Screen.h - Height - 10)]

\* Below the caret, or else at the mouse; in the corner when there is no
\* foreground window or a call fails.
Targets ==
  LET below == {[x |-> c.x, y |-> c.y + 6] : c \in Carets \ {NoCaret}}
  IN  {Corner} \cup {p \in below : Fits(p)}
        \cup (IF NoCaret \in Carets \/ \E p \in below : ~Fits(p)
              THEN {NextToCursor(c) : c \in Cursors} ELSE {})

-----------------------------------------------------------------------------
(* The server's thread.                                                      *)

\* start() spawns the thread and waits for it, two seconds at most.
Start ==
  /\ server = "new"
  /\ server' = "starting"
  /\ pump' = "begins"
  /\ UNCHANGED <<hwnd, window, pos, posted, calls>>

Started ==
  /\ server = "starting"
  /\ server' = "waits"
  /\ UNCHANGED <<pump, hwnd, window, pos, posted, calls>>

Post(message) == posted' = IF hwnd THEN Append(posted, message) ELSE posted

\* The context manager active() around the inference.
Enter ==
  /\ server = "waits"
  /\ calls < MaxCalls
  /\ server' = "infers"
  /\ Post("show")
  /\ calls' = calls + 1
  /\ UNCHANGED <<pump, hwnd, window, pos>>

\* Seeded bug: nothing to hide while the pill is not on the screen.
LeaveWhenShown ==
  /\ server = "infers"
  /\ server' \in {"waits", "failed"}
  /\ IF window = "shown" THEN Post("hide") ELSE UNCHANGED posted
  /\ UNCHANGED <<pump, hwnd, window, pos, calls>>

\* hide() is called whether the inference returns or raises.
Leave ==
  /\ server = "infers"
  /\ server' \in {"waits", "failed"}
  /\ Post("hide")
  /\ UNCHANGED <<pump, hwnd, window, pos, calls>>

\* The pipe cannot be created, or an exception left the inference: stop() posts
\* the last message and waits one second for the thread.
Stop ==
  /\ server \in {"waits", "failed"}
  /\ server' = "stopping"
  /\ Post("quit")
  /\ UNCHANGED <<pump, hwnd, window, pos, calls>>

Joined ==
  /\ server = "stopping"
  /\ server' = "stopped"
  /\ hwnd' = FALSE
  /\ UNCHANGED <<pump, window, pos, posted, calls>>

\* The end of the process ends its threads and windows.
Exit ==
  /\ server = "stopped"
  /\ server' = "gone"
  /\ pump' = "gone"
  /\ window' = "none"
  /\ posted' = <<>>
  /\ UNCHANGED <<hwnd, pos, calls>>

-----------------------------------------------------------------------------
(* The window's thread.                                                      *)

\* Either call may fail; the thread then ends and lets the server go on.
Create ==
  /\ pump = "begins"
  /\ \/ /\ pump' = "pumps" /\ window' = "hidden" /\ hwnd' = TRUE
     \/ /\ pump' = "gone" /\ UNCHANGED <<window, hwnd>>
  /\ UNCHANGED <<server, pos, posted, calls>>

Take(message) ==
  /\ pump = "pumps"
  /\ posted # <<>>
  /\ Head(posted) = message
  /\ posted' = Tail(posted)

Show ==
  /\ Take("show")
  /\ window' = "shown"
  /\ pos' \in Targets
  /\ UNCHANGED <<server, pump, hwnd, calls>>

Hide ==
  /\ Take("hide")
  /\ window' = "hidden"
  /\ UNCHANGED <<server, pump, hwnd, pos, calls>>

\* The quit message destroys the window, which ends the loop.
Quit ==
  /\ Take("quit")
  /\ window' = "none"
  /\ hwnd' = FALSE
  /\ pump' = "gone"
  /\ UNCHANGED <<server, pos, calls>>

ServerStep == Start \/ Started \/ Enter \/ Leave \/ Stop \/ Joined \/ Exit

PumpStep == Create \/ Show \/ Hide \/ Quit

PillNext == ServerStep \/ PumpStep

PillSpec == PillInit /\ [][PillNext]_pillVars

\* Both threads keep running, and every inference ends.
Fairness ==
  /\ WF_pillVars(PumpStep)
  /\ WF_pillVars(Started \/ Leave \/ (server = "failed" /\ Stop) \/ Joined \/ Exit)

-----------------------------------------------------------------------------
(* Properties.                                                               *)

\* However late the window comes, and whether inferences return or raise, a pill
\* on the screen is taken off it again (loading_ui.py:3-5, 326-335).
PillIsHidden == (window = "shown") ~> (window # "shown")

\* Wherever caret and mouse are, on the primary screen or on another, the whole
\* pill is on the primary screen (loading_ui.py:81-134).
PillOnScreen == window = "shown" => Fits(pos)
=============================================================================
