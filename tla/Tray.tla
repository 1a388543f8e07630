-------------------------------- MODULE Tray --------------------------------
(***************************************************************************)
(* The notification-area controller ai_ime_tray.py: the icon's thread runs *)
(* the menu callbacks, a setup thread autostarts, a watcher polls the      *)
(* settings file, every start has a launch thread, and every server that   *)
(* came up has a monitor thread.  They share plain attributes; the tray    *)
(* has no lock.  A server is a separate process that reads the settings    *)
(* file when it starts and owns the only instance of the pipe.             *)
(*                                                                         *)
(* An action ends where the code can be interrupted with an effect: after  *)
(* a test of shared state, a wait, or a call that blocks.                  *)
(***************************************************************************)
EXTENDS Naturals

CONSTANTS
  Sessions,     \* what a run of the tray may start with, see TrayAssumption
  WindowsFail,  \* whether the settings window's process may fail to start
  Launches,     \* bound: starts whose threads or process exist at one time
  Settings,     \* values of settings_runtime_signature
  Ui, Setup, Watcher,   \* the threads besides launches and monitors
  Legacy,       \* a server started by an old autostart entry
  None

Threads == {Ui, Setup, Watcher} \cup Launches
Procs == Launches \cup {Legacy}

ASSUME TrayAssumption ==
  /\ Sessions \subseteq
       [autostart : BOOLEAN,   \* ai_autostart is set
        legacy    : BOOLEAN,   \* a legacy server runs
        saves     : Nat]       \* bound: how often other settings are saved
  /\ WindowsFail \in BOOLEAN
  /\ Settings # {}
  /\ None \notin Threads \cup Procs \cup Settings
  /\ Legacy \notin Launches
  /\ {Ui, Setup, Watcher} \cap Launches = {}
  /\ Ui # Setup /\ Ui # Watcher /\ Setup # Watcher

VARIABLES
  state,        \* self.state: what the icon shows
  serverProc,   \* self.server_proc: a launch (its process) or None
  sig,          \* self._settings_signature
  allowLegacy,  \* self.allow_legacy_ranker
  file,         \* the settings file, as its signature
  saves,        \* bound: how often other settings may still be saved in it
  pc,           \* where each thread is
  monitor,      \* monitor thread of each launch: where it is and its process
  proc,         \* server processes: their state and the settings they use
  running       \* the tray's process has not ended

settings == <<file, saves>>

vars == <<state, serverProc, sig, allowLegacy, settings, pc, monitor, proc, running>>
-----------------------------------------------------------------------------
NoMonitor == [at |-> "none", proc |-> None]

\* A process that has not been started, or has ended.
NoProcess == [st |-> "none", cfg |-> None]

\* The settings are interchangeable, and so is the one to start with.
Init ==
  /\ state = "off"
  /\ serverProc = None
  /\ file = CHOOSE s \in Settings : TRUE
  /\ sig = file
  /\ \E session \in Sessions :
        /\ saves = session.saves
        /\ allowLegacy \in {FALSE, session.legacy}
        /\ proc = [p \in Procs |->
                     [st  |-> IF p = Legacy /\ session.legacy THEN "serving" ELSE "none",
                      cfg |-> None]]
        /\ pc = [t \in Threads |->
                   CASE t = Watcher -> "watch"
                     [] t = Setup /\ session.autostart -> "start"
                     [] t \in Launches -> "free"
                     [] OTHER -> "idle"]
  /\ monitor = [l \in Launches |-> NoMonitor]
  /\ running = TRUE

Goto(t, at) == pc' = [pc EXCEPT ![t] = at]

\* The point a thread goes on from when a call it makes returns.
Home(t) ==
  CASE t = Watcher -> "watch" [] t = Setup -> "gone" [] OTHER -> "idle"

Alive(p) == proc[p] # NoProcess

Serving == {p \in Procs : proc[p].st = "serving"}

\* WaitNamedPipe succeeds only when a server waits for a client; a server that
\* is busy with one is not seen.
PipeReady(answer) == answer => Serving # {}
-----------------------------------------------------------------------------
(* The menu *)

\* toggle: nothing while loading, otherwise stop or start.
Toggle ==
  /\ pc[Ui] = "idle"
  /\ state # "loading"
  /\ Goto(Ui, IF state = "on" THEN "terminate" ELSE "start")
  /\ UNCHANGED <<state, serverProc, sig, allowLegacy, settings, monitor, proc, running>>

\* open_settings, show_onboarding: the window's process cannot be started.
WindowFails ==
  /\ WindowsFail
  /\ pc[Ui] = "idle"
  /\ state' = "error"
  /\ UNCHANGED <<serverProc, sig, allowLegacy, settings, pc, monitor, proc, running>>

\* quit_app: the watcher is told to stop (WatchSettings), the server is
\* terminated.
Quit ==
  /\ pc[Ui] = "idle"
  /\ Goto(Ui, "quit")
  /\ UNCHANGED <<state, serverProc, sig, allowLegacy, settings, monitor, proc, running>>

\* icon.stop(): the tray's process ends with all its threads.
Exit ==
  /\ pc[Ui] = "exit"
  /\ running' = FALSE
  /\ pc' = [t \in Threads |-> "gone"]
  /\ monitor' = [l \in Launches |-> NoMonitor]
  /\ UNCHANGED <<state, serverProc, sig, allowLegacy, settings, proc>>

\* The settings window, another process, saves other settings.
Save(s) ==
  /\ s # file
  /\ saves > 0
  /\ saves' = saves - 1
  /\ file' = s
  /\ UNCHANGED <<state, serverProc, sig, allowLegacy, pc, monitor, proc, running>>
-----------------------------------------------------------------------------
(* _terminate_owned_server, called from four places *)

\* Seeded bug: a launch that fails does not show the error.
AfterTerminateSilently(t) ==
  CASE pc[t] = "quit" -> "exit"
    [] t = Watcher -> "start"
    [] t \in Launches -> "free"
    [] OTHER -> "setoff"

\* Where a thread goes on when the server is gone.
AfterTerminate(t) ==
  CASE pc[t] = "quit" -> "exit"
    [] t = Watcher -> "start"
    [] t \in Launches -> "seterror"
    [] OTHER -> "setoff"

\* Take the process out of self.server_proc, terminate it and wait for it.
Terminate(t) ==
  /\ pc[t] \in {"terminate", "quit"}
  /\ serverProc' = None
  /\ proc' = IF serverProc # None /\ Alive(serverProc)
             THEN [proc EXCEPT ![serverProc] = NoProcess] ELSE proc
  /\ Goto(t, AfterTerminate(t))
  /\ UNCHANGED <<state, sig, allowLegacy, settings, monitor, running>>

\* _stop_server: OFF is shown once the server is gone.
SetOff ==
  /\ pc[Ui] = "setoff"
  /\ state' = "off"
  /\ Goto(Ui, "idle")
  /\ UNCHANGED <<serverProc, sig, allowLegacy, settings, monitor, proc, running>>
-----------------------------------------------------------------------------
(* _start_server, called by the menu, by setup and by the watcher *)

\* The pipe exists already: a migrated legacy server is adopted when it
\* answers a request, anything else is an error.
PipeTaken(t) ==
  /\ pc[t] = "start"
  /\ PipeReady(TRUE)
  /\ \/ /\ allowLegacy
        /\ allowLegacy' = FALSE
        /\ state' = "on"
     \/ /\ state' = "error"
        /\ UNCHANGED allowLegacy
  /\ Goto(t, Home(t))
  /\ UNCHANGED <<serverProc, sig, settings, monitor, proc, running>>

\* A launch of which no thread and no process is left: its name can be used
\* again.  Names are interchangeable; StartLaunch takes a certain one.
Unused(l) ==
  /\ pc[l] = "free"
  /\ monitor[l] = NoMonitor
  /\ ~Alive(l)
  /\ \A k \in Launches : monitor[k].proc # l

\* Otherwise show loading, read the settings and remember their signature, and
\* start the launch thread.
StartLaunch(t, l) ==
  /\ pc[t] = "start"
  /\ PipeReady(FALSE)
  /\ Unused(l)
  /\ l = CHOOSE k \in Launches : Unused(k)
  /\ state' = "loading"
  /\ sig' = file
  /\ pc' = [pc EXCEPT ![t] = Home(t), ![l] = "spawn"]
  /\ UNCHANGED <<serverProc, allowLegacy, settings, monitor, proc, running>>
-----------------------------------------------------------------------------
(* The launch thread *)

Spawn(l) ==
  /\ pc[l] = "spawn"
  /\ \/ /\ proc' = [proc EXCEPT ![l] = [st |-> "started", cfg |-> None]]
        /\ serverProc' = l
        /\ Goto(l, "poll")
     \/ /\ Goto(l, "terminate")
        /\ UNCHANGED <<proc, serverProc>>
  /\ UNCHANGED <<state, sig, allowLegacy, settings, monitor, running>>

\* A server answers the probe.
Ready(l) ==
  /\ pc[l] = "poll"
  /\ serverProc # None
  /\ Alive(serverProc)
  /\ PipeReady(TRUE)
  /\ Goto(l, "seton")
  /\ UNCHANGED <<state, serverProc, sig, allowLegacy, settings, monitor, proc, running>>

\* The process in self.server_proc has ended, the attribute is None, or the
\* 120 seconds are over.
LaunchFails(l) ==
  /\ pc[l] = "poll"
  /\ Goto(l, "terminate")
  /\ UNCHANGED <<state, serverProc, sig, allowLegacy, settings, monitor, proc, running>>

\* Seeded bug: ON without _monitor_server.
SetOnUnmonitored(l) ==
  /\ pc[l] = "seton"
  /\ state' = "on"
  /\ Goto(l, "free")
  /\ UNCHANGED <<serverProc, sig, allowLegacy, settings, monitor, proc, running>>

SetOn(l) ==
  /\ pc[l] = "seton"
  /\ state' = "on"
  /\ monitor' = [monitor EXCEPT ![l] = [at |-> "begin", proc |-> None]]
  /\ Goto(l, "free")
  /\ UNCHANGED <<serverProc, sig, allowLegacy, settings, proc, running>>

SetError(l) ==
  /\ pc[l] = "seterror"
  /\ state' = "error"
  /\ Goto(l, "free")
  /\ UNCHANGED <<serverProc, sig, allowLegacy, settings, monitor, proc, running>>
-----------------------------------------------------------------------------
(* The monitor thread *)

MonitorMove(l, at, p) == monitor' = [monitor EXCEPT ![l] = [at |-> at, proc |-> p]]

\* The new thread reads self.server_proc.
MonitorBegin(l) ==
  /\ monitor[l].at = "begin"
  /\ MonitorMove(l, IF serverProc = None THEN "none" ELSE "wait", serverProc)
  /\ UNCHANGED <<state, serverProc, sig, allowLegacy, settings, pc, proc, running>>

\* proc.wait() returns; the tray shows ON still or not.
MonitorWakes(l) ==
  /\ monitor[l].at = "wait"
  /\ ~Alive(monitor[l].proc)
  /\ IF state = "on" THEN MonitorMove(l, "report", monitor[l].proc)
                     ELSE MonitorMove(l, "none", None)
  /\ UNCHANGED <<state, serverProc, sig, allowLegacy, settings, pc, proc, running>>

\* "The AI ranker ended unexpectedly."
MonitorReports(l) ==
  /\ monitor[l].at = "report"
  /\ state' = "error"
  /\ MonitorMove(l, "none", None)
  /\ UNCHANGED <<serverProc, sig, allowLegacy, settings, pc, proc, running>>
-----------------------------------------------------------------------------
(* The settings watcher *)

\* Seeded bug: the new signature is remembered before the old one is compared.
WatchSettingsTooLate ==
  /\ pc[Watcher] = "watch"
  /\ pc[Ui] \notin {"quit", "exit"}
  /\ sig' = file
  /\ Goto(Watcher, "watch")
  /\ UNCHANGED <<state, serverProc, allowLegacy, settings, monitor, proc, running>>

\* Once a second load_settings: a changed signature is remembered; only a tray
\* that is ON restarts.
WatchSettings ==
  /\ pc[Watcher] = "watch"
  /\ pc[Ui] \notin {"quit", "exit"}
  /\ sig' = file
  /\ Goto(Watcher, IF sig # file /\ state = "on" THEN "restart" ELSE "watch")
  /\ UNCHANGED <<state, serverProc, allowLegacy, settings, monitor, proc, running>>

WatchRestart ==
  /\ pc[Watcher] = "restart"
  /\ state' = "loading"
  /\ Goto(Watcher, "terminate")
  /\ UNCHANGED <<serverProc, sig, allowLegacy, settings, monitor, proc, running>>
-----------------------------------------------------------------------------
(* Server processes (external): they read the settings once, load the model *)
(* and create the one instance of the pipe; they may end at any time.       *)

ReadSettings(p) ==
  /\ proc[p].st = "started"
  /\ proc' = [proc EXCEPT ![p] = [st |-> "loading", cfg |-> file]]
  /\ UNCHANGED <<state, serverProc, sig, allowLegacy, settings, pc, monitor, running>>

\* Two servers want the pipe: the one that creates its instance last ends.
Serve(p) ==
  /\ proc[p].st = "loading"
  /\ \/ /\ Serving = {}
        /\ proc' = [proc EXCEPT ![p].st = "serving"]
     \/ \E loser \in Serving \cup {p} :
           /\ Serving # {}
           /\ proc' = [q \in Procs |->
                         IF q = loser THEN NoProcess
                         ELSE IF q = p THEN [proc[q] EXCEPT !.st = "serving"]
                         ELSE proc[q]]
  /\ UNCHANGED <<state, serverProc, sig, allowLegacy, settings, pc, monitor, running>>

Ends(p) ==
  /\ Alive(p)
  /\ proc' = [proc EXCEPT ![p] = NoProcess]
  /\ UNCHANGED <<state, serverProc, sig, allowLegacy, settings, pc, monitor, running>>
-----------------------------------------------------------------------------
Start(t) == PipeTaken(t) \/ \E l \in Launches : StartLaunch(t, l)

UiStep == Terminate(Ui) \/ SetOff \/ Start(Ui) \/ Exit

SetupStep == Start(Setup)

WatcherStep ==
  WatchSettings \/ WatchRestart \/ Terminate(Watcher) \/ Start(Watcher)

LaunchStep(l) ==
  Spawn(l) \/ Ready(l) \/ LaunchFails(l) \/ Terminate(l) \/ SetOn(l) \/ SetError(l)

MonitorStep(l) == MonitorBegin(l) \/ MonitorWakes(l) \/ MonitorReports(l)

TrayStep ==
  /\ running
  /\ \/ Toggle \/ WindowFails \/ Quit
     \/ UiStep \/ SetupStep \/ WatcherStep
     \/ \E l \in Launches : LaunchStep(l) \/ MonitorStep(l)

\* After quit_app nothing of the tray is left to run.
Ended == ~running /\ UNCHANGED vars

Next ==
  \/ TrayStep \/ Ended
  \/ \E s \in Settings : Save(s)
  \/ \E p \in Procs : ReadSettings(p) \/ Serve(p) \/ Ends(p)

Spec == Init /\ [][Next]_vars

\* Threads run; a launch whose server keeps answering is not left polling
\* (every poll is bounded, and the deadline ends the last one).  Nothing makes
\* the user act, the settings change or a process end; a process that loads
\* goes on to serve or, when another has the pipe, to end.
Fairness ==
  /\ WF_vars(running /\ UiStep)
  /\ WF_vars(running /\ SetupStep)
  /\ WF_vars(running /\ WatcherStep)
  /\ \A l \in Launches :
        /\ WF_vars(running /\ LaunchStep(l))
        /\ WF_vars(running /\ MonitorStep(l))
        /\ WF_vars(ReadSettings(l) \/ Serve(l))

LiveSpec == Spec /\ Fairness
-----------------------------------------------------------------------------
\* A start ends, with ON, OFF or an error, whatever other starts, stops, saves
\* and ends of servers it meets: the icon does not stay in `loading`, in which
\* toggle() refuses every click.
LoadingEnds == state = "loading" ~> state # "loading" \/ ~running

\* The part of it that is no liveness: whatever the threads do at the same time,
\* while the icon shows `loading` a launch or the watcher's restart is under way that
\* will show something else (ai_ime_tray.py:176-229, 331-337).
LoadingIsTemporary ==
  state = "loading" /\ running =>
    pc[Watcher] \in {"terminate", "start"} \/ \E l \in Launches : pc[l] # "free"

\* While a start is under way nobody else starts or stops a server: the user
\* does not click on an icon that a late monitor has set to `error`, and no
\* stop, autostart or restart from before runs into it.
Undisturbed ==
  \A l \in Launches : pc[l] # "free" =>
    /\ \A k \in Launches \ {l} : pc[k] = "free"
    /\ \A t \in {Ui, Setup, Watcher} : pc[t] \notin {"start", "restart", "terminate"}

\* The monitor's promise: when the server of a tray that shows ON is gone, the
\* tray does not show ON for ever, after any number of starts, stops and restarts
\* by the user and the watcher.  An adopted legacy server has no monitor.
EndIsNoticed ==
  [](Undisturbed /\ ~Alive(Legacy)) =>
    ((state = "on" /\ \A l \in Launches : ~Alive(l))
       ~> (state # "on" \/ (\E l \in Launches : Alive(l)) \/ ~running))

\* The watcher's promise: a change of the settings that is seen while the tray is
\* ON gets to the server, unless the tray is switched off meanwhile or the restart
\* fails visibly.
ChangeReachesServer ==
  []Undisturbed =>
    ((state = "on" /\ sig # file)
       ~> \/ state = "on" /\ sig = file /\ \A l \in Launches : Alive(l) => proc[l].cfg = file
          \/ state \in {"off", "error"}
          \/ ~running \/ pc[Ui] \in {"quit", "exit"})

\* settings_ui.py:393, after a save: when the AI is ON it is restarted and the
\* settings take effect.
SavedSettingsTakeEffect ==
  \A s \in Settings :
     <>[](file = s /\ state = "on" /\ running)
       => []<>(\A l \in Launches : Alive(l) => proc[l].cfg = s)

\* docs/SYSTEM_REQUIREMENTS_JA.md:24: OFF uses no CPU or GPU memory of the model.
OffMeansStopped == state = "off" => \A l \in Launches : ~Alive(l)
=============================================================================
