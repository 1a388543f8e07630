----------------------------- MODULE TrayProofs -----------------------------
(***************************************************************************)
(* Proofs about the tray for any settings, threads and number of launches. *)
(***************************************************************************)
EXTENDS Tray, TLAPS

Shapes == DOMAIN pc = Threads /\ DOMAIN proc = Procs

\* A step of a thread other than the watcher and the launches leaves a start under way.
LEMMA OthersKeep ==
  ASSUME Shapes, LoadingIsTemporary, NEW t \in {Ui, Setup}, NEW at, Goto(t, at),
         state' # "loading" \/ state' = state, running' = running
  PROVE  DOMAIN pc' = Threads /\ LoadingIsTemporary'
BY TrayAssumption DEF Shapes, Goto, LoadingIsTemporary, Threads

\* A step of a launch leaves it under way, or replaces the state.
LEMMA LaunchKeeps ==
  ASSUME Shapes, LoadingIsTemporary, NEW l \in Launches, NEW at, Goto(l, at),
         state' # "loading" \/ (state' = state /\ at # "free"), running' = running
  PROVE  DOMAIN pc' = Threads /\ LoadingIsTemporary'
BY TrayAssumption DEF Shapes, Goto, LoadingIsTemporary, Threads

LEMMA WatcherKeeps ==
  ASSUME Shapes, LoadingIsTemporary, NEW at, Goto(Watcher, at), running' = running,
         \/ state' # "loading"
         \/ at \in {"terminate", "start"}
         \/ state' = state /\ pc[Watcher] \notin {"terminate", "start"}
  PROVE  DOMAIN pc' = Threads /\ LoadingIsTemporary'
BY TrayAssumption DEF Shapes, Goto, LoadingIsTemporary, Threads

LEMMA TerminateKeeps ==
  ASSUME Shapes, LoadingIsTemporary, NEW t \in Threads, Terminate(t)
  PROVE  DOMAIN pc' = Threads /\ LoadingIsTemporary'
<1> DEFINE at == AfterTerminate(t)
<1>1. Goto(t, at) /\ state' = state /\ running' = running
  BY DEF Terminate
<1>2. CASE t \in Launches
  <2>1. at # "free"
    BY <1>2, TrayAssumption DEF AfterTerminate
  <2> HIDE DEF at
  <2> QED BY <1>1, <1>2, <2>1, LaunchKeeps
<1>3. CASE t = Watcher
  <2>1. at \in {"terminate", "start"} \/ pc[Watcher] \notin {"terminate", "start"}
    <3>1. CASE pc[Watcher] = "quit"
      BY <3>1
    <3>2. CASE pc[Watcher] # "quit"
      BY <1>3, <3>2, TrayAssumption DEF AfterTerminate
    <3> QED BY <3>1, <3>2
  <2> HIDE DEF at
  <2> QED BY <1>1, <1>3, <2>1, WatcherKeeps
<1>4. CASE t \in {Ui, Setup}
  <2> HIDE DEF at
  <2> QED BY <1>1, <1>4, OthersKeep
<1> QED BY <1>2, <1>3, <1>4 DEF Threads

LEMMA StartKeeps ==
  ASSUME Shapes, LoadingIsTemporary, NEW t \in {Ui, Setup, Watcher}, Start(t)
  PROVE  DOMAIN pc' = Threads /\ LoadingIsTemporary'
<1>1. CASE PipeTaken(t)
  <2>1. state' # "loading" /\ DOMAIN pc' = DOMAIN pc
    BY <1>1 DEF PipeTaken, Goto
  <2> QED BY <2>1 DEF Shapes, LoadingIsTemporary
<1>2. ASSUME NEW l \in Launches, StartLaunch(t, l) PROVE DOMAIN pc' = Threads /\ LoadingIsTemporary'
  <2>1. pc' = [pc EXCEPT ![t] = Home(t), ![l] = "spawn"]
    BY <1>2 DEF StartLaunch
  <2>2. l \in Threads
    BY DEF Threads
  <2>3. pc'[l] = "spawn" /\ DOMAIN pc' = Threads
    BY <2>1, <2>2 DEF Shapes
  <2> QED BY <2>3 DEF LoadingIsTemporary
<1> QED BY <1>1, <1>2 DEF Start

\* Every step keeps it.
LEMMA StepKeeps ==
  ASSUME Shapes, LoadingIsTemporary, [Next]_vars
  PROVE  DOMAIN pc' = Threads /\ LoadingIsTemporary'
<1>1. ASSUME UNCHANGED pc, state' # "loading" \/ state' = state, running' = running
      PROVE  DOMAIN pc' = Threads /\ LoadingIsTemporary'
  BY <1>1 DEF Shapes, LoadingIsTemporary
<1>2. CASE Toggle \/ Quit \/ SetOff
  <2>1. CASE Toggle
    BY <2>1, OthersKeep DEF Toggle
  <2>2. CASE Quit
    BY <2>2, OthersKeep DEF Quit
  <2>3. CASE SetOff
    BY <2>3, OthersKeep DEF SetOff
  <2> QED BY <1>2, <2>1, <2>2, <2>3
<1>3. CASE WindowFails
  BY <1>1, <1>3 DEF WindowFails
<1>4. CASE Exit
  BY <1>4 DEF Exit, LoadingIsTemporary
<1>5. CASE WatchSettings \/ WatchRestart
  <2>1. CASE WatchSettings
    BY <2>1, WatcherKeeps DEF WatchSettings
  <2>2. CASE WatchRestart
    BY <2>2, WatcherKeeps DEF WatchRestart
  <2> QED BY <1>5, <2>1, <2>2
<1>6. ASSUME NEW l \in Launches, LaunchStep(l) PROVE DOMAIN pc' = Threads /\ LoadingIsTemporary'
  <2>1. CASE Spawn(l)
    <3>1. (Goto(l, "poll") \/ Goto(l, "terminate")) /\ state' = state /\ running' = running
      BY <2>1 DEF Spawn
    <3> QED BY <3>1, LaunchKeeps
  <2>2. CASE Ready(l)
    BY <2>2, LaunchKeeps DEF Ready
  <2>3. CASE LaunchFails(l)
    BY <2>3, LaunchKeeps DEF LaunchFails
  <2>4. CASE Terminate(l)
    BY <2>4, TerminateKeeps DEF Threads
  <2>5. CASE SetOn(l)
    BY <2>5, LaunchKeeps DEF SetOn
  <2>6. CASE SetError(l)
    BY <2>6, LaunchKeeps DEF SetError
  <2> QED BY <1>6, <2>1, <2>2, <2>3, <2>4, <2>5, <2>6 DEF LaunchStep
<1>7. ASSUME NEW l \in Launches, MonitorStep(l) PROVE DOMAIN pc' = Threads /\ LoadingIsTemporary'
  BY <1>1, <1>7 DEF MonitorStep, MonitorBegin, MonitorWakes, MonitorReports
<1>8. ASSUME NEW s \in Settings, Save(s) PROVE DOMAIN pc' = Threads /\ LoadingIsTemporary'
  BY <1>1, <1>8 DEF Save
<1>9. ASSUME NEW p \in Procs, ReadSettings(p) \/ Serve(p) \/ Ends(p)
      PROVE  DOMAIN pc' = Threads /\ LoadingIsTemporary'
  BY <1>1, <1>9 DEF ReadSettings, Serve, Ends
<1>10. CASE Terminate(Ui) \/ Terminate(Watcher)
  BY <1>10, TerminateKeeps DEF Threads
<1>11. CASE Start(Ui) \/ Start(Setup) \/ Start(Watcher)
  BY <1>11, StartKeeps
<1>12. CASE UNCHANGED vars
  BY <1>1, <1>12 DEF vars
<1> QED
  BY <1>2, <1>3, <1>4, <1>5, <1>6, <1>7, <1>8, <1>9, <1>10, <1>11, <1>12
     DEF Next, TrayStep, Ended, UiStep, SetupStep, WatcherStep

\* No step loses a process from the table.
LEMMA ProcsStay ==
  ASSUME Shapes, [Next]_vars
  PROVE  DOMAIN proc' = Procs
<1>1. \/ UNCHANGED proc
      \/ \E p \in Procs : \E r : proc' = [proc EXCEPT ![p] = r]
      \/ \E p \in Procs : \E st : proc' = [proc EXCEPT ![p].st = st]
      \/ \E p \in Procs : Serve(p)
      \/ \E t \in Threads : Terminate(t)
  BY DEF Next, TrayStep, Ended, UiStep, SetupStep, WatcherStep, LaunchStep, MonitorStep, vars,
     Toggle, WindowFails, Quit, SetOff, Exit, Start, PipeTaken, StartLaunch, Spawn, Ready, LaunchFails,
     SetOn, SetError, MonitorBegin, MonitorWakes, MonitorReports, WatchSettings, WatchRestart, Save,
     ReadSettings, Ends, Procs, Threads
<1> QED BY <1>1 DEF Shapes, Serve, Terminate

\* Tray.LoadingIsTemporary: whatever the menu, the setup thread, the watcher and any
\* number of launch and monitor threads do at the same time, an icon that shows
\* `loading`, and refuses every click, is about to be changed by a thread that is not
\* done (ai_ime_tray.py:129-140, 176-255, 320-340).
THEOREM LoadingHasAThread == Spec => []LoadingIsTemporary
<1>1. Init => Shapes /\ LoadingIsTemporary
  BY DEF Init, Shapes, LoadingIsTemporary
<1>2. Shapes /\ LoadingIsTemporary /\ [Next]_vars => (Shapes /\ LoadingIsTemporary)'
  BY StepKeeps, ProcsStay DEF Shapes
<1> QED BY <1>1, <1>2, PTL DEF Spec
=============================================================================
