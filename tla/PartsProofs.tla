---------------------------- MODULE PartsProofs ----------------------------
(***************************************************************************)
(* Proofs about the components that share no state: the guard of           *)
(* BurstGuard for any keys, times and length of a run, the pill of         *)
(* LoadingIndicator on a screen of any size, the files of SettingsFiles    *)
(* for any windows, guides, settings and first files, the release build of *)
(* Release for any versions, labels, runtimes and number of runs, and the  *)
(* training scripts of Training for any sizes, accuracies and restarts.    *)
(***************************************************************************)
EXTENDS BurstGuard, LoadingIndicator, SettingsFiles, Training, Release, OrderingProofs

-----------------------------------------------------------------------------
(* The guard.                                                                *)

GuardInv == TypeOK /\ RunInv

\* The constructor leaves two times of which the second is not the shorter
\* (ranker.py:213-214).
LEMMA Times == Settle \in Nat /\ ForgetAfter \in Nat /\ Settle <= ForgetAfter
BY BurstAssumption, SMT DEF Settle, ForgetAfter

\* Dropping what is old keeps the types.
LEMMA CleanedTypes ==
  ASSUME TypeOK, NEW k \in BurstKeys
  PROVE  Seen(k) \in Nat \cup {Never} /\ Recent(k) \in Nat \cup {Never}
BY DEF TypeOK, Seen, Recent, Old

\* Dropping what is old leaves runs where the invariant wants them: a run from a
\* sighting that is dropped lies in the past.
LEMMA CleanedRuns ==
  ASSUME GuardInv, NEW k \in BurstKeys, lastRun[k] # Never
  PROVE  \/ /\ Recent(k) = lastRun[k]
            /\ Seen(k) # Never
            /\ Seen(k) + Settle <= lastRun[k]
            /\ lastRun[k] <= Seen(k) + ForgetAfter
            /\ lastRun[k] <= now
         \/ /\ Recent(k) = Never
            /\ Seen(k) = Never => lastRun[k] < now
            /\ Seen(k) # Never => lastRun[k] < Seen(k)
<1>1. /\ now \in Nat /\ lastRun[k] \in Nat /\ RunBelongsToSighting(k)
      /\ firstSeen[k] \in Nat \cup {Never} /\ ranked[k] \in Nat \cup {Never}
  BY DEF GuardInv, TypeOK, RunInv
<1>2. CASE Old(k)
  BY <1>1, <1>2, Times, SMT DEF RunBelongsToSighting, Old, Seen, Recent, Never
<1>3. CASE ~Old(k)
  BY <1>1, <1>3, Times, SMT DEF RunBelongsToSighting, Seen, Recent, Never
<1> QED BY <1>2, <1>3

\* Nothing is kept without a run.
LEMMA CleanedKept ==
  ASSUME GuardInv, NEW k \in BurstKeys, Recent(k) # Never
  PROVE  Recent(k) = lastRun[k]
BY DEF GuardInv, RunInv, Recent

\* The parts of the invariant that speak of one key, after a step that sets its
\* entries to s, r and l.
LEMMA OneKey ==
  ASSUME NEW k \in BurstKeys, NEW s, NEW r, NEW l,
         firstSeen'[k] = s, ranked'[k] = r, lastRun'[k] = l,
         l # Never =>
           \/ r = l /\ s # Never /\ s + Settle <= l /\ l <= s + ForgetAfter /\ l <= now'
           \/ r = Never /\ (s = Never => l < now') /\ (s # Never => l < s),
         r # Never => r = l
  PROVE  RunBelongsToSighting(k)' /\ (ranked[k] # Never => ranked[k] = lastRun[k])'
BY DEF RunBelongsToSighting, Settle, ForgetAfter

\* Every step of the guard keeps the invariant.
LEMMA GuardInvIsInductive ==
  ASSUME GuardInv, [BurstNext]_burstVars
  PROVE  GuardInv'
<1> USE DEF Never
<1>0. now \in Nat
  BY DEF GuardInv, TypeOK
<1>1. ASSUME NEW k \in BurstKeys, Explicit(k) PROVE GuardInv'
  BY <1>1 DEF Explicit, GuardInv, TypeOK, RunInv, RunBelongsToSighting
<1>2. ASSUME firstSeen' = [j \in BurstKeys |-> Seen(j)],
             ranked' = [j \in BurstKeys |-> Recent(j)],
             UNCHANGED <<now, lastRun>>
      PROVE  GuardInv'
  <2>1. TypeOK'
    BY <1>2, CleanedTypes DEF GuardInv, TypeOK
  <2>2. ASSUME NEW j \in BurstKeys
        PROVE  RunBelongsToSighting(j)' /\ (ranked[j] # Never => ranked[j] = lastRun[j])'
    <3>1. firstSeen'[j] = Seen(j) /\ ranked'[j] = Recent(j) /\ lastRun'[j] = lastRun[j] /\ now' = now
      BY <1>2
    <3> QED BY <3>1, CleanedRuns, CleanedKept, OneKey
  <2> QED BY <2>1, <2>2 DEF GuardInv, RunInv
<1>3. ASSUME NEW k \in BurstKeys, FirstSight(k) PROVE GuardInv'
  <2>1. TypeOK'
    BY <1>0, <1>3, CleanedTypes DEF GuardInv, TypeOK, FirstSight
  <2>2. ASSUME NEW j \in BurstKeys
        PROVE  RunBelongsToSighting(j)' /\ (ranked[j] # Never => ranked[j] = lastRun[j])'
    <3>1. ranked'[j] = Recent(j) /\ lastRun'[j] = lastRun[j] /\ now' = now
      BY <1>3 DEF FirstSight
    <3>2. CASE j = k
      <4>1. firstSeen'[j] = now /\ Recent(j) = Never /\ Seen(j) = Never
        BY <1>3, <3>2 DEF FirstSight
      <4>2. lastRun[j] # Never => lastRun[j] < now
        BY <4>1, CleanedRuns
      <4> QED BY <1>0, <3>1, <4>1, <4>2, OneKey
    <3>3. CASE j # k
      <4>1. firstSeen'[j] = Seen(j)
        BY <1>3, <3>3 DEF FirstSight
      <4> QED BY <3>1, <4>1, CleanedRuns, CleanedKept, OneKey
    <3> QED BY <3>2, <3>3
  <2> QED BY <2>1, <2>2 DEF GuardInv, RunInv
<1>4. ASSUME NEW k \in BurstKeys, Run(k) PROVE GuardInv'
  <2>1. TypeOK'
    BY <1>0, <1>4, CleanedTypes DEF GuardInv, TypeOK, Run
  <2>2. ASSUME NEW j \in BurstKeys
        PROVE  RunBelongsToSighting(j)' /\ (ranked[j] # Never => ranked[j] = lastRun[j])'
    <3>1. firstSeen'[j] = Seen(j) /\ now' = now
      BY <1>4 DEF Run
    <3>2. CASE j = k
      <4>1. ranked'[j] = now /\ lastRun'[j] = now
        BY <1>4, <3>2 DEF Run, GuardInv, TypeOK
      <4>2. Seen(j) # Never /\ Seen(j) + Settle <= now /\ now <= Seen(j) + ForgetAfter
        <5>1. Seen(j) # Never /\ now - Seen(j) >= Settle
          BY <1>4, <3>2 DEF Run, Settled
        <5>2. ~Old(j) /\ Seen(j) = firstSeen[j]
          BY <5>1 DEF Seen
        <5>3. firstSeen[j] \in Nat
          BY <5>1, <5>2 DEF GuardInv, TypeOK
        <5> QED BY <1>0, <5>1, <5>2, <5>3, Times DEF Old
      <4> QED BY <1>0, <3>1, <4>1, <4>2, OneKey
    <3>3. CASE j # k
      <4>1. ranked'[j] = Recent(j) /\ lastRun'[j] = lastRun[j]
        BY <1>4, <3>3 DEF Run, GuardInv, TypeOK
      <4> QED BY <3>1, <4>1, CleanedRuns, CleanedKept, OneKey
    <3> QED BY <3>2, <3>3
  <2> QED BY <2>1, <2>2 DEF GuardInv, RunInv
<1>5. ASSUME Tick PROVE GuardInv'
  <2>1. TypeOK'
    BY <1>5 DEF Tick, GuardInv, TypeOK
  <2>2. ASSUME NEW j \in BurstKeys
        PROVE  RunBelongsToSighting(j)' /\ (ranked[j] # Never => ranked[j] = lastRun[j])'
    <3>1. lastRun[j] \in Nat \cup {Never} /\ RunBelongsToSighting(j)
          /\ (ranked[j] # Never => ranked[j] = lastRun[j])
      BY DEF GuardInv, TypeOK, RunInv
    <3>2. now' = now + 1 /\ UNCHANGED <<firstSeen, ranked, lastRun>>
      BY <1>5 DEF Tick
    <3> QED BY <1>0, <3>1, <3>2 DEF RunBelongsToSighting, Settle, ForgetAfter
  <2> QED BY <2>1, <2>2 DEF GuardInv, RunInv
<1>6. CASE UNCHANGED burstVars
  BY <1>6 DEF burstVars, GuardInv, TypeOK, RunInv, RunBelongsToSighting, Settle, ForgetAfter
<1>7. ASSUME NEW k \in BurstKeys, ServeKept(k) \/ Unsettled(k) \/ RunFails(k) PROVE GuardInv'
  BY <1>2, <1>7 DEF ServeKept, Unsettled, RunFails
<1> QED
  BY <1>1, <1>3, <1>4, <1>5, <1>6, <1>7 DEF BurstNext, Rank

\* The invariant holds in every reachable state.
LEMMA GuardInvHolds == BurstSpec => []GuardInv
<1>1. BurstInit => GuardInv
  BY DEF BurstInit, GuardInv, TypeOK, RunInv, RunBelongsToSighting, Never
<1>2. GuardInv /\ [BurstNext]_burstVars => GuardInv'
  BY GuardInvIsInductive
<1> QED BY <1>1, <1>2, PTL DEF BurstSpec

\* However old clients repeat and mix their requests, the ranker answers one key
\* again only when more than the settling time has passed (ranker.py:251-277).
THEOREM RunsStayApart == BurstSpec => RunsAreApart
<1> DEFINE Apart == \A k \in BurstKeys : lastRun'[k] # lastRun[k] /\ lastRun[k] # Never
                                      => lastRun'[k] - lastRun[k] > Settle
<1>1. ASSUME GuardInv, [BurstNext]_burstVars PROVE [Apart]_burstVars
  <2> SUFFICES ASSUME NEW j \in BurstKeys, lastRun'[j] # lastRun[j], lastRun[j] # Never
               PROVE  lastRun'[j] - lastRun[j] > Settle
    OBVIOUS
  <2>1. PICK k \in BurstKeys : Run(k)
    BY <1>1 DEF BurstNext, Rank, Tick, Explicit, ServeKept, FirstSight, Unsettled, RunFails, burstVars
  <2>2. j = k /\ lastRun'[j] = now
    BY <1>1, <2>1 DEF Run, GuardInv, TypeOK
  <2>3. Recent(j) = Never /\ Seen(j) # Never /\ now - Seen(j) >= Settle
    BY <2>1, <2>2 DEF Run, Settled
  <2>4. lastRun[j] < Seen(j)
    BY <1>1, <2>3, CleanedRuns
  <2>5. now \in Nat /\ lastRun[j] \in Nat /\ Seen(j) \in Nat
    BY <1>1, <2>3, CleanedTypes DEF GuardInv, TypeOK
  <2> QED BY <2>2, <2>3, <2>4, <2>5, Times
<1>2. GuardInv /\ [BurstNext]_burstVars => [Apart]_burstVars
  BY <1>1
<1> QED BY <1>2, GuardInvHolds, PTL DEF BurstSpec, RunsAreApart

\* A ranking that is served again is never older than the time between settling and
\* being forgotten (ranker.py:254-263).
THEOREM KeptRankingsAreRecent == BurstSpec => KeptIsRecent
<1> DEFINE Young == \A k \in BurstKeys : ServeKept(k) => now - served' <= ForgetAfter - Settle
<1>1. ASSUME GuardInv PROVE Young
  <2> SUFFICES ASSUME NEW k \in BurstKeys, ServeKept(k)
               PROVE  now - served' <= ForgetAfter - Settle
    OBVIOUS
  <2>1. served' = Recent(k) /\ Recent(k) # Never
    BY DEF ServeKept
  <2>2. Recent(k) = lastRun[k] /\ lastRun[k] # Never
    BY <1>1, <2>1, CleanedKept
  <2>3. Seen(k) # Never /\ Seen(k) + Settle <= lastRun[k]
    BY <1>1, <2>1, <2>2, CleanedRuns
  <2>4. now - Seen(k) <= ForgetAfter
    BY <1>1, <2>3, Times DEF GuardInv, TypeOK, Seen, Old, Never
  <2>5. now \in Nat /\ lastRun[k] \in Nat /\ Seen(k) \in Nat
    BY <1>1, <2>2, <2>3, CleanedTypes DEF GuardInv, TypeOK
  <2> QED BY <2>1, <2>2, <2>3, <2>4, <2>5, Times
<1>2. GuardInv => [Young]_burstVars
  BY <1>1
<1> QED BY <1>2, GuardInvHolds, PTL DEF BurstSpec, KeptIsRecent

-----------------------------------------------------------------------------
(* The pill.                                                                 *)

\* min and max the way the code nests them keep a value within its margins
\* (loading_ui.py:126-129).
LEMMA ClampBounds ==
  ASSUME NEW v \in Int, NEW high \in Int, 10 <= high
  PROVE  Clamp(v, 10, high) \in 10 .. high
BY SMT DEF Clamp

\* Every place that _get_target_position returns is one where the whole pill fits
\* (loading_ui.py:81-134).
LEMMA TargetsFit ==
  ASSUME NEW p \in Targets
  PROVE  Fits(p)
<1>1. Screen.w \in Nat /\ Screen.h \in Nat /\ Screen.w >= 152 /\ Screen.h >= 90
  BY ScreenAssumption DEF Width, Height
<1>2. CASE p = Corner
  BY <1>1, <1>2 DEF Corner, Fits, Width, Height
<1>3. CASE \E c \in Cursors : p = NextToCursor(c)
  <2>1. PICK c \in Cursors : p = NextToCursor(c)
    BY <1>3
  <2>2. c.x + 16 \in Int /\ c.y + 16 \in Int
    BY ScreenAssumption
  <2>3. /\ p.x \in 10 .. Screen.w - Width - 10
        /\ p.y \in 10 .. Screen.h - Height - 10
    <3> DEFINE right == Screen.w - Width - 10
               bottom == Screen.h - Height - 10
    <3>1. right \in Int /\ bottom \in Int /\ 10 <= right /\ 10 <= bottom
      BY <1>1 DEF Width, Height
    <3>2. p.x = Clamp(c.x + 16, 10, right) /\ p.y = Clamp(c.y + 16, 10, bottom)
      BY <2>1 DEF NextToCursor
    <3> HIDE DEF right, bottom
    <3>3. Clamp(c.x + 16, 10, right) \in 10 .. right
      BY <2>2, <3>1, ClampBounds, Zenon
    <3>4. Clamp(c.y + 16, 10, bottom) \in 10 .. bottom
      BY <2>2, <3>1, ClampBounds, Zenon
    <3> QED BY <3>2, <3>3, <3>4 DEF right, bottom
  <2> QED BY <1>1, <2>3 DEF Fits, Width, Height
<1>4. CASE Fits(p)
  BY <1>4
<1> QED BY <1>2, <1>3, <1>4 DEF Targets

\* The pill is on the primary screen whenever it is shown (loading_ui.py:81-134).
THEOREM PillStaysOnScreen == PillSpec => []PillOnScreen
<1>1. PillInit => PillOnScreen
  BY DEF PillInit, PillOnScreen
<1>2. ASSUME PillOnScreen, [PillNext]_pillVars PROVE PillOnScreen'
  <2>1. CASE Show
    BY <2>1, TargetsFit DEF Show, PillOnScreen, Fits
  <2>2. CASE ServerStep
    BY <1>2, <2>2 DEF ServerStep, Start, Started, Enter, Leave, Stop, Joined, Exit, PillOnScreen, Fits
  <2>3. CASE Create \/ Hide \/ Quit
    BY <1>2, <2>3 DEF Create, Hide, Quit, PillOnScreen, Fits
  <2>4. CASE UNCHANGED pillVars
    BY <1>2, <2>4 DEF pillVars, PillOnScreen, Fits
  <2> QED BY <1>2, <2>1, <2>2, <2>3, <2>4 DEF PillNext, PumpStep
<1>3. PillOnScreen /\ [PillNext]_pillVars => PillOnScreen'
  BY <1>2
<1> QED BY <1>1, <1>3, PTL DEF PillSpec

-----------------------------------------------------------------------------
(* The files.                                                                *)

Names == {"settings", "onboarding"}

\* Nothing but the shape of the variables.
Shapes ==
  /\ DOMAIN at = Writers
  /\ DOMAIN data = Writers
  /\ DOMAIN disk = Writers \cup Names

\* Who is about to rename has its own data in its temporary file.
FullIsOwn == \A p \in Writers : at[p] = "full" => disk[p] = data[p]

SaveInv == Shapes /\ FullIsOwn

-----------------------------------------------------------------------------

\* The first steps of a process: none of them touches a file, and none leads to
\* a rename.
LEMMA ShortStepKeeps ==
  ASSUME SaveInv, NEW p \in Writers, NEW where, where # "full",
         at' = [at EXCEPT ![p] = where],
         data' = data \/ data' = [data EXCEPT ![p] = None], disk' = disk
  PROVE  SaveInv'
BY DEF SaveInv, Shapes, FullIsOwn

\* The names of the files are none of the writers'.
LEMMA NamesAreApart == ASSUME NEW p \in Writers PROVE p \notin Names
BY SettingsAssumption DEF Names

\* A write begins in the writer's own temporary file.
LEMMA BeginWriteKeeps ==
  ASSUME SaveInv, NEW p \in Writers, NEW d, BeginWrite(p, d)
  PROVE  SaveInv' /\ \A f \in Names : disk'[f] = disk[f]
<1>1. p \notin Names
  BY NamesAreApart
<1>2. /\ data' = [data EXCEPT ![p] = d]
      /\ disk' = [disk EXCEPT ![p] = Cut]
      /\ at' = [at EXCEPT ![p] = "cut"]
  BY DEF BeginWrite, TempName
<1>3. Shapes'
  BY <1>2 DEF SaveInv, Shapes
<1>4. FullIsOwn'
  <2> SUFFICES ASSUME NEW q \in Writers, at'[q] = "full" PROVE disk'[q] = data'[q]
    BY DEF FullIsOwn
  <2>1. q # p
    BY <1>2 DEF SaveInv, Shapes
  <2> QED BY <1>2, <2>1 DEF SaveInv, Shapes, FullIsOwn
<1>5. ASSUME NEW f \in Names PROVE disk'[f] = disk[f]
  BY <1>1, <1>2, <1>5 DEF SaveInv, Shapes
<1> QED BY <1>3, <1>4, <1>5 DEF SaveInv

\* The other steps of a write: the writer's temporary file is filled and renamed,
\* and whatever fails or is ended leaves the files as they are.
LEMMA WriteStepKeeps ==
  ASSUME SaveInv, NEW p \in Writers, Fill(p) \/ Rename(p) \/ Fail(p) \/ Kill(p)
  PROVE  /\ SaveInv'
         /\ \A f \in Names : disk'[f] # disk[f] =>
               Target(p) = f /\ at[p] = "full" /\ disk'[f] = data[p]
<1>0. p \notin Names /\ Target(p) \in Names
  BY NamesAreApart DEF Target, Names
<1>1. CASE Fill(p)
  <2>1. at' = [at EXCEPT ![p] = "full"] /\ disk' = [disk EXCEPT ![p] = data[p]] /\ data' = data
    BY <1>1 DEF Fill, TempName
  <2> QED BY <1>0, <2>1 DEF SaveInv, Shapes, FullIsOwn
<1>2. CASE Rename(p)
  <2> DEFINE where == IF p \in Windows THEN "open" ELSE IF p = Tray THEN "up" ELSE "off"
  <2>1. where # "full" /\ at' = [at EXCEPT ![p] = where]
    BY <1>2 DEF Rename
  <2> HIDE DEF where
  <2>2. /\ at[p] = "full" /\ data' = [data EXCEPT ![p] = None]
        /\ disk' = [disk EXCEPT ![Target(p)] = disk[p], ![p] = Missing]
    BY <1>2 DEF Rename, TempName
  <2>3. Shapes'
    BY <2>1, <2>2, <1>0 DEF SaveInv, Shapes
  <2>4. FullIsOwn'
    <3> SUFFICES ASSUME NEW q \in Writers, at'[q] = "full" PROVE disk'[q] = data'[q]
      BY DEF FullIsOwn
    <3>1. q # p /\ q # Target(p)
      BY <2>1, <1>0, NamesAreApart DEF SaveInv, Shapes
    <3> QED BY <2>1, <2>2, <3>1 DEF SaveInv, Shapes, FullIsOwn
  <2>5. ASSUME NEW f \in Names, disk'[f] # disk[f]
        PROVE  Target(p) = f /\ disk'[f] = data[p]
    BY <1>0, <2>2, <2>5 DEF SaveInv, Shapes, FullIsOwn
  <2> QED BY <2>2, <2>3, <2>4, <2>5 DEF SaveInv
<1>3. CASE Fail(p) \/ Kill(p)
  <2> DEFINE where == IF Kill(p) \/ p = Tray THEN "off" ELSE "open"
  <2>1. where # "full" /\ at' = [at EXCEPT ![p] = where]
    <3>1. CASE Kill(p)
      BY <3>1 DEF Kill
    <3>2. CASE ~Kill(p)
      BY <1>3, <3>2 DEF Fail
    <3> QED BY <3>1, <3>2
  <2> HIDE DEF where
  <2>2. data' = [data EXCEPT ![p] = None] /\ (disk' = disk \/ disk' = [disk EXCEPT ![p] = Missing])
    BY <1>3 DEF Fail, Kill, TempName
  <2>3. Shapes'
    BY <2>1, <2>2 DEF SaveInv, Shapes
  <2>4. FullIsOwn'
    <3> SUFFICES ASSUME NEW q \in Writers, at'[q] = "full" PROVE disk'[q] = data'[q]
      BY DEF FullIsOwn
    <3>1. q # p
      BY <2>1 DEF SaveInv, Shapes
    <3> QED BY <2>1, <2>2, <3>1 DEF SaveInv, Shapes, FullIsOwn
  <2>5. \A f \in Names : disk'[f] = disk[f]
    BY <1>0, <2>2 DEF SaveInv, Shapes
  <2> QED BY <2>3, <2>4, <2>5 DEF SaveInv
<1> QED BY <1>1, <1>2, <1>3

\* What one step of any process does to the files.
OwnSave ==
  \A f \in Names : disk'[f] # disk[f] =>
     \E p \in Writers : Target(p) = f /\ at[p] = "full" /\ disk'[f] = data[p]

\* Every step keeps the invariant and changes a file by its writer's rename only.
LEMMA StepKeeps ==
  ASSUME SaveInv, [SettingsNext]_settingsVars
  PROVE  SaveInv' /\ OwnSave
<1>0. Windows \subseteq Writers /\ Guides \subseteq Writers /\ Tray \in Writers
  BY DEF Writers
<1>1. ASSUME NEW p \in Writers, Fill(p) \/ Rename(p) \/ Fail(p) \/ Kill(p)
      PROVE  SaveInv' /\ OwnSave
  BY <1>1, WriteStepKeeps DEF OwnSave
<1>2. ASSUME NEW p \in Writers, NEW d, BeginWrite(p, d) PROVE SaveInv' /\ OwnSave
  BY <1>2, BeginWriteKeeps DEF OwnSave
<1>3. ASSUME NEW p \in Writers, NEW where, where # "full",
             at' = [at EXCEPT ![p] = where], UNCHANGED <<data, disk>>
      PROVE  SaveInv' /\ OwnSave
  BY <1>3, ShortStepKeeps DEF OwnSave
<1>4. ASSUME UNCHANGED <<at, data, disk>> PROVE SaveInv' /\ OwnSave
  BY <1>4 DEF SaveInv, Shapes, FullIsOwn, OwnSave
<1>5. ASSUME NEW w \in Windows, Open(w) \/ Edit(w) \/ RestoreDefaults(w) \/ SaveSettings(w) \/ Close(w)
      PROVE  SaveInv' /\ OwnSave
  <2>1. CASE Open(w) \/ Close(w)
    BY <1>0, <1>3, <2>1 DEF Open, Close, Begin
  <2>2. CASE Edit(w) \/ RestoreDefaults(w)
    BY <1>4, <2>2 DEF Edit, RestoreDefaults, Change
  <2>3. CASE SaveSettings(w)
    <3>1. BeginWrite(w, Collect(form[w]))
      BY <2>3 DEF SaveSettings
    <3> QED BY <1>0, <1>2, <3>1
  <2> QED BY <1>5, <2>1, <2>2, <2>3
<1>6. ASSUME NEW g \in Guides, NEW force \in BOOLEAN, ShowGuide(g, force)
      PROVE  SaveInv' /\ OwnSave
  BY <1>0, <1>3, <1>6 DEF ShowGuide, Begin
<1>7. ASSUME NEW g \in Guides, Finish(g) PROVE SaveInv' /\ OwnSave
  <2>1. BeginWrite(g, "seen")
    BY <1>7 DEF Finish
  <2> QED BY <1>0, <1>2, <2>1
<1>8. CASE StartTray
  <2> DEFINE where == IF runKey THEN "migrate" ELSE "up"
  <2>1. where # "full" /\ at' = [at EXCEPT ![Tray] = where]
    BY <1>8 DEF StartTray, Begin
  <2> HIDE DEF where
  <2> QED BY <1>0, <1>3, <1>8, <2>1 DEF StartTray
<1>9. CASE Migrate
  <2>1. CASE BeginWrite(Tray, [Load(disk["settings"]) EXCEPT !.autostart = TRUE])
    BY <1>0, <1>2, <2>1
  <2>2. CASE at' = [at EXCEPT ![Tray] = "up"] /\ UNCHANGED <<disk, data>>
    BY <1>0, <1>3, <2>2
  <2> QED BY <1>9, <2>1, <2>2 DEF Migrate
<1>10. CASE UNCHANGED settingsVars
  BY <1>4, <1>10 DEF settingsVars
<1> QED BY <1>1, <1>5, <1>6, <1>7, <1>8, <1>9, <1>10 DEF SettingsNext

\* A settings file or an onboarding mark changes only by the rename of one writer,
\* and to what that writer collected: the temporary names keep all others out
\* (product_settings.py:107-117, onboarding_ui.py:62-75).
THEOREM SavesStayOwn == SettingsSpec => SavesAreOwn
<1>1. SettingsInit => SaveInv
  BY DEF SettingsInit, SaveInv, Shapes, FullIsOwn, Names
<1>2. SaveInv /\ [SettingsNext]_settingsVars => SaveInv'
  BY StepKeeps
<1>3. SaveInv /\ [SettingsNext]_settingsVars => [OwnSave]_settingsVars
  BY StepKeeps
<1>4. SettingsSpec => [][OwnSave]_settingsVars
  BY <1>1, <1>2, <1>3, PTL DEF SettingsSpec
<1> QED BY <1>4 DEF SavesAreOwn, OwnSave, Names

-----------------------------------------------------------------------------
(* Release: the fragment of the MSI.                                         *)

\* A directory above a file stands within the one above it, and so is emitted.
LEMMA DirectoriesAreEmitted ==
  ASSUME NEW files, \A f \in files : f \in Seq(STRING) \ {<<>>}
  PROVE  Directories(files) \subseteq Emitted(files)
<1> SUFFICES ASSUME NEW d \in Directories(files), NEW m \in 1 .. Len(d)
             PROVE  SubSeq(d, 1, m) \in Directories(files)
  BY DEF Emitted
<1>1. PICK f \in files : d \in {SubSeq(f, 1, n) : n \in 1 .. Len(f) - 1}
  BY DEF Directories
<1>0. PICK n \in 1 .. Len(f) - 1 : d = SubSeq(f, 1, n)
  BY <1>1
<1>2. f \in Seq(STRING) /\ Len(f) \in Nat
  BY LenProperties
<1>3. d \in Seq(STRING) /\ Len(d) = n /\ \A i \in 1 .. n : d[i] = f[i]
  BY <1>0, <1>2
<1>4. m \in 1 .. n /\ m \in 1 .. Len(f) - 1
  BY <1>2, <1>3
<1>5. SubSeq(d, 1, m) = SubSeq(f, 1, m)
  BY <1>2, <1>3, <1>4
<1> QED BY <1>4, <1>5 DEF Directories

\* Every file of a runtime has a component in a directory that was emitted
\* (build_ai_msi.py:71-148).
LEMMA AllIsInstalled ==
  ASSUME NEW files \in FileSets
  PROVE  Installed(files) = files
<1>1. \A f \in files : f \in Seq(STRING) \ {<<>>}
  BY ReleaseAssumption
<1>2. ASSUME NEW f \in files, Len(f) # 1 PROVE Front(f) \in Emitted(files)
  <2>1. f \in Seq(STRING) /\ Len(f) \in Nat /\ Len(f) # 0
    BY <1>1, <1>2, EmptySeq, LenProperties
  <2> DEFINE n == Len(f)
  <2>2. n - 1 \in 1 .. n - 1
    <3>1. n \in Nat /\ n # 0 /\ n # 1
      BY <1>2, <2>1
    <3> HIDE DEF n
    <3> QED BY <3>1
  <2>3. Front(f) \in Directories(files)
    BY <2>2 DEF Front, Directories
  <2> QED BY <1>1, <2>3, DirectoriesAreEmitted
<1> QED BY <1>2 DEF Installed

-----------------------------------------------------------------------------
(* Release: the invariant.                                                   *)

Complete == [e \in Edits |-> 1]

\* The window source has the first three edits made at least as often as the next
\* one, more often while the run that made it is still at that one, and the others
\* once at most; behind an edit, it is there.
WindowInv(step, w) ==
  w # Truncated =>
    /\ w \in [Edits -> Nat]
    /\ w[2] <= w[1] /\ w[3] <= w[2]
    /\ step = "edit2" => w[2] < w[1]
    /\ step = "edit3" => w[3] < w[2]
    /\ \A e \in 4 .. 6 : w[e] <= 1
    /\ \A e \in Edits : step \in {EditSteps[n] : n \in e + 1 .. 7} \cup {"compile"} => w[e] >= 1

\* What was built comes from a complete source and from one runtime.
ProductsInv(built, runtime, files) ==
  /\ built # Nothing => built = Complete
  /\ runtime # Nothing => runtime.files \in FileSets
  /\ DOMAIN files = Labels
  /\ \A l \in Labels : files[l] # Nothing => files[l].files \in FileSets

\* The run that is under way knows the version of what it made.
RunningInv(step, a, built, files) ==
  /\ step # "idle" => a.label \in Labels
  /\ step \notin {"idle", "runtime"} => Valid(a.version)
  /\ step = "msi" => built = Complete
  /\ step \in {"admin", "validate", "sums"} => files[a.label].window = Complete
  /\ step = "sums" => files[a.label].version = a.version /\ files[a.label].exe = a.version

ReleaseInv ==
  /\ WindowInv(pc, window_cc)
  /\ ProductsInv(binaries, dist, msis)
  /\ RunningInv(pc, args, binaries, msis)
  /\ VersionsAgree
  /\ PatchedOnce

-----------------------------------------------------------------------------
(* Release: the steps.                                                       *)

\* Where no edit is next or behind, the order of the edits is all that counts.
LEMMA WindowAtRest ==
  ASSUME NEW s, NEW w, WindowInv(s, w),
         NEW t \in {"idle", "runtime", "overlay", "tip", "edit1", "msi", "admin", "validate", "sums"}
  PROVE  WindowInv(t, w)
<1>1. t # "edit2" /\ t # "edit3"
  OBVIOUS
<1>2. ASSUME NEW e \in Edits, NEW n \in e + 1 .. 7 PROVE t # EditSteps[n]
  <2>1. n = 2 \/ n = 3 \/ n = 4 \/ n = 5 \/ n = 6 \/ n = 7
    BY DEF Edits
  <2> QED BY <2>1 DEF EditSteps
<1>3. t # "compile"
  OBVIOUS
<1> QED BY <1>1, <1>2, <1>3 DEF WindowInv

LEMMA StartKeeps ==
  ASSUME ReleaseInv, NEW v \in Versions, NEW l \in Labels, StartRelease(v, l)
  PROVE  ReleaseInv'
<1>1. WindowInv(pc, window_cc)'
  <2>1. WindowInv(pc, window_cc) /\ window_cc' = window_cc /\ pc' = "runtime"
    BY DEF ReleaseInv, StartRelease, At, sources, products
  <2>2. WindowInv(pc', window_cc)
    BY <2>1, WindowAtRest
  <2> QED BY <2>1, <2>2
<1>2. ProductsInv(binaries, dist, msis)'
  BY DEF ReleaseInv, StartRelease, At, sources, products, ProductsInv
<1>3. RunningInv(pc, args, binaries, msis)'
  BY DEF ReleaseInv, StartRelease, At, sources, products, ProductsInv, RunningInv, Valid
<1>4. VersionsAgree' /\ PatchedOnce'
  BY DEF ReleaseInv, StartRelease, At, sources, products, VersionsAgree, PatchedOnce, Valid
<1> QED BY <1>1, <1>2, <1>3, <1>4 DEF ReleaseInv

\* A run that ends leaves the window source to the next one as it is.
LEMMA AbortKeeps ==
  ASSUME ReleaseInv, Abort
  PROVE  ReleaseInv'
<1>1. WindowInv(pc, window_cc)'
  <2>1. WindowInv(pc, window_cc) /\ window_cc' = window_cc /\ pc' = "idle"
    BY DEF ReleaseInv, Abort, sources, products
  <2>2. WindowInv(pc', window_cc)
    BY <2>1, WindowAtRest
  <2> QED BY <2>1, <2>2
<1>2. ProductsInv(binaries, dist, msis)'
  BY DEF ReleaseInv, Abort, sources, products, ProductsInv
<1>3. RunningInv(pc, args, binaries, msis)'
  BY DEF ReleaseInv, Abort, sources, products, ProductsInv, RunningInv, Valid
<1>4. VersionsAgree' /\ PatchedOnce'
  BY DEF ReleaseInv, Abort, sources, products, VersionsAgree, PatchedOnce, Valid
<1> QED BY <1>1, <1>2, <1>3, <1>4 DEF ReleaseInv

LEMMA BuildRuntimeKeeps ==
  ASSUME ReleaseInv, BuildRuntime
  PROVE  ReleaseInv'
<1>1. WindowInv(pc, window_cc)'
  <2>1. WindowInv(pc, window_cc) /\ window_cc' = window_cc /\ pc' \in {"overlay", "idle"}
    BY DEF ReleaseInv, BuildRuntime, At, sources
  <2>2. WindowInv(pc', window_cc)
    BY <2>1, WindowAtRest
  <2> QED BY <2>1, <2>2
<1>2. ProductsInv(binaries, dist, msis)'
  BY DEF ReleaseInv, BuildRuntime, At, sources, ProductsInv
<1>3. RunningInv(pc, args, binaries, msis)'
  BY DEF ReleaseInv, BuildRuntime, At, sources, ProductsInv, RunningInv, Valid
<1>4. VersionsAgree' /\ PatchedOnce'
  BY DEF ReleaseInv, BuildRuntime, At, sources, VersionsAgree, PatchedOnce, Valid
<1> QED BY <1>1, <1>2, <1>3, <1>4 DEF ReleaseInv

LEMMA CopyOverlayKeeps ==
  ASSUME ReleaseInv, CopyOverlay
  PROVE  ReleaseInv'
<1>1. WindowInv(pc, window_cc)'
  <2>1. WindowInv(pc, window_cc) /\ window_cc' = window_cc /\ pc' \in {"tip", "idle"}
    BY DEF ReleaseInv, CopyOverlay, At, products
  <2>2. WindowInv(pc', window_cc)
    BY <2>1, WindowAtRest
  <2> QED BY <2>1, <2>2
<1>2. ProductsInv(binaries, dist, msis)'
  BY DEF ReleaseInv, CopyOverlay, At, products, ProductsInv
<1>3. RunningInv(pc, args, binaries, msis)'
  BY DEF ReleaseInv, CopyOverlay, At, products, ProductsInv, RunningInv, Valid
<1>4. VersionsAgree' /\ PatchedOnce'
  BY DEF ReleaseInv, CopyOverlay, At, products, VersionsAgree, PatchedOnce, Valid
<1> QED BY <1>1, <1>2, <1>3, <1>4 DEF ReleaseInv

LEMMA PatchTipKeeps ==
  ASSUME ReleaseInv, PatchTip
  PROVE  ReleaseInv'
<1>1. WindowInv(pc, window_cc)'
  <2>1. WindowInv(pc, window_cc) /\ window_cc' = window_cc /\ pc' \in {"edit1", "idle"}
    BY DEF ReleaseInv, PatchTip, At, products
  <2>2. WindowInv(pc', window_cc)
    BY <2>1, WindowAtRest
  <2> QED BY <2>1, <2>2
<1>2. ProductsInv(binaries, dist, msis)'
  BY DEF ReleaseInv, PatchTip, At, products, ProductsInv
<1>3. RunningInv(pc, args, binaries, msis)'
  BY DEF ReleaseInv, PatchTip, At, products, ProductsInv, RunningInv, Valid
<1>4. VersionsAgree' /\ PatchedOnce'
  BY DEF ReleaseInv, PatchTip, At, products, VersionsAgree, PatchedOnce, Valid
<1> QED BY <1>1, <1>2, <1>3, <1>4 DEF ReleaseInv

\* An edit that is found again is made again; the order of the edits keeps the
\* counts in theirs.
LEMMA PatchWindowKeeps ==
  ASSUME ReleaseInv, NEW e \in Edits, PatchWindow(e)
  PROVE  ReleaseInv'
<1> USE DEF Edits
<1>1. ProductsInv(binaries, dist, msis)' /\ VersionsAgree' /\ PatchedOnce'
  BY DEF ReleaseInv, PatchWindow, products, ProductsInv, VersionsAgree, PatchedOnce
<1>2. e = 1 \/ e = 2 \/ e = 3 \/ e = 4 \/ e = 5 \/ e = 6
  OBVIOUS
<1>3. RunningInv(pc, args, binaries, msis)'
  BY <1>2 DEF ReleaseInv, PatchWindow, products, At, RunningInv, EditSteps
<1>4. WindowInv(pc, window_cc)'
  <2>1. CASE window_cc' = Truncated
    BY <2>1 DEF WindowInv
  <2>2. CASE window_cc' = [window_cc EXCEPT ![e] = @ + 1] /\ At(EditSteps[e], EditSteps[e + 1])
    <3>1. window_cc # Truncated /\ (e \in {4, 5, 6} => window_cc[e] = 0)
      BY DEF PatchWindow, Matches
    <3> QED BY <1>2, <2>2, <3>1 DEF ReleaseInv, WindowInv, At, EditSteps
  <2> QED BY <2>1, <2>2 DEF PatchWindow
<1> QED BY <1>1, <1>3, <1>4 DEF ReleaseInv

LEMMA PatchRewriterKeeps ==
  ASSUME ReleaseInv, PatchRewriter
  PROVE  ReleaseInv'
<1>1. WindowInv(pc, window_cc)'
  <2>1. WindowInv(pc, window_cc) /\ window_cc' = window_cc /\ pc = "badge" /\ pc' \in {"compile", "idle"}
    BY DEF ReleaseInv, PatchRewriter, At, products
  <2>2. CASE pc' = "idle"
    BY <2>1, <2>2, WindowAtRest
  <2>3. CASE pc' = "compile"
    <3>1. pc = EditSteps[7] /\ \A e \in Edits : 7 \in e + 1 .. 7
      BY <2>1 DEF EditSteps, Edits
    <3> QED BY <2>1, <2>3, <3>1 DEF WindowInv
  <2> QED BY <2>1, <2>2, <2>3
<1>2. ProductsInv(binaries, dist, msis)'
  BY DEF ReleaseInv, PatchRewriter, At, products, ProductsInv
<1>3. RunningInv(pc, args, binaries, msis)'
  BY DEF ReleaseInv, PatchRewriter, At, products, ProductsInv, RunningInv, Valid
<1>4. VersionsAgree' /\ PatchedOnce'
  BY DEF ReleaseInv, PatchRewriter, At, products, VersionsAgree, PatchedOnce, Valid
<1> QED BY <1>1, <1>2, <1>3, <1>4 DEF ReleaseInv

\* What compiles has every edit, and none twice.
LEMMA CompileKeeps ==
  ASSUME ReleaseInv, Compile
  PROVE  ReleaseInv'
<1>1. window_cc = Complete
  <2>1. window_cc # Truncated /\ window_cc[1] <= 1 /\ window_cc[2] <= 1 /\ pc = "compile"
    BY DEF Compile, Compiles, At
  <2>2. window_cc \in [Edits -> Nat] /\ \A e \in Edits : window_cc[e] >= 1
    BY <2>1 DEF ReleaseInv, WindowInv
  <2>3. window_cc[3] <= 1 /\ \A e \in 4 .. 6 : window_cc[e] <= 1
    BY <2>1, <2>2 DEF ReleaseInv, WindowInv, Edits
  <2>4. \A e \in Edits : window_cc[e] = 1
    BY <2>1, <2>2, <2>3 DEF Edits
  <2> QED BY <2>2, <2>4 DEF Complete
<1> QED
  BY <1>1 DEF ReleaseInv, Compile, sources, At, WindowInv, ProductsInv, RunningInv,
     VersionsAgree, PatchedOnce, EditSteps, Valid

LEMMA BuildMsiKeeps ==
  ASSUME ReleaseInv, BuildMsi
  PROVE  ReleaseInv'
<1>1. dist.files \in FileSets /\ Installed(dist.files) = dist.files
  BY AllIsInstalled DEF ReleaseInv, BuildMsi, ProductsInv
<1>2. ProductsInv(binaries, dist, msis)'
  BY <1>1 DEF ReleaseInv, BuildMsi, Msi, ProductsInv
<1>3. RunningInv(pc, args, binaries, msis)'
  BY DEF ReleaseInv, BuildMsi, Msi, At, ProductsInv, RunningInv, Valid
<1>4. WindowInv(pc, window_cc)' /\ VersionsAgree' /\ PatchedOnce'
  <2>1. WindowInv(pc, window_cc) /\ window_cc' = window_cc /\ pc' = "admin"
    BY DEF ReleaseInv, BuildMsi, At, sources
  <2>2. WindowInv(pc', window_cc)
    BY <2>1, WindowAtRest
  <2>3. VersionsAgree' /\ PatchedOnce'
    BY DEF ReleaseInv, BuildMsi, VersionsAgree, PatchedOnce, Valid
  <2> QED BY <2>1, <2>2, <2>3
<1> QED BY <1>2, <1>3, <1>4 DEF ReleaseInv

\* An MSI made by hand may have any version: no run is under way that publishes it.
LEMMA BuildMsiByHandKeeps ==
  ASSUME ReleaseInv, NEW v \in Versions, NEW l \in Labels, BuildMsiByHand(v, l)
  PROVE  ReleaseInv'
<1>1. dist.files \in FileSets /\ Installed(dist.files) = dist.files
  BY AllIsInstalled DEF ReleaseInv, BuildMsiByHand, ProductsInv
<1>2. ProductsInv(binaries, dist, msis)'
  BY <1>1 DEF ReleaseInv, BuildMsiByHand, Msi, ProductsInv
<1>3. RunningInv(pc, args, binaries, msis)'
  BY DEF ReleaseInv, BuildMsiByHand, RunningInv
<1>4. WindowInv(pc, window_cc)' /\ VersionsAgree' /\ PatchedOnce'
  BY DEF ReleaseInv, BuildMsiByHand, sources, WindowInv, VersionsAgree, PatchedOnce, EditSteps
<1> QED BY <1>2, <1>3, <1>4 DEF ReleaseInv

LEMMA ImageStepKeeps ==
  ASSUME ReleaseInv, Extract \/ ValidateImage
  PROVE  ReleaseInv'
<1>1. WindowInv(pc, window_cc)'
  <2>1. WindowInv(pc, window_cc) /\ window_cc' = window_cc /\ pc' \in {"validate", "sums"}
    BY DEF ReleaseInv, Extract, ValidateImage, At, sources, products
  <2>2. WindowInv(pc', window_cc)
    BY <2>1, WindowAtRest
  <2> QED BY <2>1, <2>2
<1>2. ProductsInv(binaries, dist, msis)'
  BY DEF ReleaseInv, Extract, ValidateImage, At, sources, products, ProductsInv
<1>3. RunningInv(pc, args, binaries, msis)'
  BY DEF ReleaseInv, Extract, ValidateImage, At, sources, products, ProductsInv, RunningInv, Valid
<1>4. VersionsAgree' /\ PatchedOnce'
  BY DEF ReleaseInv, Extract, ValidateImage, At, sources, products, VersionsAgree, PatchedOnce, Valid
<1> QED BY <1>1, <1>2, <1>3, <1>4 DEF ReleaseInv

LEMMA WriteSumsKeeps ==
  ASSUME ReleaseInv, WriteSums
  PROVE  ReleaseInv'
<1>1. WindowInv(pc, window_cc)' /\ ProductsInv(binaries, dist, msis)' /\ RunningInv(pc, args, binaries, msis)'
  <2>1. WindowInv(pc, window_cc) /\ window_cc' = window_cc /\ pc' = "idle"
    BY DEF ReleaseInv, WriteSums, At, sources
  <2>2. WindowInv(pc', window_cc)
    BY <2>1, WindowAtRest
  <2>3. ProductsInv(binaries, dist, msis)'
    BY DEF ReleaseInv, WriteSums, ProductsInv
  <2>4. RunningInv(pc, args, binaries, msis)'
    BY DEF ReleaseInv, WriteSums, At, RunningInv
  <2> QED BY <2>1, <2>2, <2>3, <2>4
<1>2. Valid(args.version) /\ msis[args.label].version = args.version /\ msis[args.label].exe = args.version
      /\ msis[args.label].window = Complete
  BY DEF ReleaseInv, WriteSums, At, RunningInv
<1>3. sums'.msi = msis[args.label]
  BY DEF WriteSums
<1> QED BY <1>1, <1>2, <1>3 DEF ReleaseInv, VersionsAgree, PatchedOnce, Complete, Valid

\* However often the build is started, fails, is ended or helped by hand: a checksum
\* is published only for an MSI of one valid version, from a window source with every
\* edit once, and no MSI lacks a file of its runtime (build-release.ps1:8-73,
\* build_ai_msi.py:71-270, modernize_mozc_ui.py:7-213).
THEOREM ReleaseIsSound == ReleaseSpec => []ReleaseSound
<1>1. ReleaseInit => ReleaseInv
  BY DEF ReleaseInit, ReleaseInv, WindowInv, ProductsInv, RunningInv, VersionsAgree, PatchedOnce, EditSteps, Edits
<1>2. ASSUME ReleaseInv, [ReleaseNext]_releaseVars PROVE ReleaseInv'
  <2>1. CASE UNCHANGED releaseVars
    BY <1>2, <2>1 DEF releaseVars, ReleaseInv, WindowInv, ProductsInv, RunningInv, VersionsAgree, PatchedOnce
  <2>2. CASE ReleaseNext
    BY <1>2, <2>2, StartKeeps, AbortKeeps, BuildRuntimeKeeps, CopyOverlayKeeps, PatchTipKeeps, PatchWindowKeeps,
       PatchRewriterKeeps, CompileKeeps, BuildMsiKeeps, BuildMsiByHandKeeps, ImageStepKeeps, WriteSumsKeeps
       DEF ReleaseNext
  <2> QED BY <1>2, <2>1, <2>2
<1>3. ReleaseInv => ReleaseSound
  BY DEF ReleaseInv, ReleaseSound, ProductsInv, NothingLeftOut
<1> QED BY <1>1, <1>2, <1>3, PTL DEF ReleaseSpec

-----------------------------------------------------------------------------
(* Training: the invariant.                                                  *)

Models == Seq(Nat \X Nat)

TrainTypes ==
  /\ batches \in Nat \ {0} /\ accum \in Nat \ {0}
  /\ epoch \in Nat /\ batch \in 0 .. batches
  /\ gradient \in Models /\ model \in Models
  /\ best \in Nat /\ scores \in Seq([acc : Nat, model : Models])
  /\ dirs \in [base : Models \cup {HalfWritten}, backup : {<<>>, NoDirectory, HalfWritten},
               output : Models \cup {NoDirectory, HalfWritten}, merged : Models \cup {NoDirectory, HalfWritten}]
  /\ writing \in BOOLEAN

\* The phases a script passes.
PhaseInv ==
  /\ phase \in {"train", "validate", "copy", "merge", "save", "done"}
  /\ batch # 0 => phase = "train"
  /\ phase = "validate" => script # "residual"
  /\ phase = "copy" => script = "residual"
  /\ phase = "merge" => script = "ruri"
  /\ writing => phase \in {"copy", "merge", "save"}

\* The k-th batch since the start, when an epoch has b of them.
BatchAt(k, b) == <<((k - 1) \div b) + 1, ((k - 1) % b) + 1>>

EndsWith(s, n, b) == Len(s) >= n /\ \A k \in 1 .. n : s[Len(s) - n + k] = BatchAt(k, b)

\* The model with what waits in the gradients ends with the batches so far; between
\* two epochs nothing waits.
GradientInv ==
  /\ EndsWith(model \o gradient, epoch * batches + batch, batches)
  /\ batch \in {0, batches} => gradient = <<>>

\* The last of the best epochs is on disk, or is being written.
IsLastBest(i) ==
  /\ scores[i].acc = best
  /\ \A j \in DOMAIN scores : scores[j].acc <= best /\ (j > i => scores[j].acc < best)

CheckpointInv ==
  script = "distill" =>
    IF scores = <<>> THEN phase # "save" /\ best = 0
    ELSE IF phase = "save" THEN IsLastBest(Len(scores)) /\ model = scores[Len(scores)].model
    ELSE \E i \in DOMAIN scores : IsLastBest(i) /\ dirs.output = scores[i].model

\* The base is overwritten only behind a backup, and is not while that is written.
BackupInv ==
  /\ dirs.backup = NoDirectory => dirs.base = <<>>
  /\ script = "residual" /\ phase = "save" => dirs.backup # NoDirectory
  /\ phase = "copy" /\ writing => dirs.base = <<>>

TrainInv == TrainTypes /\ PhaseInv /\ GradientInv /\ CheckpointInv /\ BackupInv

-----------------------------------------------------------------------------
(* Training: the steps.                                                      *)

\* The batches are counted across epochs.
LEMMA BatchIsCounted ==
  ASSUME NEW e \in Nat, NEW n \in Nat \ {0}, NEW b \in 0 .. n - 1
  PROVE  ((e * n + b) \div n) + 1 = e + 1 /\ ((e * n + b) % n) + 1 = b + 1
<1>1. (e * n + b) \div n = e
  OBVIOUS
<1>2. (e * n + b) % n = b
  OBVIOUS
<1> QED BY <1>1, <1>2

LEMMA OneEpochMore ==
  ASSUME NEW e \in Nat, NEW n \in Nat \ {0}
  PROVE  e * n \in Nat /\ (e + 1) * n = e * n + n
OBVIOUS

\* A sequence that ends with the first n batches, with the next one behind it.
LEMMA EndsWithOneMore ==
  ASSUME NEW s \in Models, NEW n \in Nat, NEW b, EndsWith(s, n, b),
         NEW x \in Nat \X Nat, x = BatchAt(n + 1, b)
  PROVE  EndsWith(Append(s, x), n + 1, b)
<1> DEFINE t == Append(s, x)
<1>1. Len(s) \in Nat /\ Len(t) = Len(s) + 1 /\ t[Len(s) + 1] = x
      /\ \A i \in 1 .. Len(s) : t[i] = s[i]
  BY DEF Models
<1> HIDE DEF t
<1>2. Len(s) >= n /\ \A k \in 1 .. n : s[Len(s) - n + k] = BatchAt(k, b)
  BY DEF EndsWith
<1>3. ASSUME NEW k \in 1 .. n + 1 PROVE t[Len(t) - (n + 1) + k] = BatchAt(k, b)
  <2>1. CASE k = n + 1
    <3>1. Len(t) - (n + 1) + k = Len(s) + 1
      BY <1>1, <2>1
    <3> QED BY <1>1, <2>1, <3>1
  <2>2. CASE k # n + 1
    <3>1. k \in 1 .. n /\ Len(t) - (n + 1) + k = Len(s) - n + k /\ Len(s) - n + k \in 1 .. Len(s)
      BY <1>1, <1>2, <2>2
    <3> QED BY <1>1, <1>2, <3>1
  <2> QED BY <2>1, <2>2
<1>4. Len(t) >= n + 1
  BY <1>1, <1>2
<1> QED BY <1>3, <1>4 DEF EndsWith, t

\* Behind a model, gradients with one more batch are the model with the gradients
\* and that batch.
LEMMA BatchBehind ==
  ASSUME NEW s \in Models, NEW g \in Models, NEW x \in Nat \X Nat
  PROVE  s \o Append(g, x) = Append(s \o g, x)
<1> DEFINE S == Nat \X Nat
<1>1. s \in Seq(S) /\ g \in Seq(S) /\ x \in S
  BY DEF Models
<1> HIDE DEF S
<1> QED BY <1>1, AppendBehind

LEMMA TrainBatchKeeps ==
  ASSUME TrainInv, TrainBatch
  PROVE  TrainInv'
<1> DEFINE x == <<epoch + 1, batch + 1>>
           n == epoch * batches + batch
<1>0. /\ batches \in Nat \ {0} /\ epoch \in Nat /\ batch \in 0 .. batches - 1 /\ batch \in Nat
      /\ gradient \in Models /\ model \in Models /\ accum \in Nat \ {0}
      /\ batch' = batch + 1 /\ UNCHANGED <<script, batches, accum, phase, epoch, best, scores, dirs, writing, restarts>>
  BY DEF TrainInv, TrainTypes, TrainBatch
<1>1. (IF batch = 0 THEN <<>> ELSE gradient) = gradient
  BY DEF TrainInv, GradientInv
<1>2. x \in Nat \X Nat /\ Append(gradient, x) \in Models /\ model \o Append(gradient, x) \in Models
  BY <1>0 DEF Models
<1>3. IF StepDue(batch + 1) THEN model' = model \o Append(gradient, x) /\ gradient' = <<>>
      ELSE gradient' = Append(gradient, x) /\ model' = model
  BY <1>1 DEF TrainBatch
<1>4. gradient' \in Models /\ model' \in Models
  <2>1. <<>> \in Models
    BY DEF Models
  <2> HIDE DEF x
  <2>2. CASE StepDue(batch + 1)
    BY <1>2, <1>3, <2>1, <2>2
  <2>3. CASE ~StepDue(batch + 1)
    BY <1>0, <1>2, <1>3, <2>3
  <2> QED BY <2>2, <2>3
<1>5. TrainTypes'
  BY <1>0, <1>4 DEF TrainInv, TrainTypes
<1>6. PhaseInv'
  BY <1>0 DEF TrainInv, PhaseInv, TrainBatch
<1>7. model' \o gradient' = Append(model \o gradient, x)
  <2>1. model \o Append(gradient, x) = Append(model \o gradient, x)
    BY <1>0, <1>2, BatchBehind
  <2>2. CASE StepDue(batch + 1)
    <3>1. (model \o Append(gradient, x)) \o <<>> = model \o Append(gradient, x)
      BY <1>2 DEF Models
    <3> QED BY <1>3, <2>1, <2>2, <3>1
  <2>3. CASE ~StepDue(batch + 1)
    BY <1>3, <2>1, <2>3
  <2> QED BY <2>2, <2>3
<1>8. GradientInv'
  <2>1. n \in Nat /\ epoch' * batches' + batch' = n + 1
    BY <1>0
  <2>2. BatchAt(n + 1, batches) = x
    <3>1. BatchAt(n + 1, batches) = <<(n \div batches) + 1, (n % batches) + 1>>
      BY <2>1 DEF BatchAt
    <3>2. (n \div batches) + 1 = epoch + 1 /\ (n % batches) + 1 = batch + 1
      BY <1>0, BatchIsCounted
    <3> QED BY <3>1, <3>2
  <2>3. model \o gradient \in Models /\ EndsWith(model \o gradient, n, batches)
    BY <1>0 DEF TrainInv, GradientInv, Models
  <2> HIDE DEF x, n
  <2>4. EndsWith(Append(model \o gradient, x), n + 1, batches)
    BY <1>2, <2>1, <2>2, <2>3, EndsWithOneMore
  <2>5. EndsWith(model' \o gradient', n + 1, batches')
    BY <1>0, <1>7, <2>4
  <2>6. batch' \in {0, batches'} => gradient' = <<>>
    BY <1>0, <1>3 DEF StepDue
  <2> QED BY <2>1, <2>5, <2>6 DEF GradientInv
<1>9. CheckpointInv'
  <2>1. phase = "train" /\ phase' = "train"
    BY DEF TrainBatch
  <2> QED BY <1>0, <2>1 DEF TrainInv, CheckpointInv, IsLastBest
<1>10. BackupInv'
  BY <1>0 DEF TrainInv, BackupInv
<1> QED BY <1>5, <1>6, <1>8, <1>9, <1>10 DEF TrainInv

LEMMA EndEpochKeeps ==
  ASSUME TrainInv, EndEpoch
  PROVE  TrainInv'
<1>0. /\ batches \in Nat \ {0} /\ epoch \in Nat /\ batch = batches /\ phase = "train"
      /\ batch' = 0 /\ epoch' = epoch + 1
      /\ phase' = IF script # "residual" THEN "validate" ELSE IF epoch' = Epochs THEN "copy" ELSE "train"
      /\ UNCHANGED <<script, batches, accum, gradient, model, best, scores, dirs, writing, restarts>>
  BY DEF TrainInv, TrainTypes, EndEpoch
<1>1. TrainTypes'
  BY <1>0 DEF TrainInv, TrainTypes
<1>2. PhaseInv'
  BY <1>0 DEF TrainInv, PhaseInv
<1>3. GradientInv'
  <2>1. epoch' * batches' + batch' = epoch * batches + batch
    <3>1. epoch * batches \in Nat /\ (epoch + 1) * batches = epoch * batches + batches
      BY <1>0, OneEpochMore
    <3> QED BY <1>0, <3>1
  <2>2. gradient = <<>>
    BY <1>0 DEF TrainInv, GradientInv
  <2> QED BY <1>0, <2>1, <2>2 DEF TrainInv, GradientInv
<1>4. CheckpointInv'
  BY <1>0 DEF TrainInv, CheckpointInv, IsLastBest
<1>5. BackupInv'
  BY <1>0 DEF TrainInv, BackupInv, PhaseInv
<1> QED BY <1>1, <1>2, <1>3, <1>4, <1>5 DEF TrainInv

\* A distillation saves an epoch that is at least as good as all before: it is the
\* last best one then.
LEMMA ValidateKeeps ==
  ASSUME TrainInv, Validate
  PROVE  TrainInv'
<1>0. PICK acc \in Accuracies :
        /\ scores' = Append(scores, [acc |-> acc, model |-> model])
        /\ IF script = "distill" /\ acc >= best
           THEN best' = acc /\ phase' = "save"
           ELSE phase' = AfterEpoch /\ UNCHANGED best
  BY DEF Validate
<1>1. /\ phase = "validate" /\ script # "residual" /\ acc \in Nat /\ best \in Nat /\ model \in Models
      /\ scores \in Seq([acc : Nat, model : Models])
      /\ UNCHANGED <<script, batches, accum, epoch, batch, gradient, model, dirs, writing, restarts>>
  BY TrainingAssumption DEF TrainInv, TrainTypes, PhaseInv, Validate
<1>2. AfterEpoch \in {"train", "done", "save"} /\ (script = "distill" => AfterEpoch # "save")
  BY DEF AfterEpoch
<1>3. TrainTypes'
  BY <1>0, <1>1 DEF TrainInv, TrainTypes
<1>4. PhaseInv'
  BY <1>0, <1>1, <1>2 DEF TrainInv, PhaseInv
<1>5. GradientInv'
  BY <1>1 DEF TrainInv, GradientInv
<1>6. BackupInv'
  BY <1>0, <1>1, <1>2 DEF TrainInv, BackupInv
<1>7. CheckpointInv'
  <2> SUFFICES ASSUME script = "distill"
               PROVE  /\ scores' # <<>>
                      /\ IF phase' = "save" THEN IsLastBest(Len(scores))' /\ model' = scores'[Len(scores')].model
                         ELSE \E i \in DOMAIN scores' : IsLastBest(i)' /\ dirs'.output = scores'[i].model
    BY <1>1 DEF CheckpointInv
  <2> DEFINE n == Len(scores)
         r == [acc |-> acc, model |-> model]
  <2>1. /\ n \in Nat /\ Len(scores') = n + 1 /\ DOMAIN scores = 1 .. n /\ DOMAIN scores' = 1 .. n + 1
        /\ scores'[n + 1] = [acc |-> acc, model |-> model]
        /\ \A j \in 1 .. n : scores'[j] = scores[j] /\ scores[j].acc \in Nat
    <3>1. r \in [acc : Nat, model : Models] /\ scores' = Append(scores, r)
      BY <1>0, <1>1
    <3>2. ASSUME NEW j \in 1 .. n PROVE scores[j].acc \in Nat
      <4>1. scores[j] \in [acc : Nat, model : Models]
        BY <1>1, ElementOfSeq, Zenon
      <4> QED BY <4>1
    <3> HIDE DEF r
    <3>3. /\ n \in Nat /\ Len(scores') = n + 1 /\ DOMAIN scores = 1 .. n /\ DOMAIN scores' = 1 .. n + 1
          /\ scores'[n + 1] = r /\ \A j \in 1 .. n : scores'[j] = scores[j]
      BY <1>1, <3>1
    <3> QED BY <3>2, <3>3 DEF r
  <2>2. n # 0 => \E i \in 1 .. n : IsLastBest(i) /\ dirs.output = scores[i].model
    <3>1. n # 0 => scores # <<>>
      BY <1>1
    <3> QED BY <1>1, <2>1, <3>1 DEF TrainInv, CheckpointInv
  <2> HIDE DEF n, r
  <2>3. \A j \in 1 .. n : scores[j].acc <= best
    BY <2>1, <2>2 DEF IsLastBest
  <2>4. CASE acc >= best
    <3>1. best' = acc /\ phase' = "save"
      BY <1>0, <2>4
    <3>2. scores'[n + 1].acc = best' /\ scores'[n + 1].model = model'
      BY <1>1, <2>1, <3>1
    <3>3. ASSUME NEW j \in 1 .. n + 1 PROVE scores'[j].acc <= best' /\ ~(j > n + 1)
      <4>1. CASE j = n + 1
        BY <1>1, <2>1, <3>1, <3>2, <4>1
      <4>2. CASE j # n + 1
        <5>1. j \in 1 .. n
          BY <2>1, <4>2
        <5>2. scores'[j].acc = scores[j].acc /\ scores[j].acc \in Nat /\ scores[j].acc <= best
          BY <2>1, <2>3, <5>1
        <5> QED BY <1>1, <2>1, <2>4, <3>1, <5>1, <5>2
      <4> QED BY <4>1, <4>2
    <3> QED BY <2>1, <3>1, <3>2, <3>3 DEF IsLastBest
  <2>5. CASE ~(acc >= best)
    <3>1. best' = best /\ phase' # "save" /\ acc < best
      BY <1>0, <1>1, <1>2, <2>5
    <3>2. n # 0
      <4>1. n = 0 => scores = <<>>
        BY <1>1, <2>1
      <4> QED BY <1>1, <3>1, <4>1 DEF TrainInv, CheckpointInv
    <3>3. PICK i \in 1 .. n : IsLastBest(i) /\ dirs.output = scores[i].model
      BY <2>2, <3>2
    <3>4. scores'[i].acc = best' /\ dirs'.output = scores'[i].model /\ i \in 1 .. n + 1
      BY <1>1, <2>1, <3>1, <3>3 DEF IsLastBest
    <3>5. ASSUME NEW j \in 1 .. n + 1 PROVE scores'[j].acc <= best' /\ (j > i => scores'[j].acc < best')
      <4>1. CASE j = n + 1
        BY <1>1, <2>1, <3>1, <4>1
      <4>2. CASE j # n + 1
        <5>1. j \in 1 .. n
          BY <2>1, <4>2
        <5> QED BY <2>1, <3>1, <3>3, <5>1 DEF IsLastBest
      <4> QED BY <4>1, <4>2
    <3> QED BY <2>1, <3>1, <3>4, <3>5 DEF IsLastBest
  <2>6. scores' # <<>>
    BY <2>1
  <2> QED BY <2>4, <2>5, <2>6
<1> QED BY <1>3, <1>4, <1>5, <1>6, <1>7 DEF TrainInv

\* Both steps of writing a directory with what belongs there.
LEMMA WriteTypes ==
  ASSUME TrainTypes, NEW d \in {"base", "backup", "output", "merged"}, NEW content, NEW next,
         content \in Models, d = "backup" => content = <<>>, Write(d, content, next)
  PROVE  /\ TrainTypes'
         /\ dirs'[d] = IF writing THEN content ELSE HalfWritten
         /\ dirs'.base = IF d = "base" THEN dirs'[d] ELSE dirs.base
         /\ dirs'.backup = IF d = "backup" THEN dirs'[d] ELSE dirs.backup
         /\ dirs'.output = IF d = "output" THEN dirs'[d] ELSE dirs.output
<1>1. /\ dirs' = [dirs EXCEPT ![d] = IF writing THEN content ELSE HalfWritten]
      /\ writing' = ~writing
      /\ UNCHANGED <<script, batches, accum, epoch, batch, gradient, model, best, scores, restarts>>
  BY DEF Write
<1>2. dirs' \in [base : Models \cup {HalfWritten}, backup : {<<>>, NoDirectory, HalfWritten},
                 output : Models \cup {NoDirectory, HalfWritten}, merged : Models \cup {NoDirectory, HalfWritten}]
  BY <1>1 DEF TrainTypes
<1>3. TrainTypes'
  BY <1>1, <1>2 DEF TrainTypes
<1> QED BY <1>1, <1>3 DEF TrainTypes

LEMMA SaveKeeps ==
  ASSUME TrainInv, Save
  PROVE  TrainInv'
<1> DEFINE d == IF script = "residual" THEN "base" ELSE "output"
           next == IF script = "distill" THEN AfterEpoch ELSE IF script = "ruri" THEN "merge" ELSE "done"
<1>1. phase = "save" /\ Write(d, model, next)
  BY DEF Save
<1>2. d \in {"base", "backup", "output", "merged"} /\ d # "backup" /\ model \in Models /\ TrainTypes
  BY DEF TrainInv, TrainTypes
<1>3. /\ next \in {"train", "save", "merge", "done"}
      /\ (script = "distill" => next \in {"train", "done"}) /\ (next = "merge" => script = "ruri")
      /\ next = "save" => script # "residual" /\ script # "distill"
  BY DEF AfterEpoch
<1>4. d = "base" <=> script = "residual"
  OBVIOUS
<1>5. d = "output" <=> script # "residual"
  OBVIOUS
<1> HIDE DEF d, next
<1>6. /\ TrainTypes'
      /\ dirs'[d] = IF writing THEN model ELSE HalfWritten
      /\ dirs'.base = IF d = "base" THEN dirs'[d] ELSE dirs.base
      /\ dirs'.backup = IF d = "backup" THEN dirs'[d] ELSE dirs.backup
      /\ dirs'.output = IF d = "output" THEN dirs'[d] ELSE dirs.output
  BY <1>1, <1>2, WriteTypes
<1>7. /\ phase' = IF writing THEN next ELSE phase
      /\ writing' = ~writing
      /\ UNCHANGED <<script, batches, accum, epoch, batch, gradient, model, best, scores, restarts>>
  BY <1>1 DEF Write
<1>8. PhaseInv'
  BY <1>1, <1>3, <1>7 DEF TrainInv, PhaseInv, TrainTypes
<1>9. GradientInv'
  BY <1>7 DEF TrainInv, GradientInv
<1>10. CheckpointInv'
  <2> SUFFICES ASSUME script = "distill" PROVE CheckpointInv'
    BY <1>7 DEF CheckpointInv
  <2>1. scores # <<>> /\ IsLastBest(Len(scores)) /\ model = scores[Len(scores)].model
    BY <1>1 DEF TrainInv, CheckpointInv
  <2>2. CASE ~writing
    <3>1. phase' = "save"
      BY <1>1, <1>7, <2>2
    <3> QED BY <1>7, <2>1, <3>1 DEF CheckpointInv, IsLastBest
  <2>3. CASE writing
    <3>1. phase' # "save" /\ dirs'.output = model
      BY <1>3, <1>5, <1>6, <1>7, <2>3
    <3>2. Len(scores) \in DOMAIN scores
      <4>1. scores \in Seq([acc : Nat, model : Models]) /\ Len(scores) \in Nat /\ DOMAIN scores = 1 .. Len(scores)
        BY <1>2 DEF TrainTypes
      <4>2. Len(scores) # 0
        BY <2>1, <4>1, EmptySeq
      <4> QED BY <4>1, <4>2
    <3> QED BY <1>7, <2>1, <3>1, <3>2 DEF CheckpointInv, IsLastBest
  <2> QED BY <2>2, <2>3
<1>11. BackupInv'
  <2>1. dirs'.backup = dirs.backup
    BY <1>2, <1>6
  <2>2. CASE script = "residual"
    BY <1>1, <1>3, <1>7, <2>1, <2>2 DEF TrainInv, BackupInv
  <2>3. CASE script # "residual"
    <3>1. dirs'.base = dirs.base /\ phase' # "copy"
      BY <1>1, <1>3, <1>4, <1>6, <1>7, <2>3
    <3> QED BY <1>7, <2>1, <2>3, <3>1 DEF TrainInv, BackupInv
  <2> QED BY <2>2, <2>3
<1> QED BY <1>6, <1>8, <1>9, <1>10, <1>11 DEF TrainInv

LEMMA MergeKeeps ==
  ASSUME TrainInv, Merge
  PROVE  TrainInv'
<1>1. phase = "merge" /\ Write("merged", model, "done") /\ model \in Models /\ TrainTypes
  BY DEF Merge, TrainInv, TrainTypes
<1>2. TrainTypes' /\ dirs'.base = dirs.base /\ dirs'.backup = dirs.backup /\ dirs'.output = dirs.output
  BY <1>1, WriteTypes
<1>3. /\ phase' \in {"merge", "done"} /\ (phase' = "done" => writing) /\ writing' = ~writing
      /\ UNCHANGED <<script, batches, accum, epoch, batch, gradient, model, best, scores, restarts>>
  BY <1>1 DEF Write
<1>4. script = "ruri" /\ batch = 0
  BY <1>1 DEF TrainInv, PhaseInv
<1>5. PhaseInv'
  BY <1>1, <1>3, <1>4 DEF TrainInv, PhaseInv, TrainTypes
<1>6. GradientInv'
  BY <1>3 DEF TrainInv, GradientInv
<1>7. CheckpointInv'
  BY <1>3, <1>4 DEF CheckpointInv
<1>8. BackupInv'
  BY <1>2, <1>3, <1>4 DEF TrainInv, BackupInv
<1> QED BY <1>2, <1>5, <1>6, <1>7, <1>8 DEF TrainInv

\* What is copied is the base before any training.
LEMMA BackupKeeps ==
  ASSUME TrainInv, Backup
  PROVE  TrainInv'
<1>1. phase = "copy" /\ script = "residual" /\ batch = 0 /\ TrainTypes
  BY DEF Backup, TrainInv, PhaseInv
<1>2. CASE writing \/ dirs.backup = NoDirectory
  <2>1. dirs.base = <<>>
    BY <1>1, <1>2 DEF TrainInv, BackupInv
  <2>2. Write("backup", <<>>, "save") /\ <<>> \in Models
    BY <1>2, <2>1 DEF Backup, Models
  <2>3. /\ TrainTypes' /\ dirs'.base = <<>> /\ dirs'.output = dirs.output
        /\ dirs'.backup = IF writing THEN <<>> ELSE HalfWritten
    BY <1>1, <2>1, <2>2, WriteTypes
  <2>4. /\ phase' = (IF writing THEN "save" ELSE "copy") /\ writing' = ~writing
        /\ UNCHANGED <<script, batches, accum, epoch, batch, gradient, model, best, scores, restarts>>
    BY <1>1, <2>2 DEF Write
  <2>5. PhaseInv'
    BY <1>1, <2>4 DEF TrainInv, PhaseInv, TrainTypes
  <2>6. GradientInv'
    BY <2>4 DEF TrainInv, GradientInv
  <2>7. CheckpointInv'
    BY <1>1, <2>4 DEF CheckpointInv
  <2>8. BackupInv'
    BY <1>1, <2>3, <2>4, TrainingAssumption DEF BackupInv
  <2> QED BY <2>3, <2>5, <2>6, <2>7, <2>8 DEF TrainInv
<1>3. CASE ~writing /\ dirs.backup # NoDirectory
  <2>1. phase' = "save" /\ UNCHANGED <<script, batches, accum, epoch, batch, gradient, model, best, scores, dirs, writing, restarts>>
    BY <1>3 DEF Backup
  <2>2. TrainTypes' /\ PhaseInv' /\ GradientInv'
    BY <1>1, <1>3, <2>1 DEF TrainInv, TrainTypes, PhaseInv, GradientInv
  <2>3. CheckpointInv' /\ BackupInv'
    BY <1>1, <1>3, <2>1 DEF TrainInv, CheckpointInv, BackupInv
  <2> QED BY <2>2, <2>3 DEF TrainInv
<1> QED BY <1>2, <1>3

\* Nothing has been trained when a script begins.
LEMMA NothingTrained ==
  ASSUME NEW s \in Models, NEW b \in Nat
  PROVE  EndsWith(s \o <<>>, 0 * b + 0, b)
<1>1. 0 * b + 0 = 0 /\ Len(s \o <<>>) \in Nat
  BY DEF Models
<1> QED BY <1>1 DEF EndsWith

LEMMA RestartKeeps ==
  ASSUME TrainInv, Restart
  PROVE  TrainInv'
<1>1. /\ phase' = "train" /\ epoch' = 0 /\ batch' = 0 /\ gradient' = <<>> /\ best' = 0 /\ scores' = <<>>
      /\ writing' = FALSE /\ UNCHANGED <<script, batches, accum, dirs>>
  BY DEF Restart
<1>2. model' \in Models /\ <<>> \in Models
  <2>1. Mixture \in Models /\ <<>> \in Models
    BY DEF Mixture, Models
  <2>2. Loaded(dirs.base) \in Models
    BY <2>1 DEF Loaded, TrainInv, TrainTypes
  <2> QED BY <2>1, <2>2 DEF Restart
<1>3. TrainTypes'
  <2>1. <<>> \in Seq([acc : Nat, model : Models])
    BY EmptySeq, Zenon
  <2>2. TrainTypes
    BY DEF TrainInv
  <2>3. batches' \in Nat \ {0} /\ accum' \in Nat \ {0} /\ epoch' \in Nat /\ batch' \in 0 .. batches'
    BY <1>1, <2>2 DEF TrainTypes
  <2>4. scores' \in Seq([acc : Nat, model : Models]) /\ best' \in Nat /\ writing' \in BOOLEAN
        /\ gradient' \in Models
    BY <1>1, <1>2, <2>1
  <2> QED BY <1>1, <1>2, <2>2, <2>3, <2>4 DEF TrainTypes
<1>4. PhaseInv' /\ CheckpointInv' /\ BackupInv'
  BY <1>1 DEF TrainInv, PhaseInv, CheckpointInv, BackupInv
<1>5. GradientInv'
  <2>1. EndsWith(model' \o <<>>, 0 * batches + 0, batches)
    BY <1>2, NothingTrained DEF TrainInv, TrainTypes
  <2> QED BY <1>1, <2>1 DEF GradientInv
<1> QED BY <1>3, <1>4, <1>5 DEF TrainInv

-----------------------------------------------------------------------------
(* Training: the theorem.                                                    *)

LEMMA TrainInvHolds == TrainSpec => []TrainInv
<1>1. ASSUME TrainInit PROVE TrainInv
  <2>1. TrainTypes
    <3>1. <<>> \in Seq([acc : Nat, model : Models]) /\ <<>> \in Models
      BY EmptySeq, Zenon DEF Models
    <3>2. batches \in Nat \ {0} /\ accum \in Nat \ {0} /\ epoch \in Nat /\ batch \in 0 .. batches
      BY <1>1, TrainingAssumption DEF TrainInit
    <3>3. scores \in Seq([acc : Nat, model : Models]) /\ best \in Nat /\ writing \in BOOLEAN
          /\ gradient \in Models /\ model \in Models
      BY <1>1, <3>1 DEF TrainInit
    <3>4. dirs \in [base : Models \cup {HalfWritten}, backup : {<<>>, NoDirectory, HalfWritten},
                    output : Models \cup {NoDirectory, HalfWritten}, merged : Models \cup {NoDirectory, HalfWritten}]
      BY <1>1, <3>1 DEF TrainInit
    <3> QED BY <3>2, <3>3, <3>4 DEF TrainTypes
  <2>2. PhaseInv /\ CheckpointInv /\ BackupInv
    BY <1>1 DEF TrainInit, PhaseInv, CheckpointInv, BackupInv
  <2>3. EndsWith(model \o <<>>, 0 * batches + 0, batches)
    BY <2>1, NothingTrained DEF TrainTypes
  <2>4. GradientInv
    BY <1>1, <2>3 DEF TrainInit, GradientInv
  <2> QED BY <2>1, <2>2, <2>4 DEF TrainInv
<1>2. ASSUME TrainInv, [TrainNext]_trainVars PROVE TrainInv'
  <2>1. CASE UNCHANGED trainVars
    BY <1>2, <2>1 DEF trainVars, TrainInv, TrainTypes, PhaseInv, GradientInv, CheckpointInv, IsLastBest, BackupInv
  <2>2. CASE TrainNext
    BY <1>2, <2>2, TrainBatchKeeps, EndEpochKeeps, ValidateKeeps, SaveKeeps, MergeKeeps, BackupKeeps, RestartKeeps
       DEF TrainNext
  <2> QED BY <1>2, <2>1, <2>2
<1> QED BY <1>1, <1>2, PTL DEF TrainSpec

\* For any numbers of batches, epochs and accumulated steps, any accuracies and any
\* ends and restarts: no gradient is dropped, the checkpoint is the last of the best
\* epochs, the backup is the original (distill_ruri.py:177-304,
\* train_70m_residual_lora.py:138-198, train_ruri_lora.py:163-211).
THEOREM TrainingIsSound == TrainSpec => []TrainingSound
<1>1. ASSUME TrainInv PROVE GradientsApplied
  <2> SUFFICES ASSUME batch = 0
               PROVE  /\ Len(model) >= epoch * batches
                      /\ SubSeq(model, Len(model) - epoch * batches + 1, Len(model)) = AllBatches(epoch)
    BY DEF GradientsApplied
  <2> DEFINE n == epoch * batches
             m == Len(model)
  <2>1. epoch \in Nat /\ batches \in Nat \ {0} /\ model \in Models
    BY <1>1 DEF TrainInv, TrainTypes
  <2>2. n \in Nat /\ epoch * batches + batch = n /\ m \in Nat
    BY <2>1 DEF Models
  <2>3. model \o gradient = model
    BY <1>1, <2>1 DEF TrainInv, GradientInv, Models
  <2>4. EndsWith(model, n, batches)
    BY <1>1, <2>2, <2>3 DEF TrainInv, GradientInv
  <2>5. AllBatches(epoch) = [k \in 1 .. n |-> BatchAt(k, batches)]
    BY DEF AllBatches, BatchAt
  <2> HIDE DEF n
  <2>6. m >= n /\ \A k \in 1 .. n : model[m - n + k] = BatchAt(k, batches)
    BY <2>4 DEF EndsWith
  <2>7. /\ SubSeq(model, m - n + 1, m) = [k \in 1 .. n |-> SubSeq(model, m - n + 1, m)[k]]
        /\ \A k \in 1 .. n : SubSeq(model, m - n + 1, m)[k] = model[m - n + k]
    <3> DEFINE from == m - n + 1
               s == SubSeq(model, from, m)
    <3>1. from \in Int /\ m \in Int /\ m - from + 1 = n /\ (from <= m <=> n # 0) /\ from \in 1 .. m + 1
      BY <2>2, <2>6
    <3> HIDE DEF from
    <3>2. \A i \in from .. m : model[i] \in Nat \X Nat
      BY <2>1, <2>2, <3>1 DEF Models
    <3>3. s \in Seq(Nat \X Nat) /\ Len(s) = (IF from <= m THEN m - from + 1 ELSE 0)
          /\ \A i \in 1 .. m - from + 1 : s[i] = model[from + i - 1]
      <4> HIDE DEF n, m
      <4> QED BY <3>1, <3>2, SubSeqProperties
    <3> HIDE DEF s
    <3>4. Len(s) = n
      BY <2>2, <3>1, <3>3
    <3>5. s = [k \in 1 .. n |-> s[k]]
      BY <3>3, <3>4
    <3>6. \A k \in 1 .. n : s[k] = model[m - n + k]
      <4> SUFFICES ASSUME NEW k \in 1 .. n PROVE s[k] = model[m - n + k]
        OBVIOUS
      <4>1. from + k - 1 = m - n + k
        BY <2>2 DEF from
      <4> QED BY <3>1, <3>3, <4>1
    <3> QED BY <3>5, <3>6 DEF s, from
  <2>8. SubSeq(model, m - n + 1, m) = AllBatches(epoch)
    BY <2>5, <2>6, <2>7
  <2> QED BY <2>6, <2>8 DEF n
<1>2. ASSUME TrainInv PROVE CheckpointIsBest
  BY <1>2 DEF TrainInv, CheckpointInv, CheckpointIsBest, IsLastBest
<1>3. ASSUME TrainInv PROVE BackupIsOriginal
  BY <1>3 DEF TrainInv, TrainTypes, BackupInv, BackupIsOriginal
<1>4. TrainInv => TrainingSound
  BY <1>1, <1>2, <1>3 DEF TrainingSound
<1> QED BY <1>4, TrainInvHolds, PTL
=============================================================================
