--------------------------- MODULE SettingsFiles ---------------------------
(***************************************************************************)
(* The two files below %LOCALAPPDATA%\YamatanaAIIME and the processes that *)
(* write them (src/product_settings.py, settings_ui.py, onboarding_ui.py): *)
(* settings windows and first-run guides, of which any number may be open  *)
(* (the mutex of a guide never refuses one, see README.md), and the tray,  *)
(* whose start migrates the autostart entry of old installations.  Every   *)
(* writer fills a temporary file and renames it; any of them may be ended, *)
(* and any file operation may fail.                                        *)
(*                                                                         *)
(* lexical_grounding and compute_mode are handled as ai_autostart is, and  *)
(* left out.                                                               *)
(***************************************************************************)
EXTENDS Naturals, FiniteSets

CONSTANTS
  Windows,          \* processes that show the settings window
  Guides,           \* processes that show the first-run guide
  Tray,             \* the tray process
  Lengths,          \* CONTEXT_LENGTHS
  Texts,            \* instructions a user may type
  Empty,            \* the empty instruction
  Contents,         \* what settings.json may hold at first
  Missing, Cut,     \* no file; the file of a write that has not ended
  Odd,              \* a value of the wrong type
  None,
  MaxEdits,         \* bound: edits of one window between opening and closing it
  MaxStarts         \* bound: processes started

Writers == Windows \cup Guides \cup {Tray}

ASSUME SettingsAssumption ==
  /\ Lengths \subseteq Nat /\ {0, 64} \subseteq Lengths
  /\ Empty \in Texts
  /\ {"settings", "onboarding"} \cap Writers = {}

VARIABLES
  disk,             \* the files by name; a temporary file has its writer's pid
  at,               \* where each process is
  form,             \* the widgets of a settings window
  data,             \* what a process is saving
  edits, starts,    \* counters for the bounds
  runKey            \* the old entry exists in the registry

settingsVars == <<disk, at, form, data, edits, starts, runKey>>

Domains == {"general", "custom"}

DefaultSettings ==
  [autostart |-> FALSE, context |-> TRUE, chars |-> 64, domain |-> "general", text |-> Empty]

AsBool(v, default) == IF v \in BOOLEAN THEN v ELSE default

Distance(m, n) == IF m <= n THEN n - m ELSE m - n

\* min() takes the first of equally near lengths.
Nearest(n) ==
  CHOOSE c \in Lengths : \A d \in Lengths :
     \/ Distance(c, n) < Distance(d, n)
     \/ Distance(c, n) = Distance(d, n) /\ c <= d

Normalize(raw) ==
  [autostart |-> AsBool(raw.autostart, DefaultSettings.autostart),
   context |-> AsBool(raw.context, DefaultSettings.context),
   chars |-> Nearest(IF raw.chars = Odd THEN DefaultSettings.chars ELSE raw.chars),
   domain |-> IF raw.domain \in Domains THEN raw.domain ELSE "general",
   text |-> raw.text]

\* A file that does not exist or does not parse counts as the defaults.
Load(file) == IF file \in {Missing, Cut} THEN DefaultSettings ELSE Normalize(file)

Target(p) == IF p \in Guides THEN "onboarding" ELSE "settings"

\* Seeded bug: one name for all writers of a file.
SharedTempName(p) == CHOOSE q \in Writers : Target(q) = Target(p)

\* The settings are written to a name with the pid, the onboarding state to one
\* of mkstemp: no two processes share it.
TempName(p) == p

SettingsInit ==
  /\ disk \in {[n \in Writers \cup {"settings", "onboarding"} |->
                  CASE n = "settings" -> s [] n = "onboarding" -> o [] OTHER -> Missing] :
                 s \in Contents, o \in {Missing, "seen"}}
  /\ at = [p \in Writers |-> "off"]
  /\ form = [w \in Windows |-> None]
  /\ data = [p \in Writers |-> None]
  /\ edits = [w \in Windows |-> 0]
  /\ starts = 0
  /\ runKey \in BOOLEAN

Begin(p, where) ==
  /\ at[p] = "off"
  /\ starts < MaxStarts
  /\ starts' = starts + 1
  /\ at' = [at EXCEPT ![p] = where]

-----------------------------------------------------------------------------
(* Writing a file, the same for all: open (which empties the file), write    *)
(* and close, rename over the target.                                        *)

BeginWrite(p, d) ==
  /\ data' = [data EXCEPT ![p] = d]
  /\ disk' = [disk EXCEPT ![TempName(p)] = Cut]
  /\ at' = [at EXCEPT ![p] = "cut"]

Fill(p) ==
  /\ at[p] = "cut"
  /\ disk' = [disk EXCEPT ![TempName(p)] = data[p]]
  /\ at' = [at EXCEPT ![p] = "full"]
  /\ UNCHANGED <<form, data, edits, starts, runKey>>

\* A guide closes once its mark is written; a window stays for 650 ms, in which
\* the user may go on.
Rename(p) ==
  /\ at[p] = "full"
  /\ disk[TempName(p)] # Missing
  /\ disk' = [disk EXCEPT ![Target(p)] = disk[TempName(p)], ![TempName(p)] = Missing]
  /\ at' = [at EXCEPT ![p] = IF p \in Windows THEN "open" ELSE IF p = Tray THEN "up" ELSE "off"]
  /\ data' = [data EXCEPT ![p] = None]
  /\ UNCHANGED <<form, edits, starts, runKey>>

\* OSError from any of the calls: a window says so and stays open, a guide
\* removes its temporary file and stays open too, the tray does not catch it.
Fail(p) ==
  /\ at[p] \in {"cut", "full"}
  /\ at' = [at EXCEPT ![p] = IF p = Tray THEN "off" ELSE "open"]
  /\ disk' = IF p \in Guides THEN [disk EXCEPT ![TempName(p)] = Missing] ELSE disk
  /\ data' = [data EXCEPT ![p] = None]
  /\ UNCHANGED <<form, edits, starts, runKey>>

Kill(p) ==
  /\ at[p] # "off"
  /\ at' = [at EXCEPT ![p] = "off"]
  /\ data' = [data EXCEPT ![p] = None]
  /\ form' = [w \in Windows |-> IF w = p THEN None ELSE form[w]]
  /\ UNCHANGED <<disk, edits, starts, runKey>>

-----------------------------------------------------------------------------
(* A settings window.                                                        *)

Open(w) ==
  /\ Begin(w, "open")
  /\ form' = [form EXCEPT ![w] = Load(disk["settings"])]
  /\ edits' = [edits EXCEPT ![w] = 0]
  /\ UNCHANGED <<disk, data, runKey>>

\* The box of lengths shows none that is 0, and is disabled with the context.
Edited(f) ==
  {[f EXCEPT !.autostart = ~@], [f EXCEPT !.context = ~@]}
    \cup {[f EXCEPT !.chars = c] : c \in {n \in Lengths \ {0} : f.context}}
    \cup {[f EXCEPT !.domain = d] : d \in Domains}
    \cup {[f EXCEPT !.text = t] : t \in Texts}

Change(w, f) ==
  /\ at[w] = "open"
  /\ edits[w] < MaxEdits
  /\ form' = [form EXCEPT ![w] = f]
  /\ edits' = [edits EXCEPT ![w] = @ + 1]
  /\ UNCHANGED <<disk, at, data, starts, runKey>>

Edit(w) == at[w] = "open" /\ \E f \in Edited(form[w]) : Change(w, f)

RestoreDefaults(w) == Change(w, DefaultSettings)

Collect(f) == Normalize([f EXCEPT !.chars = IF f.context THEN f.chars ELSE 0])

\* The custom domain without an instruction is refused.
SaveSettings(w) ==
  /\ at[w] = "open"
  /\ LET d == Collect(form[w])
     IN  ~(d.domain = "custom" /\ d.text = Empty) /\ BeginWrite(w, d)
  /\ UNCHANGED <<form, edits, starts, runKey>>

Close(w) ==
  /\ at[w] = "open"
  /\ at' = [at EXCEPT ![w] = "off"]
  /\ form' = [form EXCEPT ![w] = None]
  /\ UNCHANGED <<disk, data, edits, starts, runKey>>

-----------------------------------------------------------------------------
(* A first-run guide.  The tray's menu forces it, its start does not.        *)

ShowGuide(g, force) ==
  /\ force \/ disk["onboarding"] # "seen"
  /\ Begin(g, "open")
  /\ UNCHANGED <<disk, form, data, edits, runKey>>

Finish(g) ==
  /\ at[g] = "open"
  /\ BeginWrite(g, "seen")
  /\ UNCHANGED <<form, edits, starts, runKey>>

-----------------------------------------------------------------------------
(* The tray.                                                                 *)

StartTray ==
  /\ Begin(Tray, IF runKey THEN "migrate" ELSE "up")
  /\ runKey' = FALSE
  /\ UNCHANGED <<disk, form, data, edits>>

Migrate ==
  /\ at[Tray] = "migrate"
  /\ LET s == Load(disk["settings"])
     IN  IF s.autostart
         THEN at' = [at EXCEPT ![Tray] = "up"] /\ UNCHANGED <<disk, data>>
         ELSE BeginWrite(Tray, [s EXCEPT !.autostart = TRUE])
  /\ UNCHANGED <<form, edits, starts, runKey>>

SettingsNext ==
  \/ \E p \in Writers : Fill(p) \/ Rename(p) \/ Fail(p) \/ Kill(p)
  \/ \E w \in Windows : Open(w) \/ Edit(w) \/ RestoreDefaults(w) \/ SaveSettings(w) \/ Close(w)
  \/ \E g \in Guides : (\E force \in BOOLEAN : ShowGuide(g, force)) \/ Finish(g)
  \/ StartTray \/ Migrate

SettingsSpec == SettingsInit /\ [][SettingsNext]_settingsVars

-----------------------------------------------------------------------------
(* Properties.                                                               *)

\* Whatever windows, guides and the tray write at the same time, and wherever
\* one of them fails or is ended, a file changes only from one whole content to
\* another, which is what one process collected (product_settings.py:107-117,
\* onboarding_ui.py:62-75).
SavesAreOwn ==
  [][\A f \in {"settings", "onboarding"} : disk'[f] # disk[f] =>
       \E p \in Writers : Target(p) = f /\ at[p] = "full" /\ disk'[f] = data[p]]_settingsVars

\* The label of the box, settings_ui.py:225, says of the enabled context that it
\* is used for conversion; the ranker uses none when the length is 0.
EnabledContextIsUsed ==
  LET s == Load(disk["settings"]) IN s.context => s.chars > 0
=============================================================================
