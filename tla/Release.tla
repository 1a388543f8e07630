------------------------------ MODULE Release ------------------------------
(***************************************************************************)
(* The release build on a developer's machine (src/scripts/build-release.  *)
(* ps1 and what it calls): it patches a checkout of Mozc that stays from   *)
(* one run to the next, collects the runtime, makes the MSI, extracts and  *)
(* validates it and writes its checksum.  Any step may fail and the run    *)
(* may be ended anywhere; then somebody starts it again.                   *)
(***************************************************************************)
EXTENDS Integers, SequencesExt

CONSTANTS
  Versions,         \* product versions, sequences of numbers
  Labels,
  FileSets,         \* sets of files that PyInstaller may collect, each a path
  Required,         \* names that the extracted image must have
  MaxRuns,          \* bound: runs of the script
  Nothing           \* what was not built yet

\* Paths are not empty, and no more is asked of them.
ASSUME ReleaseAssumption == \A files \in FileSets : \A f \in files : f \in Seq(STRING) \ {<<>>}

VARIABLES
  pc,               \* the step that is next; "idle" between two runs
  args,             \* YAMATANA_PRODUCT_VERSION and YAMATANA_RELEASE_LABEL
  tip,              \* tip_surrounding_text.cc: "upstream", "patched", "cut"
  window_cc,        \* candidate_window.cc: how often each edit was made, or Truncated
  badge,            \* ai_rewriter.cc: "none" (not there), "overlay", "badge", "cut"
  binaries,         \* the window source that Mozc was last built from
  dist,             \* the runtime
  msis,             \* the MSI files by label
  admin,            \* paths below build\admin-image
  sums,             \* SHA256SUMS.txt: whose checksum
  runs

releaseVars == <<pc, args, tip, window_cc, badge, binaries, dist, msis, admin, sums, runs>>
sources == <<tip, window_cc, badge>>
products == <<binaries, dist, msis, admin, sums>>

Edits == 1 .. 6
EditSteps == <<"edit1", "edit2", "edit3", "edit4", "edit5", "edit6", "badge">>

Truncated == <<>>

\* A checkout as cloned; nothing is built.
ReleaseInit ==
  /\ pc = "idle" /\ args = Nothing /\ runs = 0
  /\ tip = "upstream" /\ window_cc = [e \in Edits |-> 0] /\ badge = "none"
  /\ binaries = Nothing /\ dist = Nothing /\ msis = [l \in Labels |-> Nothing]
  /\ admin = {} /\ sums = Nothing

-----------------------------------------------------------------------------
(* release_version.py.                                                       *)

\* parse_product_version.
Valid(v) ==
  /\ Len(v) = 4
  /\ v[1] <= 255 /\ v[2] <= 255 /\ v[3] <= 65535 /\ v[4] <= 65535

-----------------------------------------------------------------------------
(* The fragment of the MSI for the runtime (build_ai_msi.py).                *)

\* Seeded bug: only the directories that hold files.
FileDirectories(files) == {Front(f) : f \in files} \ {<<>>}

\* Directories: those of the files with everything above them.
Directories(files) == UNION {{SubSeq(f, 1, n) : n \in 1 .. Len(f) - 1} : f \in files}

\* emit_directories: each directory stands within the one above it, if that stands.
Emitted(files) == {d \in Directories(files) : \A n \in 1 .. Len(d) : SubSeq(d, 1, n) \in Directories(files)}

\* Where a component puts its file; WiX refuses a directory that was not emitted.
Installed(files) == {f \in files : Len(f) = 1 \/ Front(f) \in Emitted(files)}

-----------------------------------------------------------------------------
(* A run.                                                                    *)

At(step, next) == pc = step /\ pc' = next

StartRelease(version, label) ==
  /\ At("idle", "runtime")
  /\ runs < MaxRuns
  /\ runs' = runs + 1
  /\ args' = [version |-> version, label |-> label]
  /\ UNCHANGED <<sources, products>>

\* A failing step throws, and so ends the run; Ctrl+C ends it as well.
Abort ==
  /\ pc # "idle"
  /\ pc' = "idle"
  /\ UNCHANGED <<args, sources, products, runs>>

\* PyInstaller writes the version of args into the executable.  It removes the old
\* runtime before, so that a failure may leave none.
BuildRuntime ==
  /\ pc = "runtime" /\ Valid(args.version)
  /\ \/ At("runtime", "overlay") /\ \E files \in FileSets : dist' = [version |-> args.version, files |-> files]
     \/ At("runtime", "idle") /\ dist' = Nothing
  /\ UNCHANGED <<args, sources, binaries, msis, admin, sums, runs>>

\* prepare_mozc_source.ps1 copies the overlay over the checkout; a copy that is
\* ended leaves the file cut.
CopyOverlay ==
  /\ \/ At("overlay", "tip") /\ badge' = "overlay"
     \/ At("overlay", "idle") /\ badge' = "cut"
  /\ UNCHANGED <<args, tip, window_cc, products, runs>>

\* patch_checkout: nothing to do for a patched file, an error for any but the
\* upstream one.  A run that is ended while it writes leaves the file cut.
PatchTip ==
  /\ \/ At("tip", "edit1") /\ tip = "patched" /\ UNCHANGED tip
     \/ At("tip", "edit1") /\ tip = "upstream" /\ tip' = "patched"
     \/ At("tip", "idle") /\ tip = "upstream" /\ tip' = "cut"
  /\ UNCHANGED <<args, window_cc, badge, products, runs>>

\* The old text of the first three edits is part of the new one and is found again.
Matches(e) ==
  IF window_cc = Truncated THEN 0 ELSE IF e \in {1, 2, 3} \/ window_cc[e] = 0 THEN 1 ELSE 0

\* patch_candidate_window: six times replace_once, each reads and writes the file.
\* The edits made so far are those of this run and of the ones before.
PatchWindow(e) ==
  /\ Matches(e) = 1
  /\ \/ At(EditSteps[e], EditSteps[e + 1]) /\ window_cc' = [window_cc EXCEPT ![e] = @ + 1]
     \/ At(EditSteps[e], "idle") /\ window_cc' = Truncated
  /\ UNCHANGED <<args, tip, badge, products, runs>>

\* patch_ai_rewriter: the overlay has put the file there again.
PatchRewriter ==
  /\ \/ At("badge", "compile") /\ badge' = "badge"
     \/ At("badge", "idle") /\ badge' = "cut"
  /\ UNCHANGED <<args, tip, window_cc, products, runs>>

\* The first two edits define constants and functions, of which C++ takes one each.
Compiles == tip # "cut" /\ window_cc # Truncated /\ window_cc[1] <= 1 /\ window_cc[2] <= 1

Compile ==
  /\ At("compile", "msi")
  /\ Compiles
  /\ binaries' = window_cc
  /\ UNCHANGED <<args, sources, dist, msis, admin, sums, runs>>

Msi(version) == [version |-> version, exe |-> dist.version, files |-> Installed(dist.files), window |-> binaries]

\* build_msi: the files of the runtime with the newest outputs of Bazel.
BuildMsi ==
  /\ At("msi", "admin")
  /\ dist # Nothing
  /\ msis' = [msis EXCEPT ![args.label] = Msi(args.version)]
  /\ UNCHANGED <<args, sources, binaries, dist, admin, sums, runs>>

\* build_ai_msi.py started by hand, with the version that the shell has.
BuildMsiByHand(version, label) ==
  /\ pc = "idle"
  /\ dist # Nothing /\ binaries # Nothing
  /\ msis' = [msis EXCEPT ![label] = Msi(version)]
  /\ UNCHANGED <<pc, args, sources, binaries, dist, admin, sums, runs>>

\* msiexec /a over what earlier images left.
Extract ==
  /\ At("admin", "validate")
  /\ admin' = admin \cup msis[args.label].files
  /\ UNCHANGED <<args, sources, binaries, dist, msis, sums, runs>>

\* validate_distribution.py.
ValidateImage ==
  /\ At("validate", "sums")
  /\ LET msi == msis[args.label]
     IN  msi.version = args.version /\ msi.exe = args.version
  /\ Required \subseteq {Last(f) : f \in admin}
  /\ UNCHANGED <<args, sources, products, runs>>

WriteSums ==
  /\ At("sums", "idle")
  /\ sums' = [label |-> args.label, msi |-> msis[args.label]]
  /\ UNCHANGED <<args, sources, binaries, dist, msis, admin, runs>>

ReleaseNext ==
  \/ \E v \in Versions, l \in Labels : StartRelease(v, l) \/ BuildMsiByHand(v, l)
  \/ Abort \/ BuildRuntime \/ CopyOverlay \/ PatchTip \/ PatchRewriter \/ Compile
  \/ \E e \in Edits : PatchWindow(e)
  \/ BuildMsi \/ Extract \/ ValidateImage \/ WriteSums

ReleaseSpec == ReleaseInit /\ [][ReleaseNext]_releaseVars

-----------------------------------------------------------------------------
(* Properties.                                                               *)

\* The MSI whose checksum is published has one version, a valid one, in its
\* properties and its executable, whatever runs failed before and whatever was made
\* by hand (build-release.ps1:12-16, validate_distribution.py:49-57).
VersionsAgree == sums # Nothing => Valid(sums.msi.version) /\ sums.msi.exe = sums.msi.version

\* It was built from a window source with every edit exactly once: a checkout that
\* an ended run left half patched never gets that far (modernize_mozc_ui.py:7-14).
PatchedOnce == sums # Nothing => sums.msi.window = [e \in Edits |-> 1]

\* Every file of the runtime is installed where it was collected
\* (build_ai_msi.py:71-148).
NothingLeftOut == \A l \in Labels : msis[l] # Nothing => msis[l].files \in FileSets

ReleaseSound == VersionsAgree /\ PatchedOnce /\ NothingLeftOut
=============================================================================
