# Verification of the Yamatana AI IME

TLA+ modules, TLC configurations and TLAPS proofs for the Yamatana AI IME: the
Mozc rewriter that asks for a new candidate order, the resident ranker process
that gives it, the tray and the windows around it, and the scripts that study,
train and release it. Paths below are relative to the repository (`src/` in
`PROJECT.json`).

## 1. The system

```
 Mozc converter ── AiRewriter ── ai_ranker::Client ══ named pipe ══ ranker.py
 (C++, one thread                 (one pipe per            │ one client at a time
  per conversion)                  request, deadline)      ├── SpeculativeRanker ── backend
 harness ── safe_rank ── windows_pipe.rank_once ═══════════╡   (cache, worker)     (ONNX, Ruri,
                                                           │                        Qwen, rules)
                                                           └── LoadingIndicator (pill, own thread)
 ai_ime_tray.py ── starts / terminates ──────────────▶ the ranker process
   │ watches settings.json ◀── saves ── settings_ui.py, onboarding_ui.py (own processes)
 scripts/: conversion study and calibration, training, release build
```

| component | state | operations | hard behaviour |
|---|---|---|---|
| `ranker/speculative.py` | pending request and its time, LRU cache with time to live, inference lock, condition, worker thread | `rank` with a prefetch, `rank` with an explicit request, `_worker_loop` | callers and worker compete for condition and lock; debounce; look-ups go stale; the model may raise |
| `ranker/ranker.py`, `protocol.py`, `ai_ranker_client.cc`, `client/` | pipe instance, counters of the status file, one handle per request | request loop, validation, counters; open, write, read with a deadline; `safe_rank` | one instance, reads without a timeout, late answers, the gap between two instances, ends of either side |
| `ranker.py` `InteractiveBurstGuard` | first sightings and rankings by key | `rank` | time limits at their boundaries |
| `ai_ime_tray.py` | `state`, `server_proc`, settings signature, `allow_legacy_ranker` | menu, autostart, launch thread, monitor thread, settings watcher | no lock between six kinds of thread; processes end by themselves; the settings change meanwhile |
| `ai_rewriter.cc` | candidate lists of the segments | `Rewrite` (realtime prefetch, conversion), `CheckResizeSegmentsRequest` | failures and the deadline between segments; positions shift with every move; requests depend on earlier results |
| `scoring.py`, `lexicon.py`, the backends | what was loaded | loading, one request | thresholds of five branches; repeated surfaces; one backend rounds before it sorts |
| `product_settings.py`, `settings_ui.py`, `onboarding_ui.py` | two JSON files, a registry value, widgets | load, normalise, save, migrate, mark as seen | several writers, failures and ends between two steps |
| `loading_ui.py` | window, its thread and its queue | start, show, hide, stop | a window that comes late or never; coordinates beside the screen |
| `candidate_supplements.py` | none | numbers, repairs, merge | readings with euphonic changes; order of suffixes |
| `mozc_candidate_pipeline_study.py`, report and calibrations | rows | one row, summaries, report, policies | right to left with late answers; four programs that count the same rows |
| training scripts | model, gradients, directories | epoch, validation, save, backup, merge | last batches, ends while a directory is written, restarts |
| release scripts | checkout, runtime, MSI, image | edits, compile, pack, extract, validate | steps that fail; a checkout edited by an earlier run |

What makes each of them correct:

* *Speculative ranker*: the model runs once at a time; a cached order is the
  model's order for that key and not too old; the cache keeps what was used last;
  no request and no wake-up of the worker is lost; every explicit request is
  answered, soon, as if there were no cache.
* *Pipe*: an answer reaches only the request it was made for; every request
  ends; a broken client does not stop the server; counters count what was sent.
* *Tray*: `loading` ends; ON means that a server runs and OFF that none does;
  a change of the settings reaches the server.
* *Rewriter*: no candidate of Mozc is lost; the ranker's order is the order
  shown; the context the ranker was told is the text the user gets; what was
  prefetched is what the conversion asks.
* *Ranking*: the answer is a permutation in which repeated surfaces keep their
  order, and which follows the score of each candidate's own sentence; the gate
  replaces Mozc's first only on evidence and is monotone.
* *Settings*: a reader sees one writer's file.
* *Pill*: what was shown is hidden again, and lies on the screen.
* *Study*: the context of a call is the text of the row; figures, report and
  calibrations agree with the rows.
* *Training and release*: no gradient is lost, the backup is the original; what
  is published was patched once, has one version and every file in its place.

## 2. Modules

| module | contents |
|---|---|
| `RerankService` | what callers of `SpeculativeRanker.rank()` can rely on: prefetches are answered with the order they came in, explicit requests with the model's order or a failure |
| `SpeculativeRanker` | `ranker/speculative.py`; implements `RerankService` |
| `CacheUse` | `SpeculativeRanker` with a history of the uses of its cache |
| `RequestService` | what a request over the pipe promises: it ends with an order computed for it or with Mozc's order |
| `RankerPipe` | server loop, named pipe, C++ and Python clients, `safe_rank`; implements `RequestService` |
| `Tray` | `ai_ime_tray.py` with its server processes and the settings file |
| `AiRewriter` | `AiRewriter::Rewrite` with the ranker as environment |
| `Scoring` | `scoring.py` and `lexicon.py` as operators |
| `RankerBackends` | loading and one request of each backend; extends `Scoring` |
| `BurstGuard`, `LoadingIndicator`, `SettingsFiles` | `InteractiveBurstGuard`, `loading_ui.py`, the settings files and their writers |
| `Supplements` | `candidate_supplements.py` and the study's way back from a spelling to its number |
| `ConversionStudy` | the study, its report and the two calibrations; extends `Supplements` |
| `Training`, `Release` | the three training scripts; the release build |
| `Ordering` | sorting a finite set, filtering and adding up a sequence, in forms that TLC evaluates and that can be reasoned about; used by the modules that sort, filter or add |
| `OrderingProofs` | induction up to a bound, least numbers, unfolding of recursive functions, what `Listed`, `Kept` and `Total` give |
| `SpeculativeRankerProofs`, `RankerPipeProofs`, `AiRewriterProofs`, `RankerBackendsProofs`, `TrayProofs` | theorems about one component |
| `PartsProofs` | theorems about `BurstGuard`, `LoadingIndicator`, `SettingsFiles`, `Training` and `Release` |
| `StudyProofs` | theorems about `Supplements` and `ConversionStudy` |
| `MC*` | instances for TLC; `MCParts` extends the components that share no state and runs one of them at a time |

Operators called *seeded bug*, and in `SpeculativeRanker`, `Tray`,
`AiRewriter`, `RankerPipe`, `Scoring` and `RankerBackends` the uncommented ones
that stand right before the definition they vary, are used by no action. They
are plausible mistakes; put in the place of the definition they vary, each
breaks one property. `PROJECT.json` lists the pairs under `mutants`.

### SpeculativeRanker

A thread is somewhere in `rank()` (`lookup`, `clear`, `acquire`, `relookup`,
`infer`, `store`) or in `_worker_loop` (`top`, `wait`, `settle`, `recheck`,
`acquire`, `infer`, `store`). A block under `with self._condition` is one
action, because the condition's lock hides its inside; waiting for the
condition, for the inference lock and for the model separates actions. `req`
holds the request as its normalised key (`_key`), and the model's order for a
key is represented by that key: so an order stored or returned under a wrong
key is visible. The `OrderedDict` is a function (`cache`) and the order of its
keys (`lru`).

`CacheUse` adds to it, for each cached key, which other keys have been used since
that key was. A use is read off the threads (a look-up that finds, a store), not
off `lru`, so the history says what a cache of this size and time to live ought
to keep, and `KeepsLastUsed` compares the two.

The clock is kept as ages, so that the state stays finite: of the pending
request, of each cached result, and, for a thread that has read
`time.monotonic()` but has not got the condition yet, of that reading (`lag`).
Ages saturate at the first value the code cannot tell from a larger one.

### RankerPipe

`srv` says where each server process is in `_windows_pipe_server` (`create`,
`connect`, `listen`, `read`, `rank`, `flush`, `close`), `pipe` is the one
instance with what is written in either direction, `stats` the counters of
`RuntimeStatus`, `usr` where each client is. A call that blocks or that another
process can see ends an action. Clients are requests of Mozc, calls of
`safe_rank` (whose pool thread goes on after its deadline), and strangers that
open the pipe with a line of their own or stay silent. Time is not kept: a
deadline may pass whenever its owner waits. Of the text of requests and answers
there is what the two validators look at: whether a line is a request, an array
or broken, and the id and the order of an answer. The server validates an answer
before it sends it, so no answer is malformed; one may be cut by an end. The process may be ended at
every step and started again, also twice for one name.

`Connect` follows what `ctypes` does: `get_last_error()` of a library that was
not loaded with `use_last_error=True` is never the pipe's error.

### Tray

`state`, `serverProc`, `sig`, `allowLegacy` are the attributes of `AIIMETray`.
`pc` gives the place of the icon's thread (`Ui`), of the setup callback, of the
watcher and of each launch thread; `monitor` that of the monitor threads.
`proc` are the server processes with the settings each has read. There is no
lock in this code, so an action ends wherever another thread can see a
difference: after `toggle` has tested the state, after the watcher has, between
the end of the server and the new state, between reading `server_proc` in a
monitor and waiting for it. `_terminate_owned_server` is one action: what can be
seen between its first two assignments and the terminate is seen also after.

A server process is external to the tray: it may end at any time, reads the
settings once, and needs the single instance of the pipe; of two servers the
one that has to create the instance while the other holds it ends
(`ranker.py:390-396`). `WaitNamedPipe` may miss a server that is busy, never
finds one that is not there.

### AiRewriter

A segment has candidates and the surface its reading has in the supplement
table, or none. A behaviour is any number of realtime passes and then one
conversion, on the segments of a chosen input. Each turn of the loop is split
into adding the supplement and selecting (`Supplement`), the deadline
(`OutOfTime`), the request (`Ask`) and its result (`RankFails`,
`RankAnswers`); `ParseResponse` lets through only permutations of the request,
which are the answers considered. `ApplySelectedPermutation` is translated move
by move, because the moves are computed on a list of positions that they
change. Whether there is text around or phrase text inside the candidates
(lines 644-662) is one Boolean of the call.

### Scoring and RankerBackends

A surface is a sequence of characters; the classes of characters, the word
tables and the rules for contexts are constants. Scores are integers, 100000 for
one, fine enough for the rounding to four decimals that the PyTorch backend does
before it sorts and the ONNX backend does not (`Rounded`). The network is a function from surfaces to
scores that is chosen with each request, because in one batch the same pair of
texts gets the same score; a backend that scores each distinct surface once
(`RuriScores`) and one that scores each candidate (`OnnxScores`) are both
translated. `Gate` is `preserve_mozc_top_if_uncertain` with all its branches; the
exponentials of the softmax are a table. The prompts of the two differ (`onnx_ranker.py:201-204`,
`ruri_ranker.py:275-278`), so nothing is said about one backend's order compared
with the other's.

Loading follows each constructor: the ONNX backend ignores `--device`, needs its
tokenizer and falls back to the processor unless the user insists; the PyTorch
one puts `--device` before the settings and looks for the tuned model, but not for
the original, in the working directory too; Qwen looks at `--device` only. Loading
fails when a file is missing or the library refuses.

### The components of MCParts

`part` chooses the component of a behaviour, the others keep their initial
state; so one run checks seven components that share nothing.

* `SettingsFiles`: any number of windows, guides and one tray. A save is three
  actions (open, fill, rename), any of which may fail or be the last of its
  process. `lexical_grounding` and `compute_mode` are handled as `ai_autostart`
  is and left out.
* `LoadingIndicator`: the server's thread, the window's thread, its queue, and
  `_get_target_position` in pixels.
* `BurstGuard`: one caller, a clock in integers. The dictionaries are cleaned by
  interactive requests only.
* `Supplements`: readings are sequences of kana, surfaces of characters.
  `Number` reads a number token by token, `NumericSurfaces` takes the longest
  suffix that leaves a number, `Prepared` collapses the segments that a repair
  reaches into.
* `ConversionStudy` (`StudySpec`; `StudyInit`, `BeginRow`, `RankSegment`,
  `RankJoint`, `FinishRow`, `Report`): a row is ranked segment by segment from right to left
  (`RankSegment`) or at once (`RankJoint`), by a ranker that may choose
  anything, keep Mozc's first, or be late. `Metrics` and `Evaluate` are the two
  calibration scripts.
* `Training`: a model is the sequence of the batches whose gradients were
  applied; directories are written in two steps, between which the script may
  be ended and started again. A base that is half written may fail to load or
  load as a mixture.
* `Release`: the checkout stays from run to run. A file that a step writes is cut
  when the run is ended there. The window source is the number of times each edit
  was made, or truncated.

## 3. Runs

| run | instance | what it checks |
|---|---|---|
| `speculative_threads` | two callers, the worker, two keys, one cache entry, lag 1 | `TypeOK`, `ModelSerialised`, `CacheCoherent`, `AnswerIsFresh`, `NoRepeatedModelCall`, `NoLostWakeup`, and that the ranker implements `RerankService` |
| `speculative_server` | one caller, the worker, three keys, two entries, fairness, with the history of `CacheUse` | `KeepsLastUsed`, `BoundedDelay`, `LeavesQueueInTurn`, `PendingSettles`, the service with liveness |
| `pipe` | two servers, one request each of Mozc and of `safe_rank`, a stranger with an array; fairness | `OwnsInstance`, `CountersAgree`, that the pipe implements `RequestService`, `RequestsEnd`, `ServerComesBack` |
| `pipe_early` | one server, one request | **violated** `EarlyClientIsServed` |
| `tray` | two launches, and a change of the settings, an autostart or a legacy server, failing windows, fairness | `LoadingEnds`, `EndIsNoticed`, `ChangeReachesServer` |
| `tray_saved` | one launch, one save | **violated** `SavedSettingsTakeEffect` |
| `tray_off` | two launches, one save | **violated** `OffMeansStopped` |
| `rewriter` | one or two segments with all kinds of lists, three with short ones, limit 2 + 1 | `NoCandidateLost`, `AnswerIsShown`, `ReturnTellsChange`, `ContextIsFinal`, `RequestsAreChoices`, `PlainPrefetchIsReused` |
| `ranking` | five backends in 27 configurations, thirteen lists, eight contexts, 60 outcomes of the network | `TypeOK`, `RepeatsKeepOrder`, `OrderFollowsScores`, `GateIsMonotone`, `PromotedHasEvidence`, `ContextIsOneSentence` |
| `parts` | the seven components of `MCParts` | `SavesAreOwn`, `PillIsHidden`, `PillOnScreen`, `SpellingsAgree`, `StudySound`, `TrainingSound`, `ReleaseSound`, `RunsAreApart` |
| `settings_context` | one window, two starts, two edits | **violated** `EnabledContextIsUsed` |
| `report_ceiling` | the study of `parts` alone | **violated** `CeilingHolds` |

`parts` is run without the deadlock check: an indicator whose server has gone, a
study with its report, a training without restarts left and a release without
runs left are at their end. The same holds of `settings_context` and
`report_ceiling`. `StudySound`, `TrainingSound` and `ReleaseSound` are
conjunctions of named parts, each with a comment of its own.

### Where code and documents disagree

* `tray_saved`: a change saved after the loading server has read its settings
  and before ON is shown is remembered by the watcher and dropped, since
  `state != "on"` (`ai_ime_tray.py:330-333`). The server goes on with the old
  settings; `settings_ui.py:393` says that they take effect.
* `tray_off`: the watcher has seen ON and is about to restart; the user
  switches OFF. `_stop_server` shows OFF after the watcher has started a new
  server. `SYSTEM_REQUIREMENTS_JA.md:24` and the status window
  (`ai_ime_tray.py:386-387`) say that OFF uses no memory of the model.
* `pipe_early`: a client that opens the pipe between `CreateNamedPipeW` and
  `ConnectNamedPipe` is dropped, because `ctypes.get_last_error()` is never
  `ERROR_PIPE_CONNECTED`, which `ranker.py:398` means to accept. The client
  falls back to Mozc's order.
* `settings_context`: switching the context off stores 0 characters; switching
  it on again leaves the 0, under a box that says that the context is used
  (`settings_ui.py:225`).
* `report_ceiling`: the report applies the candidate limit to lists that end
  with the supplements (`report_human_prefix_benchmark.py:136`), so a supplement
  that was sent, and chosen, lies above the printed ceiling of what was sent
  (line 260).

Seen while modelling, without a run:

* Rewriter: the supplement is added at `ai_rewriter.cc:735`, before the ranker
  is asked, and stays when the request fails, against `ai_rewriter.h:14-15`; the
  realtime pass (line 690) does not add it, so a request made while typing is
  never reused for a reading of the supplement table.
  `docs/RANKING_POLICY_JA.md:18` speaks of the first eight surfaces; the rewriter
  sends four of Mozc's and two supplements (`ai_rewriter.cc:33-34`).
* Tray: on an ordinary OFF a monitor can report an unexpected end
  (`ai_ime_tray.py:237-238`), also over the state of a start that follows; an
  adopted legacy server has no monitor (line 169); the mutexes of guide and tray
  never refuse a second process, because `get_last_error` is not set
  (`onboarding_ui.py:295-299`, `ai_ime_tray.py:456-458`).
* Speculative ranker: `SYSTEM_REQUIREMENTS_JA.md:26` says that in CPU mode
  nothing is inferred during typing; `ranker.py:596-602` puts every ONNX backend
  behind the speculative ranker. The worker does not look the cache up again
  when it has the inference lock (`speculative.py:152`).
* Pipe: the result of `WriteFile` is ignored (`ranker.py:432`): answers that
  nobody received are counted. A line that is JSON but no object ends the server
  (`ranker.py:423`).
* Ranking: `docs/RANKING_POLICY_JA.md:36,49` give thresholds that
  `clear_score_override` (`scoring.py:338`) undercuts for contexts on one side.
  A file in half precision runs on the processor when DirectML is announced and
  not obtained. A rule of `RuleBasedRanker` for what stands to the right applies
  only when nothing precedes the reading.
* Settings: an end between `product_settings.py:162` and the save loses the
  user's autostart; an `Infinity` in the file raises an uncaught `OverflowError`
  (`product_settings.py:76-77`).
* Supplements: readings with a small tsu (ろっぴゃく, はっせん) have none.
* Study: the report raises a `TypeError` on joint rows; both calibrations count
  a kept surface that is acceptable and not the expected one as a regression
  (`calibrate_confidence_models.py:121-126`, `calibrate_safety_gates.py:39-43`).
* Training: an end inside `copytree` leaves a partial backup that the next run
  takes for one (`train_70m_residual_lora.py:188-192`); a distillation started
  again forgets the best accuracy and may overwrite a better checkpoint.
* Release: edits 1-3 of `patch_candidate_window` still match after they were
  made, edits 4-6 do not (`modernize_mozc_ui.py:7-14`). So a second build from
  one checkout fails at edit 4 and leaves 1-3 twice, unlike the two other
  patches, which may be repeated. The image of an earlier extraction is never
  cleaned, so its files can satisfy the check for required files.

### Bounds

* Speculative ranker: a settle time and a time to live of one tick have all
  four relations of an age to a limit (below, at, above, saturated). Two
  callers and the worker are every pair of roles; the inference lock makes a
  third caller behave as the second. Three keys and two entries make the cache
  overflow with an order to choose from; one entry makes every store evict.
* Pipe: two servers compete for one name, and each may be ended and started
  without bound. `MaxRequests = 1` is per client: three users meet at one
  instance, and late answers reach another client's request if they can. A
  request of two pipe writes lets either side end in its middle. The proofs
  hold for any number.
* Tray: one launch slot means that launches do not overlap, two that they may.
  A slot is free again when no thread and no process of it is left, so the
  number of starts in a behaviour is not bounded. Two launches
  are two servers, of which one must end, a start that overwrites the server of
  another, and a monitor that reports over a later start. Two values of the
  settings and one save are enough for a change at every point of a start. The
  save, the autostart and the legacy server are each in sessions of their own.
* Rewriter: with limits 2 and 1 a list of four exceeds the window, and
  repeated surfaces occur before, in and after it. The properties speak of one
  segment and of pairs of segments; three segments are there for a middle one.
* Ranking: the levels of the scores (0, 0.75, 1.5 and 4) lie on both sides of
  every threshold of the gate, and `GateIsMonotone` adds 0.25 to 1 to each. One
  more, 0.15252, differs from the prior of the second candidate by less than the
  rounding drops. The contexts have a sentence end before, at and after the cut at five characters.
* Settings: two windows, a guide and the tray, three starts, one edit per
  window: two writers of one file and one of the other at every pair of steps.
* Pill: carets below, at and beyond the last position that fits, a caret left
  of the screen and the mouse on it and beside it; three calls, so that a window
  can come late for the first or the second. The proof is for any screen.
* Numbers: 1 to 30 and every combination of some digits in four places, which
  has each euphonic change and zeros in every place; each counter and ordinal.
* Study: an abbreviation, a number with numerals beyond the limit, a word that
  Mozc split, and two segments of which one has a choice, with every option.
* Training: one, three and four batches with accumulation one and two: dividing
  and not. Two restarts make a run after a broken backup.
* Burst guard: settle 2 and forget 3 in a clock of nine; two keys, because one
  key's request cleans another's entries. The proof is for any times.
* Release: three runs of the script, so that a run can follow an ended and a
  finished one; a runtime with a directory that holds no file itself.

### Fairness

* Speculative ranker: threads that can run do run, model calls return (or
  raise) and time passes. Strong fairness is assumed only for the worker's wait
  for the inference lock: the server's only caller does pipe I/O between two
  requests, which leaves the lock free. Nothing makes a client ask.
* Pipe: weak fairness of each server's loop and of each client's opening,
  writing, receiving and noticing of a broken pipe. Strong fairness of `GiveUp`:
  a deadline that has passed stays passed, and every later look at it ends the
  request. Nothing makes a stranger write or leave, nor a server start or end;
  `ServerComesBack` names the stranger that keeps its connection.
* Tray: every thread of the tray runs; a poll loop is bounded by its deadline
  of 120 seconds, so a launch always ends; a server that was started goes on to
  read the settings and to serve. Nothing makes the user click, the settings
  change or a process end.
* Pill: the window's thread runs; the server's goes on after its wait of two
  seconds, every inference ends, and a server that has failed stops. Nothing
  makes it take another request.
* The other runs have safety properties only.

`EndIsNoticed` and `ChangeReachesServer` are stated for behaviours in which starts
are `Undisturbed`: while one is under way nobody else starts or stops a server.
Any number of starts, stops, saves and ends of servers may follow one another,
and the watcher's own restarts are among them. Beyond that TLC finds, and the
code does allow, an ON without a server: a launch that has seen its server ready
sets ON after another thread has terminated that server and taken it out of
`server_proc`, so the new monitor has nothing to wait for; or a monitor reports
an ordinary end over the next start, the user clicks on the error, and a second
launch overwrites the server of the first. `LoadingEnds` has no such premise: it
holds for all starts, overlapping ones too.

## 4. Proofs

| module | theorem | property |
|---|---|---|
| `SpeculativeRankerProofs` | `TypeCorrect` | `TypeOK` |
| | `ModelIsSerialised` | `ModelSerialised` |
| | `CacheIsCoherent` | `CacheCoherent` |
| | `ModelCallIsNeeded` | `NoRepeatedModelCall` |
| | `CacheKeepsLastUsed` | `KeepsLastUsed` |
| | `NoWakeupIsLost` | `NoLostWakeup` |
| | `NoRequestIsLost` | `LeavesQueueInTurn` |
| | `DelayIsBounded` | `BoundedDelay`, for one caller |
| | `AnswersAreFresh` | `AnswerIsFresh` |
| | `RankerImplementsService` | `ImplementsService` |
| `RankerPipeProofs` | `PipeTypeCorrect` | `TypeInv` (of the proof module) |
| | `InstanceIsOwned` | `OwnsInstance` |
| | `CountersHold` | `CountersAgree` |
| | `PipeImplementsRequests` | `ImplementsRequests` |
| `AiRewriterProofs` | `CandidatesAreKept` | `NoCandidateLost` |
| | `AnswerBecomesList` | `AnswerIsShown` |
| | `ReturnIsTrue` | `ReturnTellsChange` |
| | `RequestsOfferChoices` | `RequestsAreChoices` |
| | `RightContextIsFinal` | `ContextIsFinal` |
| | `PrefetchFitsConversion` | `PlainPrefetchIsReused` |
| `RankerBackendsProofs` | `RankingIsBijection` | `TypeOK` |
| | `NeuralOrderFollowsScores` | `OrderFollowsScores` |
| | `RepeatsAreInOrder` | `RepeatsKeepOrder` |
| | `PromotionNeedsEvidence` | `PromotedHasEvidence` |
| | `ContextIsASentence` | `ContextIsOneSentence` |
| | `GateFavoursEvidence` | `GateIsMonotone`, where `exp` is total |
| `TrayProofs` | `LoadingHasAThread` | `LoadingIsTemporary` (proved only) |
| `PartsProofs` | `RunsStayApart` | `RunsAreApart` |
| | `KeptRankingsAreRecent` | `KeptIsRecent` (proved only) |
| | `PillStaysOnScreen` | `PillOnScreen` |
| | `SavesStayOwn` | `SavesAreOwn` |
| | `ReleaseIsSound` | `ReleaseSound` |
| | `TrainingIsSound` | `TrainingSound` |
| `StudyProofs` | `StudyIsSound` | `StudySound` |

Each holds for all constants that satisfy the named assumptions of its module,
which TLC evaluates in the runs. They say that special values are none of the
ordinary ones, that sizes and times are numbers, that a screen has room for the
pill and its margins, and that no process is called as one of the files; and
beyond that:

* `RewriterAssumption`: Mozc hands over sequences of segments, and
  `kAiCandidateSurfaceLimit` is at least one.
* `ScoringAssumption`: the prior grows with the place and is zero for the first
  (`0.22 * log(1 + i)`), the exponential falls with the distance and is not
  negative, and no word ending is empty.
* `BackendAssumption`: a request has candidates (`protocol.py:75`), the network
  has a number for each surface, and the rules give numbers.
* `ReleaseAssumption`: a relative path has at least one part.
  `TrainingAssumption`: a data set has a batch, and at least one epoch is asked.
* `SupplementAssumption`: the tables of words, phrases, abbreviations and
  prefixes hold texts, and kana, digits and signs are characters.
* `StudyAssumption`: an item's segments make up its reading and each has a
  candidate, as Mozc's conversion gives them; the expected surface is one of the
  acceptable ones (it is in all 210 cases of the benchmark); the limits of the
  command line are numbers.

Two theorems have a hypothesis of their own. `DelayIsBounded` is about one
caller: the pipe server calls `rank()` from its only thread; a second caller
could always schedule one more prefetch, and the bound does not hold for two.
`GateFavoursEvidence` takes `Exp` to have a value for every difference
(`ExpIsTotal`), as `math.exp` has; TLC's table stops at a difference that no
request of its instance exceeds.

*Speculative ranker.* `TypeOK` is not inductive: it lets a caller be at the
worker's places and have no request where it needs one. `TypeInv` adds
`PlacesOK`, which ties each thread's places to its role and to having a request.
`ModelSerialised` is stated as an equivalence (a thread is at a place where it
holds the lock exactly when it is the holder), which makes it inductive with
`TypeInv`. `CacheCoherent` needs only that a stored entry is made from the
storing thread's request (lemma `CacheSteps`). `NoRepeatedModelCall` rests on
`ModelSerialised`: only a holder of the lock stores, so between a failed second
look-up and the model's return nobody else adds the key. `AnswerIsFresh` uses
the age of the cached entry at the look-up, which `Fresh` bounds. The refinement
follows from `CacheCoherent`: a hit returns the order of the key asked, so each
return is the service's `Reply` and every other step a stutter. For
`KeepsLastUsed` two invariants are needed. `LruOK`: the list has each cached key
once and nothing else. `UseOK` relates the list to the history: of two keys in
it, the later one was used after the earlier. So what pruning cuts off at the
front had all keys behind it used after it, which are as many as the cache has
places (`PrunedIsOld`). Lemmas `PrunedOrderFacts` and `MoveToEndFacts` say what
filtering, cutting and moving to the end do to a list without repetitions.
`LeavesQueueInTurn` goes through the steps that empty the queue: the worker's,
which test the age of the request, and a caller's, which compares its key.
`DelayOK` counts the model runs that a waiting request has
met together with those it may still meet, of the pending request and of the one
the worker has taken; the sum never grows while the only caller waits.

*Pipe.* `TypeInv` has besides the types what the steps need: who is not idle has
something to send, who is awaited is not idle and has a number within
`MaxRequests`, strangers are never awaited. `OwnsInstance` is inductive with it:
only a server that has found no instance creates one, and every way out of the
loop gives it up. For `CountersAgree` lemma `CountKeepsOrder` says
that a changed first candidate is a changed order, so that one answer keeps each
counter below the next. In the refinement `Receive`, `Broken`, `GiveUp` and
`SafeTimeout` are `Answer` when the client is awaited and stutters when it is
not; `Receive` compares the id, so an answer carries the number the client
waits for.

*Rewriter.* `LoopInv` says where the loop is and that each request's segment
lies at or to the right of the segment in hand (`GoneBy`); after the answer or
the failure it lies strictly to the right. A step changes no segment but the one
in hand (lemma `RightIsFinal`), and no step changes what a request told
(`RequestsKeep`), so the segments right of a request are final. For the
prefetch, `Untouched` says that until the first request the segments are those
of Mozc and none right of the one in hand has a choice; so the first request is
for the last segment with a choice, as the prefetch is, and both are made of the
same segments. The supplement breaks this: with one, segments change before the
first request, and the theorem is about readings without.

The permutation is the core of the other four. A move is a permutation of the
positions (`MovePerm`), the positions found by `Arranged` remain one after every
move, and the first `t` of them are the desired ones (`ArrangedUnfold`); moving
the list along (`MovedAppend`, `MovedAsDesired`) then gives the list in the
desired order, for any length. `DesiredIsPerm` is why nothing is lost: the
selected positions in the order of the answer, then the others as they were.
`ListsInv` carries it through the loop: the segments left of the one in hand are
Mozc's, the one that is asked about has its supplement, and every list is
Mozc's, with or without the supplement, in some order. `ChangeInv` ties the
value returned to it: some list is in a new order exactly when `anyReordered` is
true, because an answer that keeps the order is the only one that moves nothing
(`NewOrder`). `ChoiceInv` says of the requests that they go from right to left
and offer between two and the limit of surfaces, each once, first the one shown.

*Ranking.* The invariant `Inv` says what the state is at each place: a result of
loading, then a request with a network, then the sorted order, then what the
gate made of it. All else is about operators. `SortedIsBijection` and
`SortedFacts` follow from `ListedInOrder`: a strict total order on a finite set
lists each element once, after what comes before it. The gate only puts Mozc's
first in front of the others (`FrontedIsGated`, `DecidedIsGated`), which keeps
the permutation and the order of equal surfaces. `OrderFollowsScores` needs
that the index of a surface among the distinct ones exists and leads back to the
same surface (`RuriScoresAreOnnxScores`), that rounding is monotone and moves a
score by at most half of the last digit (`RoundedMonotone`, `RoundedNear`), and
the order of `SortedFacts`. `GateAsksForEvidence` goes through the branches; of every branch
the least lead it asks for is at least 0.35, and 0.75 for an echo.
`GateFavoursEvidence` needs that a share of the softmax grows with the evidence
(`ConfidenceGrows`, with `TotalGrows` for the sum), that each threshold stays
met (`OverridesStays`), and that a stronger case never moves to a branch that
refuses it (`CaseGrows`). The context is cut by two lemmas
(`HeadIsOneSentence`, `TailIsOneSentence`) about the last boundary before and
the first after the reading.

*Tray.* `LoadingIsTemporary` is inductive once the domains of `pc` and `proc`
are known. Whoever shows `loading` leaves a thread behind that is not done: the
menu and the setup callback a new launch (`StartKeeps`), the watcher itself; and
a launch or a watcher's restart ends only by showing something else
(`LaunchKeeps`, `WatcherKeeps`). It is the part of `LoadingEnds` that needs no
fairness and, unlike the run, holds for any number of overlapping starts.

*Burst guard.* Neither property is inductive. `RunInv` says of each key where
its last run lies: either the ranking of that run is still kept, and the run
lies between settling and forgetting of the sighting, or nothing is kept and the
run lies before the next sighting. From it a new run, which follows a new
sighting by the settling time, is more than that time after the last.

*Pill.* `PillOnScreen` is inductive with the type of `pos`; what remains is that
`Clamp` between margins that fit stays between them (lemma `ClampBounds`).

*Settings.* `FullIsOwn` says that a writer which is about to rename has its own
data in its temporary file. A temporary file has one writer, since its name has
the process in it; every other file is changed by renames only.

*Release.* `ReleaseSound` alone is not inductive: a checkout edited by an
earlier run could be compiled. `WindowInv` keeps the counts of the edits in
order: the first three are made at least as often as the next one, the last
three at most once, and while an edit is due its predecessor is strictly ahead
of it. So a run that reaches the compiler with each edit behind it, on a source
that compiles, has each exactly once. `ProductsInv` and `RunningInv` carry this
and the version from the compiler to the MSI, the image and the checksums.
`AllIsInstalled` says that every directory above a file of the runtime is
emitted, whatever the set of files.

*Training.* `TrainInv` has three parts. `GradientInv`: the model followed by the
gradients that wait ends with exactly the batches since the start, in order, and
nothing waits between two epochs. `CheckpointInv`: what is on disk is the last of
the best epochs, or that epoch is being written. `BackupInv`: the base is
overwritten only behind a backup, and is the original as long as there is none or
it is being written.

*Study.* `StudySound` says nothing of a row in progress but its reading, and so
is not inductive. `StudyInv` (lemma `StudyInvStep`) says of a row in progress and
of the finished ones:

* `RowInv`: what each call was told to follow is the text now chosen behind some
  place right of `left`, that is, behind one that has been ranked; as long as
  every call was late the row shows Mozc's first candidates; without `dedup` and
  `reps` a place shows one of the candidates the report will look at. A step
  changes one place only, left of all that was told (`SegmentRanked`,
  `SameBehind`). A row with one call for the whole reading keeps Mozc's
  candidates until the call, whose first hypothesis is Mozc's surface.
* `FinishedInv`: what this comes to when the texts are put together. The text
  behind a place is a suffix of the whole (`FlattenConcat`, `SuffixOfConcat`),
  hence `FollowingIsFinal`; a surface composed of listed candidates is found by
  the report's search, which keeps every beginning of an acceptable surface
  (`CanComposeFacts`, with `PrefixOfConcat`), hence `WithinReach`.

Below this lie the facts about the operators. `PreparedFacts` is `KeepsReading`:
the segments that a repair reaches into are replaced by one with their common
reading (`JoinedFacts`), at the front or at the place that `JoinedUpToFacts`
finds. `HypothesesFacts` follows the beam from list to list: the first of all
pairs in the order of `Expanded` (`CheaperIsOrder`) is the first hypothesis with
the first candidate, which costs nothing, so Mozc's surface stays first at any
width (`BaselineIsFirst`). `MergedFacts` and `SentFacts` are that Mozc's first
candidate is sent first, whatever is added or left out, which needs that the
supplements are texts (`SurfacesType`, `DecimalType`, `KanjiType`). For the
calibrations, a row without features is shown as Mozc has it by both scripts, so
it is neither a change nor, since the expected surface is acceptable, a recovery,
and both count equal sets (`CalibrationsAgreeHolds`).

Sorting, filtering and sums are stated over positions and as recursive functions
(`Ordering`), so that induction is over the numbers up to a bound
(`InductionUpTo`) and a recursive function can be unfolded (`RecursionUpTo`):
the invariant of such an induction is a set, not an operator.

Only model-checked: every liveness property (`PendingSettles`, the service and
its liveness, `RequestsEnd`, `ServerComesBack`, `LoadingEnds`, `EndIsNoticed`,
`ChangeReachesServer`, `PillIsHidden`), which is beyond the prover; and `SpellingsAgree`, the one safety invariant
without a theorem: that every spelling of a number leads back to it is a
statement about the computed values of tables and of a parser that takes the
longest token at each turn, by induction over the numbers and their readings.
The proofs about `Supplements` say what kind of thing its operators return and
what they leave alone, not which number they compute.

## 5. Not modelled, and what could follow

Not modelled:

* numeric code: inference, tokenisation, losses, learned policies;
* drawing of windows, texts of menus and messages, logging;
* `launcher/` and `ai_ime_gui.py`: controllers that the tray replaced and that
  nothing starts any more (`taskbar_switch.cpp:155` sets its loading flag in the
  new thread, the hazard of two clicks);
* `CheckResizeSegmentsRequest` of the rewriter. It asks Mozc to resize a prefix
  that is a number or a known abbreviation (`SupplementalPrefixChars`), or to
  split one segment or join or keep two when the dictionary has both parts or the
  whole and the ranker, asked within 700 ms (`BoundaryRepairWins`), prefers the
  surface of the new boundary by a margin. It changes no candidate list; the
  segments it leads to are inputs of the model;
* the Mozc overlay's installer, server and build files, and the texts of the
  edits that the release makes;
* the dataset builders, evaluations and model exports in `scripts/`: tables of
  sentences, straight-line measurements, conversions by libraries;
* what Windows keeps of a pipe whose server was killed while a client is still
  connected: in the model the instance is gone.

What could follow: `SpellingsAgree` by cases over the four places of a number,
once the parser is split into one step per place; the ownership of server
processes in `Tray` without overlapping starts; the lead of the candidates
beyond the ceiling in the report (`report_ceiling`) after its correction.

## 6. How to run

```
tlc -workers 2 -config MCRankerPipe.cfg MCRankerPipe
tlapm RankerPipeProofs.tla
```

Each `cfg` belongs to the module whose name it starts with;
`MCSettings_context.cfg` belongs to `SettingsFiles`.
