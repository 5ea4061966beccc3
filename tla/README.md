# runtime-profiler: a verification project

runtime-profiler measures a program and leaves an immutable *evidence bundle*: a
directory of JSON artifacts and a manifest that names each with its SHA-256.  This
project models the parts of it where order, interleaving and partial failure decide
whether the evidence can be believed, checks the models with TLC on small instances,
and proves their invariants for every value of the constants with TLAPS.

All paths are those of the repository (`src/capture.rs` is the Rust file; under
`src/` in `PROJECT.json`, which also maps every definition to the lines it stands for).

## 1. The system

| part | state it keeps | operations | who it talks to |
|---|---|---|---|
| CLI (`src/main.rs`) | none | `init`, `detect`, `plan`, `capture`, `validate`, `summary`, `compare`, `score`, ... | dispatches to the library; installs the signal handlers for captures |
| Interruption (`src/capture.rs` 27-68) | one process-wide flag, and whether the handlers are installed | the first signal sets the flag, a second one ends the profiler | read by every loop and between all phases of a capture |
| Isolated command (`src/capture.rs` 174-298) | a child in a process group of its own, a deadline | spawn, poll, deadline, interruption, group SIGKILL, reap | runs targets, curl, the browser driver and teardown commands |
| Process metrics (`src/capture.rs` 70-172) | the samples taken | warmup and measured iterations, statistics | isolated command |
| HTTP workload (`src/http_workload.rs`) | the owned fixture, its scope directory, port and evidence | curl probe, fixture start, port and health wait, batches, stop, teardown, metrics | isolated command, the fixture's group |
| Browser capture (`src/browser_chromium.rs`, `scripts/playwright-driver.mjs`) | a temporary directory, the driver's trace and metadata | hash the journey's module, run the driver, check its metadata, hash the module again | isolated command, Chromium, trace summary |
| Chromium trace summary (`src/chromium_trace.rs`) | a stack of enclosing events, bounded tables, pending boundary endpoints | parse, sort, frame, aggregate, truncate | browser capture |
| Native hotspots (`src/native_perf.rs`) | the temporary `perf.data`, the table, the call paths | `perf record`, two `perf report`s without a deadline, merge and cut the table, attach and cut the call paths | isolated command, `Command::output` |
| Bundle creation (`src/bundle.rs` 59-249, `src/digest.rs`) | the output directory | refuse, measure, write artifacts, hash, write the manifest last | all collectors |
| Bundle reading (`src/bundle.rs` 251-552, `src/evidence.rs`) | none | validate, summarise, render guidance, evidence reference | the bundle on disk |
| Comparison (`src/score.rs`, `src/hotspot_compare.rs`, `src/browser_compare_v1.rs`) | none | validate both sides, check comparability, canonicalise, score | bundle reading |
| Scenarios (`src/scenario.rs`) | none | parse a scenario, accept or refuse its target, collectors and counts, plan | all collectors |
| Contracts (`src/contract.rs`, `scripts/check_contracts.py`) | none | the documents' types and their schemas | all |
| Score history (`.github/workflows/score-history.yml`, `scripts/append-score-history.mjs`) | `history.json` on the `score-history` branch | measure a commit against its parent, append, push | GitHub Actions, the CLI |
| Pages site (`site/`) | the latest run of a page, what it shows | fetch and validate a bundle, render results, chart the history | public bundles, the history branch |

### How they interact

One capture is one thread.  It runs each target as the leader of a new process group
and polls it; the group's members, the clock, the user's signals and other captures
are the actors it races with.  Bundles are the only interface between captures and
everything else: readers, comparisons, the site and the score history see files.

### What is hard

* **Process groups.**  Members fork, escape, change credentials and exit between any
  two system calls of the profiler; a group is signalled once.
* **Reaping.**  A reaped leader's number may be used again.
* **Cleanup.**  Whatever fails between the start of a fixture and its end, the
  fixture must be stopped first and torn down second.
* **Two-stage interruption.**  The flag may be set between any two statements.
* **Publication.**  A capture dies between any two writes; two captures may have
  been given one output path.
* **Bounded summaries.**  Traces and call paths are cut while they are read: the cut
  must neither lose what it promises to keep nor go unreported.
* **Rules written twice.**  What a capture accepts and what the validation of its bundle
  demands are different code, as are the acceptance of a scenario and the dispatch on it.
* **Inputs that move.**  The journey's module may be edited while the driver runs.
* **Equal timestamps.**  Traces are in whole microseconds and not in order.
* **History.**  Workflow runs queue, are replaced, fail and are run again.

Every hazard is listed in `PROJECT.json` at the line where it bites, with the
properties that would notice it, or the reason why none does.

### What makes each part correct

* Isolated command: a forced end leaves nothing of the target that its signal could
  reach; a failure to signal never becomes a sample; success means the leader's own exit.
* HTTP workload: every return after the start cleaned up, in order; evidence is
  complete and comes after an end that reached whatever may be signalled.
* Measurement: a capture that comes to write has every declared sample, in its place, of
  executions that all ran, and exactly the profiles that were requested; the bundle it
  writes is accepted by validation.
* Native hotspots: the table and the call paths account for every recorded sample, or
  say that they were cut.
* Browser capture: the recorded digest is that of the module the driver ran.
* HTTP evidence: only evidence that some run can have passes validation.
* Bundle creation: a manifest commits to whole files of one capture, nothing changes
  after it, and success is reported only for a bundle that is there; so it is at every
  path that two captures did not have at once.
* Trace summary: every event is framed under its innermost enclosing event; what is
  kept within a limit is the largest, and what is cut is reported.
* Boundary pairing: sections are recovered whatever else is interleaved; incomplete
  ones are refused.
* Bundle reading: only intact bundles are answered from, what is rendered is what was
  validated, and what is intact is refused only for the reasons the code states.
* Comparison: a better candidate never scores less, no metric is counted twice under two
  names, and a missing record neither hides a difference nor passes for agreement.
* Score history: a published comparison is not lost, a commit has one entry, and a
  chart joins one cohort.
* Site: a page shows the answer to the last question it was asked.

## 2. Modules

| module | models | lines |
|---|---|---|
| `CommandResults` | the results of a command, and which of them a caller may get | `capture.rs` 174-225, 335-350 |
| `CommandContract` | what `execute_isolated_command` promises its callers | `capture.rs` 174-298 |
| `IsolatedCommand` | the polling loop, `terminate_process`, the group, the clock, the user | `capture.rs` 27-46, 174-298, 335-350 |
| `HttpCapture` | `capture_http` and `OwnedFixture` | `http_workload.rs` 305-710 |
| `Scenario` | which targets, collectors and counts are accepted together | `scenario.rs` 154-263, `http_workload.rs` 88-187 |
| `NativeHotspots` | the table of hotspots and the call paths of perf's two reports | `native_perf.rs` 48-749 |
| `HttpEvidence` | what is accepted of curl, the evidence, the metrics, and their validation | `http_workload.rs` 71-912 |
| `Measurement` | `capture_bundle` up to the first write, and what validation demands of the documents | `bundle.rs` 59-139, 262-765; `capture.rs` 70-172; `http_workload.rs` 429-710; `native_perf.rs` 114-350; `browser_chromium.rs` 40-270 |
| `Publication` | atomic, immutable publication of bundles | `docs/architecture.md`, `bundle.rs` 59-240 |
| `CaptureBundle` | `capture_bundle`, file operation by file operation | `bundle.rs` 59-249, 776-781 |
| `BundleReading` | validation and every command that reads a bundle after it | `bundle.rs` 251-552, `evidence.rs`, `score.rs` 72-134, `hotspot_compare.rs` 36-66, `browser_compare_v1.rs` 38-76, `main.rs` |
| `Comparison` | `score_metrics` and the three-way assessment of identities | `score.rs` 148-337, `hotspot_compare.rs`, `browser_compare_v1.rs` |
| `BoundaryPairing` | the pairing of nestable-async endpoints | `chromium_trace.rs` 289-349 |
| `ChromiumTrace` | sorting, framing, long tasks, hot paths | `chromium_trace.rs` 100-175, 373-493, 551-628 |
| `TraceSummary` | the analysis as a whole, and the table of boundary markers | `chromium_trace.rs` 143-175, 373-519 |
| `ScoreHistory` | the workflow's queue and steps, the append script, the chart's selection | `score-history.yml`, `append-score-history.mjs`, `site/score/model.ts` |
| `*Proofs` | the theorems about the module in their name | |
| `MCBundleReading`, `MCMeasurement`, `MCScoreHistory` | values, symmetry and constraints of these instances | |

`pc` (or `step`, `phase`) is the place in the function that is modelled; an action is
what the code does between two points at which another actor can be noticed: a system
call, a file operation, a look at the interruption flag or at a clock.  Definitions in
front of another one with nearly its name (`StopLeaderOnly` before `StopGroup`) are the
variants a plausible mistake would give; nothing uses them but the mutants listed in
`PROJECT.json`, each of which breaks the property it is listed for.

**IsolatedCommand.**  `Watch`, `Poll` and `CheckDeadline` are the three tests of the
loop in the order of the code; `KillGroup` and `KillGroupDenied` are the two outcomes of
`kill_process_group` (success or `ESRCH`, and any other error), `FailAfterLeader` and
`Reap` what follows each.  The group is a set of processes.  Members fork, exit, leave it
(the leader for another group of its session, too) and change their credentials, either
way, between any two steps; a signal to a group succeeds when one member may be signalled
and ends those that may.  An ended leader is a member until it is reaped, so signalling it
succeeds.  `spared` is a history that no action reads: what still ran when the signal was
sent and was out of its reach, and what that forks; what is promised is stated with it.
`autoReap` is a parent that was started with `SIGCHLD` ignored: waits fail then.  Its
refinement mapping to `CommandContract` hides the loop and keeps who runs and who is spared.

**HttpCapture.**  One action per step of `capture_http`; `Leave(r)` is any return before
the cleanup, which the code collects in a closure and so never skips.  The fixture's
leader and one helper are processes as in `IsolatedCommand`: each dies, leaves the group
and changes its credentials (`guarded`) at any moment.  `StopGroup` and `StopRefused` are
the two outcomes of the signal: it reaches the members that may be signalled, and is
refused only when there are some and none may be (`refused`).  `spared` is again the
history of what it could not reach.  `Wait` is `child.wait()` of `stop()` with its error
path.  The port file may hold a good number, the first digits of one, or rubbish.  curl
batches and the teardown command are isolated commands: they answer with what `Allowed` of
`CommandResults` gives their `interruptible` argument.  `foreign` is a group that got
the number of a leader that `try_wait` reaped.

**Measurement** extends Scenario, NativeHotspots, HttpEvidence and CommandResults: one
capture from the check of its output path to the point where the directory is created.
`Check`, `Load` and `DetectEnvironment` are the head of `capture_bundle`; `Warmup` and
`MeasureCommand` are the iterations of `capture_metrics`, `Warmup` and `MeasureBatch` the
batches of `capture_http`; `Probe`, `Record`, `Report` and `ReportPaths` are
`capture_native_perf`, and `DigestJourney`, `Drive` and `ReadTrace` are
`capture_browser_chromium`.  A command with a deadline is begun (`BeginCommand`, which
looks at the flag first) and ends with one of the results that `CommandResults` allows,
which `IsolatedCommand` shows to be right; a command run by `Command::output` is a place in
`Waits` and ends when it likes.  `Failure` is every error return.  The HTTP fixture and its
cleanup are the two steps `FixtureStep`: `HttpCapture` has what happens in them.
"misdirected" is the end of a capture that asks a collector to profile a target it does
not know; no accepted scenario gets there.

`Scenario` gives every scenario up to one past each limit and accepts those the code accepts;
requests per iteration and declared endpoints have limits of their own.  A figure of a
transfer is within the limits of `http_workload.rs` 666-675 and 864-873 or "excessive", which
both the capture and the validation refuse; `WithinBounds` is the validation's own statement
of what a scenario may ask for.  perf names a place by an absolute or a relative path below
the scenario's root, by one of two files elsewhere with one name, by a path with `..`, or not
at all; `Normalized` is what the code makes of it.  The output of curl, the recording of perf
(groups of samples with one stack and place) and whether a batch was late are chosen when they
are read.  Hotspots and paths are sorted by rank (`InOrder`): each comes after as many as
there are before it in the order of `sort_by`, which is strict and complete on them.  The
second half of the module is `validate_bundle`'s view of the same documents.  `Phase` maps all
places to the five of `CaptureBundle` that come before the first write: all that happens here
is its one step `Measure` (`ImplementsCapture`).

**CaptureBundle.**  Any number of captures, each a process with its own flag.  A file is
truncated and then filled, so a dying or failing capture leaves a torn one; contents are
who wrote them and whether they are whole.  Nothing in the program keeps two captures
from having one output path at once, and nothing in the model does: `shared` is a history of
the paths where a second capture passed the check while the first one was measuring or
writing.  What is promised of a path is promised unless it is shared, and `PublishedIsFinal`
also of a shared one, from when both captures have ended; `Publication` has the same set as
`contested`.  `capture_bundle_shared` shows that no more can be promised.  A kill is the
death of the process: files are not synced, so a power failure is another matter.

**BundleReading** extends CaptureBundle: one command validates its bundles and then
reads from them again, while captures write and someone removes or copies files.  A capture
has a profile: its workload, what its manifest says of scenario and environment (`kind`), the
identity of its collector (`tool`), its metrics, and whether a batch of its requests was late.
The command is a summary or guidance ("show"), an evidence reference ("refer"), or one of the
three comparisons, each with its own list of what it reads (`BeginReading`): a score looks for
HTTP evidence first, then reads the manifests and the metrics.  Only a score refuses bundles
that differ (`Agree`); the other two comparisons answer with a status.

Two histories say what a command may expect.  `stale`: a part was changed after the command
had checked it.  The properties of answers exempt that, since the code reads documents again
after their digests were checked.  `sound`: the bundles were their captures' own when the
command started and were left alone since, in which case it has few reasons to refuse.

**TraceSummary** extends both ChromiumTrace and BoundaryPairing: the complete events are
sorted, the endpoints paired, the boundary markers counted in their bounded table, and
then the events framed.  The pairing starts from an application that opens and closes
sections (`truth`), whose endpoints are stored in any order; what the code recovers is
compared with that.  The sort puts each endpoint at its place (`Place`): after those that
precede it and its equals stored before it.  An event that is no boundary marker is passed
over in `CountMarker`, as `summarize_complete_events` does.

**Comparison.**  Two documents and two identities in one initial state; each command
answers in one step.  A document is a list of metrics: the code compares the first alias with
the first metric it stands for and skips the rest, and refuses what is left twice.
`ScoreBundles` has the refusals of `score_bundles` as well, that of different HTTP
collectors among them.  Statistics are natural numbers and ratios are exact rationals
where the code has doubles: comparing fractions by cross-multiplication, and rounding
halves up as `f64::round` does on positive numbers.

**ScoreHistory.**  The concurrency group (one runs, one waits, a later request replaces the
waiting one; manual runs are given any commit), the steps of the job, and the script's append:
replace the commit's entry, sort, keep the last `Retention`; the sort is any sequence of the
entries that is in order of their times, as those of equal entries may come out either way.  A
commit's number is its time; its offset is what makes text order differ from it.  The first
history may have an entry from before digests were recorded.

## 3. Runs

| run | instance | distinct states | shows |
|---|---|---|---|
| `isolated_command` | a leader and two descendants | 63,566 | a forced end is complete, samples are genuine, the contract is implemented, a call ends after its deadline and after an interruption |
| `http_capture` | one warmup batch, two measured ones, a teardown command | 22,374 | every return cleans up in order, evidence only after a signal that reached all it could, fixtures and interrupted captures are ended |
| `http_capture_reuse` | one batch of each | violation | the number of a reaped leader is signalled |
| `capture_bundle` | two captures, two paths, two artifacts of which one is required | 205,456 | a manifest commits to whole files, success is published, early interruptions write nothing, published bundles are final, publication is implemented |
| `capture_bundle_shared` | the same | violation | a published bundle is rewritten by a capture that had its path at the same time |
| `measurement` | every scenario up to one past the scaled limits, two groups of samples over three symbols of which one contains a semicolon, two versions of the journey, two edits | 457,582 | the evidence is complete and valid, hotspots account for the samples, the recorded journey was driven, edited HTTP evidence is refused, the one step of `CaptureBundle` is implemented, an interruption ends the measurement |
| `bundle_reading` | the same as `capture_bundle`, seven profiles, five uses, two changes | 1.45 million | only intact bundles are answered from, answers are what was validated, scores are of alike captures, intact bundles are refused only for the stated reasons |
| `comparison` | statistics 0, 100, 101; up to four metrics in two documents; four fields, two records | 836,982 | an alias has no weight, better never scores less, the status of hotspots is certain |
| `trace_summary` | four events on four instants, three keys, six endpoints | 3.7 million | framing, bounded tables, pairing and its refusals, markers |
| `boundary_pairing_touching` | one key, four endpoints | violation | touching sections are not recovered |
| `score_history` | three commits, three requests, two offsets, two workloads and scenarios, retention two | 1.8 million | one entry per commit, nothing is forgotten, one cohort in the chart, the last request is served |
| `score_history_latest` | two commits, three requests | violation | the latest entry is not of the latest commit |

`PublishedIsFinal` is what holds where `NeverUpdatedInPlace` is violated.

Why the bounds are enough:

* Two descendants let one survive by being forked around the signal while the other
  leaves or changes its credentials, and the leader ends before either.  One helper is enough
  for a fixture: it survives beside a leader that can be signalled, and is left alone.
* Two measured batches have a fixture check between them; one warmup batch can fail or
  succeed.  The proofs cover the other numbers.
* Two captures are needed for one to disturb the other's bundle.  With two artifacts one
  can be whole while the other is torn, and one is optional.  Two directories let a file
  be copied from an intact bundle into another one.
* In `bundle_reading` one capture is of an HTTP scenario and the other one alike, different
  in one respect, or of another workload (`Instance`); two at one path differ in their metrics
  or in nothing.  Captures and directories are symmetric.  `Explored` leaves out orders that
  make no difference to the command: steps of captures at paths it was not given, steps between
  two of its own of which the second looks at no file, and what happens after it ended.
  `Promised` ends behaviours of which no property says anything any more.  Captures that are
  interrupted leave what those leave that fail at the same step, so signals are left out
  there; `capture_bundle` has them.
* In `measurement` a target that is recorded has at most one warm-up and one measured
  run (`RecordOnce`), since what perf records does not depend on them; other scenarios have all
  counts.  A limit is two or three where the code has 3 to 10,000, and scenarios go
  one past each.  Two groups of samples are the least that can share a function but not a
  place or a path, and be cut apart: the table holds one hotspot and each hotspot one path.
  The group with more samples has less weight, so that sorting by the wrong one shows.  Stacks
  are two frames deep, so the refusals for more than `MaxPaths` paths and `MaxFrames` frames
  are not reached; the one for a path whose leaf has a semicolon is.  Two batches of up to
  two transfers let a sample be moved to the other batch.  Two edits with two versions are
  an edit and its reversal.
* Every limit of the trace summary is smaller than what the instance can produce: three unique
  paths of which two are kept, one long task, depth two, two markers of which one is kept.
  The three keys are of three markers, one more than the table holds, and one of the names of
  complete events is a marker too.  With four events an overlap without nesting can be
  followed by events under either of its parts.  A trace has two endpoints fewer for each
  complete event it has, which keeps the product of the two halves within reach.
* Statistics 100 and 101 differ by less than the rounding, 0 is the special case of
  every ratio.  Four metrics in two documents are a metric, two aliases of which one differs,
  and the one it is compared with, or two metrics on each side.
* Digests of workloads and scenarios are interchangeable in `score_history`, so those of the
  first commit are fixed (`FirstDigests`).  Retention two with three commits cuts the history;
  three requests are the smallest number with one running, one waiting and one that replaces it.

`CHECK_DEADLOCK FALSE` is in every configuration because every modelled system stops: a
call returns, captures end, a summary is reported, requests are used up.

**Fairness.**  The profiler's thread goes on (`WF` of `ProfilerStep` in `IsolatedCommand` and
`HttpCapture`): it is one thread that sleeps for five or twenty milliseconds between
polls and never waits for another one, except in `child.wait()`, whose action is only
enabled when the leader has ended.  `Measurement` has the same
thread (`WF` of `ProfilerStep \/ Failure`): its commands with a deadline end, as
`isolated_command` shows, but nothing is assumed of those without one; that they end is the
premise `[]<>(pc \notin Waits)` of `InterruptionEndsTheMeasurement`, because the code neither
gives `git`, `rustc`, `node` and `perf report` a deadline nor looks at the flag while they run.
GitHub starts waiting runs and runs go on or end
(`WF` of `JobStep`).  The clock's progress is a premise of the two properties that need
it (`DeadlineEndsTheCall`, `FixtureIsCleanedUp`), not part of a specification.  Nothing is
assumed of targets, fixtures, users or people who change files.  A leader that was out of
reach of the signal, since it may not be signalled or had gone to another group, is exempt
in the four properties of commands and fixtures: the code waits for it.

## 4. What is proved

The theorems hold for every value of the constants that satisfies the assumptions in the
modules.

* `IsolatedCommandProofs`: type correctness, `ForcedEndIsComplete`, `SamplesAreGenuine`,
  that the call never returns before its leader has ended, and `ImplementsContract`, for
  any set of descendants.  One inductive invariant, `IInv`: which places of the call know
  a cause, that nothing is spared before the signal, and that after it whatever runs is
  (`CauseIsKnown`, `ForcedAnswers`).  This is kept because what the signal could reach has
  ended and only a process that runs can fork, so that every later process descends from a spared
  one.
* `HttpCaptureProofs`: type correctness, `EvidenceOnlyAfterCleanup`, `EveryReturnCleansUp`,
  `TeardownAfterTermination`, and that evidence holds every declared batch, for any
  number of batches and with or without a teardown command.  Two invariants that do not
  need each other: `ProgressInv` for the counters, `FixtureInv` for the fixture and the
  order of the cleanup.  In the latter `FixtureIsOwned` says when the child is held and
  that the signal thus comes once, `SignalIsComplete` that what runs after it is spared, and
  `CleanupIsOrdered` what each place of the cleanup knows.  The steps of the workload have
  one common effect (`WorkloadEffects`), so the invariant is shown once for all of them.
* `CaptureBundleProofs`: type correctness, `EarlyInterruptionWritesNothing`, `ManifestCommits`,
  `CapturedIsPublished`, `PublishedIsFinal` and `ImplementsPublication`, for any number of
  captures, paths and artifacts, at whatever paths the captures are.  The invariant is about
  paths that are not shared: one capture at most is past the check of such a path, what that
  capture has written and hashed so far is there, and a whole manifest has a directory
  nobody writes to.  A step touches its own capture and directory only (`StepsAreLocal`), so
  what the invariant says of the others is kept.  A path becomes shared in one place only, the
  check by a second capture, and never ceases to be (`CapturesBegin`).  A shared path is final
  from when its captures have ended because its directory exists by then
  (`DirectoriesComeFirst`): a later capture is refused (`FinalIsKept`).
* `BundleReadingProofs`: `OnlyIntactIsAnswered`, `AnswerIsTheValidated` and
  `IntactIsNotRefused`, for any captures, also several at one path, any profiles, artifacts
  and changes.  A step is of the command, which changes no file, or of writers, about which
  the proof needs only that they leave alone what was checked while `stale` is not set, and
  the targets while `sound` is (`WritersKeep`).  `IInv` has a part for each thing the command
  knows: where it is (`Placed`) and the list of what it reads (`Planned`); that the targets
  found valid are intact and have the manifests they had (`StillValid`), and the one being
  validated as far as it was checked (`BeingValidated`); that what was read again is what was
  validated (`ReadAsValidated`); that the pairs a score read agree (`PairsAgree`); and why a
  sound target can have been diagnosed or refused (`Genuine`).  A score compares the manifests
  and metrics of both sides, and their HTTP evidence if either has any, which is why
  `PairsAgree` is enough for `Unscorable` to be false (`ReadsArePlanned`).
* `MeasurementProofs`: type correctness, `EvidenceIsComplete`, `MeasuredIsValid`,
  `RecordedJourneyWasDriven` and `ImplementsCapture`, for every accepted scenario, every value
  of the limits and any number of versions and edits.  Steps are first sorted by what they
  do (`Moves`): most only go to another place, which `PlaceInv` restricts by what the scenario
  asks for.  `TargetInv` places every sample: sample `b * count + n + 1` is transfer `n` of
  batch `b`.  `ProfileInv` ties profiles to requests, and `JourneyInv` says that with at most
  one edit the module on disk is the one first digested exactly if it was not edited.
  *Hotspots* (`HotspotsAccountForSamples`).  The invariant `HotspotsInv` says that a collected
  table is `HotspotsOf` of a recording that was not refused; the rest is about that operator,
  for any recording and limits.  Ranks in a strict and complete order of a finite set are all
  different and so each is taken (`RanksAgree`, `RankedInOrder`), and the first `k` of what is
  sorted are before all that were cut (`CutKeepsFirst`).  The order of the table is one because
  no two rows have one key; the order of the paths because `FramesBefore` compares frame by
  frame (`FramesBeforeOrders`) and sums are numbers (`SumIsNatural`).  Rows and keys
  correspond, so no group is lost or doubled (`HotspotsAccount`).  For the paths
  (`PathsAccount`): stacks with the same frames are the same, although a name with a semicolon
  makes two of them (`FramedDiffer` compares from the leaf to the root), and the last frame is
  the leaf, because the code refuses reports with a leaf that it would split.

  *Edited HTTP evidence* (`RevisedEvidenceIsRefused`).  Not only revisions: any evidence of the
  right shape that validation accepts with the capture's metrics is what some run would have
  produced (`ValidIsProducible`), because validation determines every sample's place, and
  any results in these places are those of an accepted output of curl.  The bounds that
  validation has of its own are those of an accepted scenario (`AcceptedIsWithin`).
* `ComparisonProofs`: `StatusIsCertain`, for any fields and at least two records (with one, a
  missing record would be known); `AliasCarriesNoWeight`, for any names and statistics: the
  score sees a document only through its canonical metrics, and each way to present them has
  the same ones; and `BetterNeverScoresLess`: the retention of a metric does not fall when the
  candidate gets better, also across the special cases of zero and the two rounding steps
  (`RetentionIsMonotonic`), and neither do the mean of a metric's scores and the mean of those
  (`AverageIsMonotonic`).
* `TraceSummaryProofs`, for traces of any length, any times, any names and any limits, also
  when events overlap without nesting.

  `FramedUnderInnermost`: `FramingInv` has two parts besides the
  property.  `Nested`: the events on the stack enclose each other from the bottom to the top,
  so the ones that enclose a new event are a first part of it (`EnclosingIs`), which is why
  popping from the top finds them.  `Superseded`: whatever a handled event will still enclose,
  an event on the stack, that one or a later one, encloses too; a popped event either
  ended before the new one started, or the new one outlasts it (`OverlapIsSuperseded`).

  `LongTasksAreTheLongest`: the list is cut after every event, and the invariant is that this
  keeps what cutting once would: what was cut is no longer than anything kept, and the list
  is full once anything was cut.

  `TruncationIsReported`: the property gives every event its path by a function that is
  defined by recursion over the events.  The invariant is stated of every function that
  satisfies the equation up to the events handled so far (`IsAncestry`, `IsSum`): such a
  function exists, a further event extends it, and the table's rows are the counts and sums
  of the events that have their path.

  `SectionsAreRecovered`, for any keys, any number of endpoints and every order in which
  endpoints of one instant were stored.  Two invariants.  `RecordInv`, of the application: the
  sections of a key nest (`SectionsNest`), and the endpoints of a key at an instant are as
  many as the starts and stops of its sections there (`EndpointsAgree`).  `PairInv`, of the
  loop: what waits is in order of time, the endpoints handled so far are those of the pairs and
  of what waits (`HandledAgree`), and, where nothing was left open and nothing touches, the
  pairs are different sections (`PairsAreSections`).  Such counts do not depend on the order
  of the endpoints (`CountPermuted`), which is what lets the sorted trace be compared with the
  recorded one (`ArrangedIs`).  No end is refused, because by any instant no more of a key
  have ended than begun (`NeverRefused`); and the begin on top of a stack is the start of a
  section that ends here and was not paired yet (`TopIsNext`), since one that starts
  later would have to end earlier and its end would have come first.  In the end as many are
  paired as there are, so all sections are (`MatchedCount`, `BagsAgree`).

  `MarkersAccountForSections`, also when sections touch and pairs are not the sections.  The
  counts of `RecordInv` and `PairInv` still say that as many pairs as sections of a key start,
  and stop, at each instant.  A sum of numbers is the number of those that reach one, and of
  those that reach two, and so on (`SumByLevels`), so sums of equally many equal starts, or
  stops, are equal (`MomentsAddUp`), and so is what lies between them (`SameTimes`).
  The table is a fold over the measures; `FoldLeft` takes the largest index off a set of
  indices, so its value is that of a recursion over prefixes once the recursion is shown to
  have a solution (`FoldExists`).  After each measure a marker in the table has the time of
  its measures, and one that is not in it did not come yet or found the table full
  (`TableGrows`).  `ReportRight` is the cut at the end.
* `ScoreHistoryProofs`: `OneEntryPerCommit`, `ChartIsOneCohort`, `NothingIsForgotten`, and that
  the sort always has a result, for any number of commits and requests, any offsets and any
  retention.  The invariant says that a run that comes to append has the branch as it is, since
  the concurrency group lets no second run change it, and that what it publishes is the
  branch with its entry; both are in strict order of time, which only entries of one commit
  could break.

Theorems of the library that take an operator as a parameter cannot be used by the provers,
among them the induction theorems.  Where a function is defined by recursion (sums over sets,
`FlattenSeq`, ancestries), the proofs use that a set of numbers has a least element
(`LeastNatural`, from the well-foundedness of the numbers): a least counterexample is
refuted by the one before it.

Only model-checked is liveness under fairness, which is beyond the provers:
`DeadlineEndsTheCall`, `InterruptionEndsTheCall`, `FixtureIsCleanedUp`,
`InterruptionEndsTheCapture`, `InterruptionEndsTheMeasurement` and `LastRequestIsServed`.
Every invariant and every other action property that a passing run checks is a theorem; the
type invariant of `CaptureBundle` is only proved.

## 5. Where code and documents disagree

1. `docs/http-workloads.md:28` says that the fixture's group is terminated and reaped.
   When `try_wait` finds the fixture ended it reaps it, and `stop()` signals its number
   afterwards (`http_workload.rs:416`): run `http_capture_reuse`.
2. `docs/architecture.md:73` says that evidence is never updated in place.  The output
   path is checked before the measurement and created with `create_dir_all` after it
   (`bundle.rs:140`): run `capture_bundle_shared`.
3. `docs/js-wasm-boundary-markers.md:10` promises stack semantics for repeated ids.  At
   equal timestamps begins are sorted before ends (`chromium_trace.rs:317`), so touching
   sections are mispaired: run `boundary_pairing_touching`.
4. `docs/score-history.md:50` says that the page shows the latest comparison.  Timestamps
   with different offsets are compared as text (`append-score-history.mjs:96`): run
   `score_history_latest`.

Seen while modelling, without a run of their own:

* `docs/score-history.md:26` says that 100 means the candidate meets or beats its parent.
  Means of rounded scores are rounded again (`score.rs:335`), so a loss of less than one
  per cent in one metric can still be 100.
* `docs/http-workloads.md:28` also says that a successful capture has terminated the fixture's
  group.  Signalling a group succeeds when one of its members may be signalled
  (`capture.rs:283`), so evidence is returned while a member with other credentials lives on.
  This is what `spared` stands for in `EvidenceOnlyAfterCleanup`.
* `docs/architecture.md:74` says that any mutation is detected through the SHA-256 of
  artifacts.  Documents are hashed and then opened again for the answer (`bundle.rs:528`,
  `evidence.rs:107`, `score.rs:102`): what is changed in between is answered from.  This is
  what `stale` stands for in `OnlyIntactIsAnswered` and `AnswerIsTheValidated`.
* A second alias of a metric is dropped without being compared (`score.rs:247`), although a
  first one that differs makes the document be refused.
* `docs/http-workloads.md:63` says that a batch timeout fails the capture.  A batch is
  timed out by the deadline of its command (`http_workload.rs:651`), and validation refuses
  batches that took more than a second longer (`http_workload.rs:868`): when the profiler is
  held up for that long between the two, the capture succeeds and its bundle is invalid.
  This is `late`, which `MeasuredIsValid` exempts.
* Frames of a folded call path are separated by a semicolon, which a symbol may contain
  (`[T; N]` in Rust).  A row that ends with such a symbol makes the whole report be refused
  (`native_perf.rs:523`); inside a path it splits a frame in two.
* Temporary directories are removed by their owner's `Drop`; a second signal or `SIGKILL`
  leaves them behind.

## 6. What is not modelled

* Durations, resident memory and other measured values; statistics (`capture.rs`
  372-396).  They are arithmetic on one thread.
* The contents of documents in `BundleReading` beyond who wrote them: which fields of two
  documents disagree is left open there, and files that are in a bundle's directory but not
  in its manifest are not there.  A path is used for captures of one workload.
* Power failures: files are not synced, and a manifest may then be on disk before the
  artifacts it names.
* Commits made in one and the same second.
* The extraction of events from a trace's JSON and the choice of its main thread.
* Of scenarios: the plan, the formats of names, paths and URLs, and other checks of a single
  value.  Of native hotspots: confidence levels, the texts of the report's columns, and the
  stand-in for a symbol that is missing; all samples of a file are at one line of one object,
  so keys differ in symbol and file only.  Of the browser capture: what the driver does inside
  Chromium.  Of HTTP captures: curl's configuration, sizes, versions and durations.
* The environment's fingerprint, which is input and formatting without state.
* The site's results and validation pages, its build and the other workflows.
* In `Comparison`: doubles, which can round where the exact rationals do not; which fields
  an identity has.

## 7. Plan

The order puts what can lose or falsify evidence first.  Done: the modules above, among them
the collectors and the reading of bundles with its proofs.  Next:

1. *Unlisted files* (`score.rs:76`) in `BundleReading`: a file beside the manifest that no
   digest covers.
2. *Site.*  The results page: answers of earlier runs against `latestRun`
   (`site/results/app.ts`), and the browser's validator (`site/validator.mts`) against the
   command line's.
3. *Trace.*  The choice of the main thread and the extraction of its events.
