---------------------------- MODULE Measurement ----------------------------
(***************************************************************************)
(* What capture_bundle does before it writes anything (src/bundle.rs,      *)
(* lines 59 to 139), which CaptureBundle takes as one step: the scenario,  *)
(* the environment, the iterations of the target or the batches of the     *)
(* HTTP workload, the native profile, and the browser's journey; then what *)
(* validate_bundle makes of the documents.                                 *)
(*                                                                         *)
(* The commands it runs end with a result of CommandResults, as            *)
(* IsolatedCommand shows; the fixture of an HTTP capture and its cleanup   *)
(* are HttpCapture's, and a failing HTTP capture ends here at once.  The   *)
(* user may interrupt and kill at any step, and someone edits the          *)
(* journey's module.  The output of curl and the recording of perf are     *)
(* chosen when they are read.                                              *)
(***************************************************************************)
EXTENDS Scenario, NativeHotspots, HttpEvidence, CommandResults

CONSTANTS
  Versions,  \* contents of the journey's module
  Unknown,   \* no version
  MaxEdits   \* bounds the edits between the two digests

ASSUME VersionsAssumption == Unknown \notin Versions
ASSUME EditsAssumption == MaxEdits \in Nat

VARIABLES
  scenario,     \* what the scenario's file declares
  pc,           \* where the capture is
  running,      \* a command with a deadline runs
  interrupted,  \* the flag INTERRUPTED
  warmups,      \* the results of the warm-ups
  samples,      \* the measured samples
  batches,      \* the measured batches
  recording,    \* perf.data
  hotspots,     \* hotspots.json
  module,       \* the journey's module on disk
  edits,        \* its edits since the first digest
  digest,       \* journey_digest_before
  driven,       \* history: the version the driver loaded
  browser       \* browser-runtime.json

target  == <<warmups, samples, batches>>
perf    == <<recording, hotspots>>
journey == <<module, edits, digest, driven, browser>>
vars == <<scenario, pc, running, interrupted, target, perf, journey>>

Commands == {"warmup", "measure", "record", "drive"}   \* execute_isolated_command
Waits == {"environment", "probe", "report", "folded", "detect"}   \* Command::output
Ends == {"measured", "failed", "misdirected", "killed"}
Steps == Commands \cup Waits
           \cup {"check", "load", "fixture", "cleanup", "native", "browser", "digest", "trace", "last"}
           \cup Ends

NoJourney == [collected |-> FALSE, journey |-> Unknown, identified |-> FALSE]

Init ==
  /\ scenario \in Scenarios
  /\ pc = "check" /\ running = FALSE /\ interrupted = FALSE
  /\ warmups = <<>> /\ samples = <<>> /\ batches = <<>>
  /\ recording = {} /\ hotspots = NotCollected
  /\ module \in Versions /\ edits = 0 /\ digest = Unknown /\ driven = Unknown
  /\ browser = NoJourney

\* What a process held goes with it.
End(step) ==
  /\ pc' = step /\ running' = FALSE
  /\ warmups' = <<>> /\ samples' = <<>> /\ batches' = <<>>
  /\ recording' = {} /\ hotspots' = NotCollected
  /\ digest' = Unknown /\ driven' = Unknown /\ browser' = NoJourney /\ edits' = 0
  /\ UNCHANGED <<scenario, interrupted, module>>

Goto(step) == pc' = step /\ running' = FALSE

\* ensure_not_interrupted between two parts.
GotoAnyway(step) == Goto(step) /\ UNCHANGED <<scenario, interrupted, target, perf, journey>>

GotoUnlessInterrupted(step) ==
  IF interrupted THEN End("failed")
  ELSE Goto(step) /\ UNCHANGED <<scenario, interrupted, target, perf, journey>>

Fails(step) == pc = step /\ End("failed")
-----------------------------------------------------------------------------
(* capture_bundle. *)

\* The output path is not there yet; CaptureBundle has the case that it is.
Check == pc = "check" /\ GotoUnlessInterrupted("load")

Load ==
  /\ pc = "load"
  /\ IF AcceptedScenario(scenario) THEN GotoUnlessInterrupted("environment") ELSE End("failed")

\* detect_environment, and the dispatch on the target.
DetectEnvironment ==
  /\ pc = "environment"
  /\ GotoUnlessInterrupted(CASE scenario.target = "command" -> "warmup"
                             [] scenario.target = "http" -> "fixture"
                             [] OTHER -> "native")

\* Whether capture_native_perf, and then capture_browser_chromium, is called; each has
\* a look at the target itself.
ProfileIfRequested ==
  /\ pc = "native"
  /\ GotoUnlessInterrupted(IF Requests(scenario, "native-perf") THEN "probe" ELSE "browser")

DriveIfRequested ==
  /\ pc = "browser"
  /\ IF ~Requests(scenario, "browser-chromium") THEN GotoUnlessInterrupted("last")
     ELSE IF scenario.target # "browser" /\ ~interrupted THEN End("misdirected")
     ELSE GotoUnlessInterrupted("detect")

FinishWithoutLook ==
  /\ pc = "last" /\ Goto("measured")
  /\ UNCHANGED <<scenario, interrupted, target, perf, journey>>

Finish == pc = "last" /\ GotoUnlessInterrupted("measured")

MeasuredSoFar == IF scenario.target = "http" THEN Len(batches) ELSE Len(samples)

\* execute_isolated_command has a look at the flag before it starts anything.
BeginCommandOnceMore ==
  /\ pc \in Commands /\ ~running
  /\ pc = "warmup" => Len(warmups) < scenario.warmups
  /\ pc = "measure" => MeasuredSoFar <= scenario.measured
  /\ IF interrupted THEN End("failed")
     ELSE /\ running' = TRUE
          /\ UNCHANGED <<scenario, pc, interrupted, target, perf, journey>>

BeginCommand ==
  /\ pc \in Commands /\ ~running
  /\ pc = "warmup" => Len(warmups) < scenario.warmups
  /\ pc = "measure" => MeasuredSoFar < scenario.measured
  /\ IF interrupted THEN End("failed")
     ELSE /\ running' = TRUE
          /\ UNCHANGED <<scenario, pc, interrupted, target, perf, journey>>

\* A command that runs ends with one of Samples, or by Failure.
Runs(step) == pc = step /\ running
-----------------------------------------------------------------------------
(* capture_metrics, and the batches of capture_http. *)

\* The outputs of curl that capture_batch accepts; timed out, or with any other, it fails.
BatchOutputs ==
  {lines \in Outputs(scenario.count) :
     \E exit \in {"ok", "failed"} : Accepted(lines, scenario.count, exit)}

WarmupResults ==
  IF scenario.target = "command" THEN Samples
  ELSE {IF \A i \in 1..Len(lines) : lines[i].result = "expected" THEN "ok" ELSE "failed" :
          lines \in BatchOutputs}

WarmupIgnoringFailures ==
  /\ Runs("warmup")
  /\ \E result \in WarmupResults : warmups' = Append(warmups, result)
  /\ Goto("warmup")
  /\ UNCHANGED <<scenario, interrupted, samples, batches, perf, journey>>

Warmup ==
  /\ Runs("warmup")
  /\ \E result \in WarmupResults : result = "ok" /\ warmups' = Append(warmups, result)
  /\ Goto("warmup")
  /\ UNCHANGED <<scenario, interrupted, samples, batches, perf, journey>>

WarmedUp ==
  /\ pc = "warmup" /\ ~running /\ Len(warmups) = scenario.warmups
  /\ Goto("measure")
  /\ UNCHANGED <<scenario, interrupted, target, perf, journey>>

\* A failed or timed-out execution is a sample like any other.
MeasureCommand ==
  /\ Runs("measure") /\ scenario.target = "command"
  /\ \E result \in Samples :
       samples' = Append(samples, [iteration |-> Len(samples) + 1, succeeded |-> result = "ok"])
  /\ Goto("measure")
  /\ UNCHANGED <<scenario, interrupted, warmups, batches, perf, journey>>

\* The profiler may be held up between the end of curl and its look at the clock.
MeasureBatch ==
  /\ Runs("measure") /\ scenario.target = "http"
  /\ \E lines \in BatchOutputs :
       samples' = samples \o BatchSamples(lines, Len(batches), scenario.endpoints)
  /\ \E late \in BOOLEAN :
       batches' = Append(batches, [iteration |-> Len(batches), late |-> late])
  /\ Goto("measure")
  /\ UNCHANGED <<scenario, interrupted, warmups, perf, journey>>

Measured ==
  /\ pc = "measure" /\ ~running
  /\ MeasuredSoFar = scenario.measured
  /\ Goto(IF scenario.target = "http" THEN "cleanup" ELSE "native")
  /\ UNCHANGED <<scenario, interrupted, target, perf, journey>>

\* The fixture is up and healthy, and later it is gone; neither fails for the flag alone.
FixtureStep(from, to) ==
  /\ pc = from /\ Goto(to)
  /\ UNCHANGED <<scenario, interrupted, target, perf, journey>>
-----------------------------------------------------------------------------
(* capture_native_perf. *)

\* detect_native_perf and detect_target_toolchain_fingerprint.
Probe ==
  /\ pc = "probe"
  /\ IF scenario.target # "command" THEN End("misdirected")
     ELSE Goto("record") /\ UNCHANGED <<scenario, interrupted, target, perf, journey>>

Record ==
  /\ Runs("record") /\ Goto("report")
  /\ UNCHANGED <<scenario, interrupted, target, perf, journey>>

Report ==
  /\ pc = "report" /\ Goto("folded")
  /\ UNCHANGED <<scenario, interrupted, target, perf, journey>>

\* The second report, and the parsing of both.
ReportPaths ==
  /\ pc = "folded"
  /\ \E r \in Recordings :
       IF RefusesPaths(r) THEN End("failed")
       ELSE /\ recording' = r /\ hotspots' = HotspotsOf(r)
            /\ Goto("browser")
            /\ UNCHANGED <<scenario, interrupted, target, journey>>
-----------------------------------------------------------------------------
(* capture_browser_chromium. *)

DetectBrowser ==
  /\ pc = "detect" /\ Goto("digest")
  /\ UNCHANGED <<scenario, interrupted, target, perf, journey>>

DigestJourney ==
  /\ pc = "digest"
  /\ digest' = module /\ edits' = 0 /\ Goto("drive")
  /\ UNCHANGED <<scenario, interrupted, target, perf, module, driven, browser>>

\* The driver imports the module at some moment of its run.
LoadJourney ==
  /\ pc = "drive" /\ running /\ driven = Unknown
  /\ driven' = module
  /\ UNCHANGED <<scenario, pc, running, interrupted, target, perf, module, edits, digest, browser>>

Drive ==
  /\ Runs("drive") /\ driven # Unknown
  /\ Goto("trace")
  /\ UNCHANGED <<scenario, interrupted, target, perf, journey>>

\* validate_runtime_metadata: the driver gave the versions it ran, and the digests, of which
\* the journey's stands for all three, are there together or, in old bundles, missing.
ValidRuntime(runtime) == runtime.identified

\* The trace, the driver's metadata, and the second digest.
ReadTraceUndigested ==
  /\ pc = "trace"
  /\ browser' = [collected |-> TRUE, journey |-> digest, identified |-> TRUE]
  /\ Goto("last")
  /\ UNCHANGED <<scenario, interrupted, target, perf, module, edits, digest, driven>>

ReadTrace ==
  /\ pc = "trace"
  /\ \E identified \in BOOLEAN :
       LET runtime == [collected |-> TRUE, journey |-> digest, identified |-> identified]
       IN IF module # digest \/ ~ValidRuntime(runtime) THEN End("failed")
          ELSE /\ browser' = runtime /\ Goto("last")
               /\ UNCHANGED <<scenario, interrupted, target, perf, module, edits, digest, driven>>

ProfilerStep ==
  \/ Check \/ Load \/ ProfileIfRequested \/ DriveIfRequested \/ Finish
  \/ BeginCommand \/ Warmup \/ WarmedUp \/ MeasureCommand \/ MeasureBatch \/ Measured
  \/ FixtureStep("fixture", "warmup") \/ FixtureStep("cleanup", "native")
  \/ Record \/ DigestJourney \/ Drive \/ ReadTrace

\* A command that ends otherwise than asked, or cannot be run; a file that is not there or
\* not as it should be.
Failure ==
  \/ running /\ End("failed")
  \/ \E step \in {"load", "fixture", "cleanup", "digest", "trace"} : Fails(step)

\* Commands without a deadline end, if they do.
WaitEnds ==
  \/ DetectEnvironment \/ Probe \/ Report \/ ReportPaths \/ DetectBrowser
  \/ \E step \in Waits : Fails(step)
-----------------------------------------------------------------------------
(* Users. *)

Signal ==
  /\ pc \notin Ends /\ ~interrupted
  /\ interrupted' = TRUE
  /\ UNCHANGED <<scenario, pc, running, target, perf, journey>>

\* A second signal, or SIGKILL.
Kill == pc \notin Ends /\ End("killed")

\* Edits before the first digest do not matter.
Edit ==
  /\ pc \in {"drive", "trace"} /\ edits < MaxEdits
  /\ module' \in Versions \ {module}
  /\ edits' = edits + 1
  /\ UNCHANGED <<scenario, pc, running, interrupted, target, perf, digest, driven, browser>>

Next == ProfilerStep \/ Failure \/ WaitEnds \/ LoadJourney \/ Signal \/ Kill \/ Edit

\* IsolatedCommand shows that a command with a deadline ends.
Spec == Init /\ [][Next]_vars /\ WF_vars(ProfilerStep \/ Failure)
-----------------------------------------------------------------------------
(* validate_bundle, of the documents' content. *)

Metrics ==
  IF scenario.target = "http"
    THEN MetricsFromEvidence(EvidenceOf(scenario, batches, samples))
    ELSE [samples |-> samples, batches |-> 0]

\* The optional artifacts capture_bundle lists in the manifest.
Listed ==
  (IF scenario.target = "http" THEN {"http-workload"} ELSE {})
    \cup (IF hotspots.collected THEN {"native-report"} ELSE {})
    \cup (IF browser.collected THEN {"trace", "trace-summary", "browser-runtime"} ELSE {})

\* validate_hotspot_artifacts.
HotspotsAreValid ==
  /\ "native-report" \in Listed <=> Requests(scenario, "native-perf")
  /\ hotspots.collected <=> Requests(scenario, "native-perf")

\* validate_browser_artifacts.
BrowserIsValid ==
  LET listed == Listed \cap {"trace", "trace-summary", "browser-runtime"}
  IN IF Requests(scenario, "browser-chromium")
       THEN /\ scenario.target = "browser" /\ Cardinality(listed) = 3
            /\ Metrics.samples = <<>>
            /\ ValidRuntime(browser)
       ELSE listed = {}

HttpIsValid ==
  IF Requests(scenario, "http-curl")
    THEN /\ "http-workload" \in Listed
         /\ ValidEvidence(scenario, EvidenceOf(scenario, batches, samples), Metrics)
    ELSE "http-workload" \notin Listed /\ scenario.target # "http"
-----------------------------------------------------------------------------
(* What must hold. *)

TypeOK ==
  /\ scenario \in Scenarios
  /\ pc \in Steps /\ running \in BOOLEAN /\ interrupted \in BOOLEAN
  /\ running => pc \in Commands
  /\ warmups \in Seq(Answers) /\ Len(warmups) <= scenario.warmups
  /\ Len(batches) <= scenario.measured
  /\ Len(samples) <= scenario.measured * scenario.count
  /\ module \in Versions /\ edits \in 0..MaxEdits
  /\ {digest, driven, browser.journey} \subseteq Versions \cup {Unknown}

\* A capture that comes to write a bundle has all the evidence its scenario asks for and
\* no other: it ran every warm-up, all of which succeeded, has one sample for each
\* measured execution or transfer, in order, and profiles exactly if they were requested.
\* No accepted scenario gets a collector to a target it cannot profile.
EvidenceIsComplete ==
  /\ pc # "misdirected"
  /\ pc = "measured" =>
       /\ warmups = [i \in 1..scenario.warmups |-> "ok"]
       /\ scenario.target = "command" =>
            /\ Len(samples) = scenario.measured
            /\ \A i \in 1..scenario.measured : samples[i].iteration = i
       /\ scenario.target = "http" =>
            /\ Len(samples) = scenario.measured * scenario.count
            /\ \A b \in 0..scenario.measured - 1, n \in 0..scenario.count - 1 :
                 LET s == samples[b * scenario.count + n + 1]
                 IN s.iteration = b /\ s.index = n
       /\ scenario.target = "browser" => samples = <<>>
       /\ hotspots.collected <=> Requests(scenario, "native-perf")
       /\ browser.collected <=> scenario.target = "browser"

\* What a capture returns, validate_bundle does not refuse, unless the profiler was held
\* up for more than a second at the end of a batch (see the README).
MeasuredIsValid ==
  pc = "measured" /\ (\A i \in 1..Len(batches) : ~batches[i].late) =>
    HotspotsAreValid /\ BrowserIsValid /\ HttpIsValid

\* The hotspots account for what perf recorded: no sample is lost, counted twice or
\* credited to another function, what was cut is reported, and the heaviest are kept.
HotspotsAccountForSamples ==
  pc = "measured" /\ hotspots.collected =>
    TableAccountsFor(hotspots, recording) /\ PathsAccountFor(hotspots, recording)

\* The digest in the browser's metadata is that of the module the driver ran, unless it
\* was edited and edited back, which no comparison of two digests can tell.
RecordedJourneyWasDriven ==
  browser.collected => browser.journey = driven \/ edits >= 2

\* HTTP evidence in which a sample was edited, removed, doubled or moved passes validation
\* only if some run of the workload has that evidence, and these metrics.
RevisedEvidenceIsRefused ==
  pc = "measured" /\ scenario.target = "http" =>
    \A e \in Revisions(scenario, EvidenceOf(scenario, batches, samples)) :
      ValidEvidence(scenario, e, Metrics) =>
        Producible(scenario, e) /\ MetricsFromEvidence(e) = Metrics

\* All of this is one step of CaptureBundle, which an interruption makes fail wherever it
\* comes.
Phase ==
  CASE pc = "check" -> "check"
    [] pc = "measured" -> "create"
    [] pc \in {"failed", "misdirected"} -> "failed"
    [] pc = "killed" -> "killed"
    [] OTHER -> "measure"

Bundle == INSTANCE CaptureBundle WITH
  Captures <- {"capture"}, Dirs <- {"output"}, Files <- 1, Required <- 1,
  NoOne <- "no one",
  output <- [c \in {"capture"} |-> "output"],
  pc <- [c \in {"capture"} |-> Phase],
  done <- [c \in {"capture"} |-> 0],
  digests <- [c \in {"capture"} |-> [n \in {1} |-> [by |-> "no one", whole |-> FALSE]]],
  interrupted <- [c \in {"capture"} |-> interrupted],
  early <- [c \in {"capture"} |-> interrupted], shared <- {},
  exists <- [d \in {"output"} |-> FALSE],
  file <- [d \in {"output"} |-> [n \in {1} |-> [by |-> "no one", whole |-> FALSE]]],
  manifest <- [d \in {"output"} |->
                 [by |-> "no one", whole |-> FALSE,
                  digests |-> [n \in {1} |-> [by |-> "no one", whole |-> FALSE]]]]

ImplementsCapture == Bundle!Spec

\* A capture that is interrupted ends without a bundle, if the commands it runs without a
\* deadline end: git, uname, rustc, node and perf.
InterruptionEndsTheMeasurement ==
  []<>(pc \notin Waits) => (interrupted ~> pc \in {"failed", "misdirected", "killed"})
=============================================================================
