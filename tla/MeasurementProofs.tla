------------------------- MODULE MeasurementProofs -------------------------
(***************************************************************************)
(* Proofs about Measurement for every scenario, every limit of it, and     *)
(* every number of versions and edits of a journey.                        *)
(***************************************************************************)
EXTENDS Measurement, FunctionTheorems, FiniteSetTheorems, SequenceTheorems,
        WellFoundedInduction, TLAPS

-----------------------------------------------------------------------------
(* Arithmetic and cardinalities. *)

\* Where transfer r of batch q is, counted from zero.
LEMMA DivMod ==
  ASSUME NEW c \in Nat \ {0}, NEW q \in Nat, NEW r \in 0..c - 1
  PROVE  (q * c + r) \div c = q /\ (q * c + r) % c = r
  OBVIOUS

LEMMA Monotone ==
  ASSUME NEW c \in Nat, NEW m \in Nat, NEW n \in Nat, m <= n
  PROVE  m * c <= n * c
  OBVIOUS

LEMMA Product ==
  ASSUME NEW c \in Nat, NEW m \in Nat
  PROVE  m * c \in Nat /\ (m + 1) * c = m * c + c
  OBVIOUS

LEMMA PlaceBound ==
  ASSUME NEW c \in Nat, NEW m \in Nat, NEW b \in 0..m - 1, NEW n \in 0..c - 1
  PROVE  b * c + n + 1 \in 1..m * c
  OBVIOUS

LEMMA AddedElement ==
  ASSUME NEW S, NEW x, NEW k \in Nat, IsFiniteSet(S), Cardinality(S) = k, x \notin S
  PROVE  IsFiniteSet(S \cup {x}) /\ Cardinality(S \cup {x}) = k + 1
<1>1. Cardinality(S \cup {x}) = IF x \in S THEN Cardinality(S) ELSE Cardinality(S) + 1
  BY FS_AddElement
<1>2. IsFiniteSet(S \cup {x})
  BY FS_AddElement
<1> QED
  BY <1>1, <1>2

LEMMA ThreeElements ==
  ASSUME NEW a, NEW b, NEW c, a # b, a # c, b # c
  PROVE  Cardinality({a, b, c}) = 3
<1>1. IsFiniteSet({a}) /\ Cardinality({a}) = 1
  BY FS_Singleton
<1>2. IsFiniteSet({a} \cup {b}) /\ Cardinality({a} \cup {b}) = 1 + 1
  BY <1>1, AddedElement
<1>3. IsFiniteSet({a, b}) /\ Cardinality({a, b}) = 2
  <2>1. {a} \cup {b} = {a, b}
    OBVIOUS
  <2> QED
    BY <1>2, <2>1
<1>4. Cardinality({a, b} \cup {c}) = 2 + 1
  BY <1>3, AddedElement
<1>5. {a, b} \cup {c} = {a, b, c}
  OBVIOUS
<1> QED
  BY <1>4, <1>5
-----------------------------------------------------------------------------
(* Scenarios. *)

LEMMA ScenarioTypes ==
  ASSUME NEW s \in Scenarios
  PROVE  /\ s.target \in Targets
         /\ s.warmups \in Nat /\ s.measured \in Nat /\ s.count \in Nat /\ s.endpoints \in Nat
         /\ s.target # "http" => s.count = 1
  BY ScenarioLimits DEF Scenarios, ScenarioLimits

LEMMA OneCollector ==
  ASSUME NEW s, NEW collector, NEW other, s.collectors = <<collector>>
  PROVE  Requests(s, other) <=> other = collector
  BY DEF Requests, Contains

\* What an accepted scenario requests.
LEMMA AcceptedRequests ==
  ASSUME NEW s \in Scenarios, AcceptedScenario(s)
  PROVE  /\ Requests(s, "native-perf") => s.target = "command"
         /\ Requests(s, "browser-chromium") <=> s.target = "browser"
         /\ Requests(s, "http-curl") <=> s.target = "http"
         /\ s.target = "browser" => s.warmups = 0
         /\ s.target = "http" => s.count >= 1 /\ s.endpoints >= 1
<1>0. s.target \in Targets /\ s.count \in Nat /\ s.endpoints \in Nat
  BY ScenarioTypes
<1>1. CASE s.target = "command"
  BY <1>1 DEF AcceptedScenario, AcceptedCommand
<1>2. CASE s.target = "browser"
  <2>1. AcceptedBrowser(s)
    BY <1>2 DEF AcceptedScenario
  <2>2. s.collectors = <<"browser-chromium">> /\ s.warmups = 0
    BY <2>1 DEF AcceptedBrowser
  <2> QED
    BY <1>2, <2>2, OneCollector
<1>3. CASE s.target = "http"
  <2>1. AcceptedHttp(s)
    BY <1>3 DEF AcceptedScenario
  <2>2. /\ s.collectors = <<"http-curl">>
        /\ s.count \in 1..MaxRequests /\ s.endpoints \in 1..MaxEndpoints
    BY <2>1 DEF AcceptedHttp
  <2>3. s.count >= 1 /\ s.endpoints >= 1
    BY <2>2, ScenarioLimits DEF ScenarioLimits
  <2> QED
    BY <1>3, <2>2, <2>3, OneCollector
<1> QED
  BY <1>0, <1>1, <1>2, <1>3 DEF Targets

\* validate_evidence's own bounds hold of every HTTP scenario that load_scenario accepts.
LEMMA AcceptedIsWithin ==
  ASSUME NEW s \in Scenarios, AcceptedScenario(s), s.target = "http"
  PROVE  WithinBounds(s)
<1>1. AcceptedHttp(s) /\ s.measured \in 1..MaxMeasured
  BY DEF AcceptedScenario
<1>2. s.warmups \in Nat /\ s.measured \in Nat /\ s.measured >= 1 /\ s.count \in Nat
  BY <1>1, ScenarioTypes, ScenarioLimits DEF ScenarioLimits
<1>3. s.measured \in 1..MaxHttpBatches
  BY <1>1, <1>2, ScenarioLimits DEF AcceptedHttp, ScenarioLimits
<1>4. (s.measured + s.warmups) * s.count = s.count * (s.warmups + s.measured)
  BY <1>2
<1> QED
  BY <1>1, <1>3, <1>4 DEF AcceptedHttp, WithinBounds
-----------------------------------------------------------------------------
(* The samples of a batch. *)

HttpSamples == [iteration : Nat, index : Nat, endpoint : Nat, result : Reported, succeeded : BOOLEAN]

\* A sample is the one declared for its place, within the limits, and a success only with
\* the declared status.
Declared(s, batch, index, endpoints) ==
  /\ s.iteration = batch /\ s.index = index /\ s.endpoint = index % endpoints
  /\ s.result \in Results /\ (s.succeeded <=> s.result = "expected")

LEMMA BatchShape ==
  ASSUME NEW lines \in BatchOutputs, NEW b \in Nat, NEW e \in Nat \ {0}, scenario.count \in Nat
  PROVE  LET s == BatchSamples(lines, b, e)
         IN /\ s \in Seq(HttpSamples) /\ Len(s) = scenario.count
            /\ \A i \in 1..scenario.count : Declared(s[i], b, i - 1, e)
<1> DEFINE n == scenario.count
           line(i) == CHOOSE l \in ToSet(lines) : l.index = i - 1
<1>1. /\ lines \in Outputs(n) /\ Len(lines) = n
      /\ Indices(lines) = 0..n - 1
      /\ \A l \in ToSet(lines) : l.result \in Results
  BY DEF BatchOutputs, Accepted
<1>2. lines \in Seq(LinesFor(n))
  BY <1>1 DEF Outputs
<1>3. ToSet(lines) \subseteq LinesFor(n)
  BY <1>2 DEF ToSet
<1>4. ASSUME NEW i \in 1..n
      PROVE  line(i) \in ToSet(lines) /\ line(i) \in LinesFor(n) /\ line(i).index = i - 1
  <2>1. i - 1 \in Indices(lines)
    BY <1>1
  <2>2. \E l \in ToSet(lines) : l.index = i - 1
    BY <2>1 DEF Indices
  <2> QED
    BY <1>3, <2>2
<1>5. BatchSamples(lines, b, e) =
        [i \in 1..n |->
           [iteration |-> b, index |-> line(i).index, endpoint |-> line(i).index % e,
            result |-> line(i).result, succeeded |-> line(i).result = "expected"]]
  BY <1>1 DEF BatchSamples, Sorted
<1> HIDE DEF line
<1>6. ASSUME NEW i \in 1..n
      PROVE  /\ BatchSamples(lines, b, e)[i] \in HttpSamples
             /\ Declared(BatchSamples(lines, b, e)[i], b, i - 1, e)
  <2> DEFINE good == line(i).result = "expected"
             sample == [iteration |-> b, index |-> i - 1, endpoint |-> (i - 1) % e,
                        result |-> line(i).result, succeeded |-> good]
  <2>1. line(i).index = i - 1 /\ line(i).result \in Results
    BY <1>1, <1>4
  <2>2. (i - 1) % e \in Nat /\ i - 1 \in Nat
    OBVIOUS
  <2>3. BatchSamples(lines, b, e)[i] = sample
    BY <1>5, <2>1
  <2>4. good \in BOOLEAN
    OBVIOUS
  <2>5. Declared(sample, b, i - 1, e)
    BY <2>1 DEF Declared
  <2>6. sample \in HttpSamples
    <3> HIDE DEF good
    <3> QED
      BY <2>1, <2>2, <2>4 DEF HttpSamples, Reported
  <2> QED
    BY <2>3, <2>5, <2>6
<1>7. BatchSamples(lines, b, e) \in Seq(HttpSamples) /\ Len(BatchSamples(lines, b, e)) = n
  <2>1. BatchSamples(lines, b, e) \in [1..n -> HttpSamples]
    BY <1>5, <1>6
  <2> QED
    BY <2>1
<1> QED
  BY <1>6, <1>7
-----------------------------------------------------------------------------
(* Where a capture can be, given its scenario. *)

PlaceInv ==
  /\ scenario \in Scenarios /\ pc \in Steps
  /\ running \in BOOLEAN /\ interrupted \in BOOLEAN
  /\ running => pc \in Commands
  /\ pc # "misdirected"
  /\ pc \notin {"check", "load", "failed", "killed"} => AcceptedScenario(scenario)
  /\ pc \in {"fixture", "cleanup"} => scenario.target = "http"
  /\ pc \in {"warmup", "measure"} => scenario.target # "browser"
  /\ pc \in {"probe", "record", "report", "folded"} => Requests(scenario, "native-perf")
  /\ pc \in {"detect", "digest", "drive", "trace"} => Requests(scenario, "browser-chromium")

\* Steps that only go on to another part.
Goes(to) == Goto(to) /\ UNCHANGED <<scenario, interrupted, target, perf, journey>>

Advance ==
  \/ pc = "check" /\ ~interrupted /\ Goes("load")
  \/ pc = "load" /\ AcceptedScenario(scenario) /\ Goes("environment")
  \/ pc = "environment" /\ scenario.target = "command" /\ Goes("warmup")
  \/ pc = "environment" /\ scenario.target = "http" /\ Goes("fixture")
  \/ pc = "environment" /\ scenario.target = "browser" /\ Goes("native")
  \/ pc = "fixture" /\ Goes("warmup")
  \/ WarmedUp
  \/ Measured
  \/ pc = "cleanup" /\ Goes("native")
  \/ pc = "native" /\ Requests(scenario, "native-perf") /\ Goes("probe")
  \/ pc = "native" /\ ~Requests(scenario, "native-perf") /\ Goes("browser")
  \/ pc = "probe" /\ Goes("record")
  \/ Record \/ Report
  \/ pc = "browser" /\ Requests(scenario, "browser-chromium") /\ Goes("detect")
  \/ pc = "browser" /\ ~Requests(scenario, "browser-chromium") /\ Goes("last")
  \/ DetectBrowser
  \/ Drive
  \/ pc = "last" /\ ~interrupted /\ Goes("measured")

Begins ==
  /\ pc \in Commands
  /\ pc = "warmup" => Len(warmups) < scenario.warmups
  /\ pc = "measure" => MeasuredSoFar < scenario.measured
  /\ running' = TRUE
  /\ UNCHANGED <<scenario, pc, interrupted, target, perf, journey>>

Profiled ==
  /\ pc = "folded"
  /\ \E r \in Recordings : ~RefusesPaths(r) /\ recording' = r /\ hotspots' = HotspotsOf(r)
  /\ Goto("browser")
  /\ UNCHANGED <<scenario, interrupted, target, journey>>

Browsed ==
  /\ pc = "trace"
  /\ \E runtime : /\ runtime.collected /\ runtime.journey = digest /\ ValidRuntime(runtime)
                  /\ module = digest /\ browser' = runtime
  /\ Goto("last")
  /\ UNCHANGED <<scenario, interrupted, target, perf, module, edits, digest, driven>>

\* The same as Next, with each way to fail given once, and none that is misdirected.
Moves ==
  \/ pc \notin Ends /\ End("failed") /\ (pc = "check" => interrupted)
  \/ pc \notin Ends /\ End("killed")
  \/ Advance \/ Begins \/ Warmup \/ MeasureCommand \/ MeasureBatch
  \/ Profiled \/ DigestJourney \/ LoadJourney \/ Browsed \/ Signal \/ Edit

LEMMA UnlessInterrupted ==
  ASSUME NEW to, GotoUnlessInterrupted(to)
  PROVE  (interrupted /\ End("failed")) \/ (~interrupted /\ Goes(to))
  BY DEF GotoUnlessInterrupted, Goes

LEMMA NextMoves == PlaceInv /\ Next => Moves
<1> SUFFICES ASSUME PlaceInv, Next
             PROVE  Moves
  OBVIOUS
<1>0. /\ scenario \in Scenarios /\ pc \in Steps /\ scenario.target \in Targets
      /\ pc \notin {"check", "load", "failed", "killed"} => AcceptedScenario(scenario)
  BY ScenarioTypes DEF PlaceInv
<1>1. CASE Check
  <2>1. pc = "check" /\ pc \notin Ends
    BY <1>1 DEF Check, Ends
  <2> QED
    BY <1>1, <2>1, UnlessInterrupted DEF Check, Moves, Advance
<1>2. CASE Load
  <2>1. pc = "load" /\ pc \notin Ends
    BY <1>2 DEF Load, Ends
  <2> QED
    BY <1>2, <2>1, UnlessInterrupted DEF Load, Moves, Advance
<1>3. CASE ProfileIfRequested
  <2>1. pc = "native" /\ pc \notin Ends
    BY <1>3 DEF ProfileIfRequested, Ends
  <2>2. CASE Requests(scenario, "native-perf")
    BY <1>3, <2>1, <2>2, UnlessInterrupted DEF ProfileIfRequested, Moves, Advance
  <2>3. CASE ~Requests(scenario, "native-perf")
    BY <1>3, <2>1, <2>3, UnlessInterrupted DEF ProfileIfRequested, Moves, Advance
  <2> QED
    BY <2>2, <2>3
<1>4. CASE DriveIfRequested
  <2>1. pc = "browser" /\ pc \notin Ends
    BY <1>4 DEF DriveIfRequested, Ends
  <2>2. Requests(scenario, "browser-chromium") => scenario.target = "browser"
    BY <1>0, <2>1, AcceptedRequests
  <2>3. CASE Requests(scenario, "browser-chromium")
    BY <1>4, <2>1, <2>2, <2>3, UnlessInterrupted DEF DriveIfRequested, Moves, Advance
  <2>4. CASE ~Requests(scenario, "browser-chromium")
    BY <1>4, <2>1, <2>4, UnlessInterrupted DEF DriveIfRequested, Moves, Advance
  <2> QED
    BY <2>3, <2>4
<1>5. CASE Finish
  <2>1. pc = "last" /\ pc \notin Ends
    BY <1>5 DEF Finish, Ends
  <2> QED
    BY <1>5, <2>1, UnlessInterrupted DEF Finish, Moves, Advance
<1>6. CASE BeginCommand
  <2>1. pc \in Commands /\ pc \notin Ends /\ pc # "check"
    BY <1>6 DEF BeginCommand, Commands, Ends
  <2> QED
    BY <1>6, <2>1 DEF BeginCommand, Begins, Moves
<1>7. CASE FixtureStep("fixture", "warmup") \/ FixtureStep("cleanup", "native")
  BY <1>7 DEF FixtureStep, Goes, Moves, Advance
<1>8. CASE ReadTrace
  <2>1. pc = "trace" /\ pc \notin Ends
    BY <1>8 DEF ReadTrace, Ends
  <2> PICK identified \in BOOLEAN :
        LET runtime == [collected |-> TRUE, journey |-> digest, identified |-> identified]
        IN IF module # digest \/ ~ValidRuntime(runtime) THEN End("failed")
           ELSE /\ browser' = runtime /\ Goto("last")
                /\ UNCHANGED <<scenario, interrupted, target, perf, module, edits, digest, driven>>
    BY <1>8 DEF ReadTrace
  <2> DEFINE runtime == [collected |-> TRUE, journey |-> digest, identified |-> identified]
  <2>2. CASE End("failed")
    BY <2>1, <2>2 DEF Moves
  <2>3. CASE /\ module = digest /\ ValidRuntime(runtime) /\ browser' = runtime /\ Goto("last")
             /\ UNCHANGED <<scenario, interrupted, target, perf, module, edits, digest, driven>>
    <3>1. runtime.collected /\ runtime.journey = digest
      OBVIOUS
    <3> HIDE DEF runtime
    <3>2. Browsed
      BY <2>1, <2>3, <3>1 DEF Browsed
    <3> QED
      BY <3>2 DEF Moves
  <2> QED
    BY <2>2, <2>3
<1>9. CASE Failure
  <2>1. running => pc \in Commands
    BY DEF PlaceInv
  <2>2. pc \notin Ends /\ pc # "check" /\ End("failed")
    BY <1>9, <2>1 DEF Failure, Fails, Commands, Ends
  <2> QED
    BY <2>2 DEF Moves
<1>10. CASE DetectEnvironment
  <2>1. pc = "environment" /\ pc \notin Ends
    BY <1>10 DEF DetectEnvironment, Ends
  <2>2. CASE scenario.target = "command"
    BY <1>10, <2>1, <2>2, UnlessInterrupted DEF DetectEnvironment, Moves, Advance
  <2>3. CASE scenario.target = "http"
    BY <1>10, <2>1, <2>3, UnlessInterrupted DEF DetectEnvironment, Moves, Advance
  <2>4. CASE scenario.target = "browser"
    BY <1>10, <2>1, <2>4, UnlessInterrupted DEF DetectEnvironment, Moves, Advance
  <2> QED
    BY <1>0, <2>2, <2>3, <2>4 DEF Targets
<1>11. CASE Probe
  <2>1. pc = "probe" /\ Requests(scenario, "native-perf") /\ AcceptedScenario(scenario)
    BY <1>0, <1>11 DEF Probe, PlaceInv
  <2>2. scenario.target = "command"
    BY <1>0, <2>1, AcceptedRequests
  <2> QED
    BY <1>11, <2>1, <2>2 DEF Probe, Moves, Advance, Goes
<1>12. CASE ReportPaths
  <2>1. pc = "folded" /\ pc \notin Ends
    BY <1>12 DEF ReportPaths, Ends
  <2>2. End("failed") \/ Profiled
    BY <1>12 DEF ReportPaths, Profiled
  <2> QED
    BY <2>1, <2>2 DEF Moves
<1>13. CASE \E step \in Waits : Fails(step)
  <2>1. pc \notin Ends /\ pc # "check" /\ End("failed")
    BY <1>13 DEF Fails, Waits, Ends
  <2> QED
    BY <2>1 DEF Moves
<1>14. CASE Kill
  BY <1>14 DEF Kill, Moves
<1>15. CASE WarmedUp \/ Measured \/ Record \/ Report \/ DetectBrowser \/ Drive
  BY <1>15 DEF Moves, Advance
<1>16. CASE \/ Warmup \/ MeasureCommand \/ MeasureBatch \/ DigestJourney
            \/ LoadJourney \/ Signal \/ Edit
  BY <1>16 DEF Moves
<1> QED
  BY <1>1, <1>2, <1>3, <1>4, <1>5, <1>6, <1>7, <1>8, <1>9, <1>10, <1>11, <1>12, <1>13, <1>14,
     <1>15, <1>16 DEF Next, ProfilerStep, WaitEnds

LEMMA PlaceInit == Init => PlaceInv
  BY DEF Init, PlaceInv, Steps, Commands

LEMMA PlaceNext == PlaceInv /\ [Next]_vars => PlaceInv'
<1> SUFFICES ASSUME PlaceInv, [Next]_vars
             PROVE  PlaceInv'
  OBVIOUS
<1>1. CASE UNCHANGED vars
  BY <1>1 DEF PlaceInv, vars
<1>2. CASE Next
  <2>0. Moves
    BY <1>2, NextMoves
  <2>1. ASSUME End("failed") \/ End("killed")
        PROVE  PlaceInv'
    BY <2>1 DEF End, PlaceInv, Steps, Ends
  <2>2. CASE Advance
    <3>1. running' = FALSE /\ scenario' = scenario /\ interrupted' = interrupted
      BY <2>2 DEF Advance, Goes, Goto, WarmedUp, Measured, Record, Report, DetectBrowser, Drive
    <3>2. /\ pc' \in Steps
          /\ pc' \notin {"misdirected", "check", "load", "failed", "killed"} => AcceptedScenario(scenario)
          /\ pc' # "misdirected"
      BY <2>2 DEF Advance, Goes, Goto, WarmedUp, Measured, Record, Report, DetectBrowser, Drive,
                  PlaceInv, Steps, Commands, Waits, Ends, Runs
    <3>3. /\ pc' \in {"fixture", "cleanup"} => scenario.target = "http"
          /\ pc' \in {"warmup", "measure"} => scenario.target # "browser"
      BY <2>2 DEF Advance, Goes, Goto, WarmedUp, Measured, Record, Report, DetectBrowser, Drive,
                  PlaceInv
    <3>4. /\ pc' \in {"probe", "record", "report", "folded"} => Requests(scenario, "native-perf")
          /\ pc' \in {"detect", "digest", "drive", "trace"} => Requests(scenario, "browser-chromium")
      BY <2>2 DEF Advance, Goes, Goto, WarmedUp, Measured, Record, Report, DetectBrowser, Drive,
                  Runs, PlaceInv
    <3> QED
      BY <3>1, <3>2, <3>3, <3>4 DEF PlaceInv
  <2>3. CASE Begins
    BY <2>3 DEF Begins, PlaceInv
  <2>4. CASE Warmup
    BY <2>4 DEF Warmup, Runs, Goto, PlaceInv
  <2>5. CASE MeasureCommand
    BY <2>5 DEF MeasureCommand, Runs, Goto, PlaceInv
  <2>6. CASE MeasureBatch
    BY <2>6 DEF MeasureBatch, Runs, Goto, PlaceInv
  <2>7. CASE Profiled
    BY <2>7 DEF Profiled, Goto, PlaceInv, Steps
  <2>8. CASE DigestJourney
    BY <2>8 DEF DigestJourney, Goto, PlaceInv, Steps, Commands
  <2>9. CASE LoadJourney
    BY <2>9 DEF LoadJourney, PlaceInv
  <2>10. CASE Browsed
    BY <2>10 DEF Browsed, Goto, PlaceInv, Steps
  <2>11. CASE Signal
    BY <2>11 DEF Signal, PlaceInv
  <2>12. CASE Edit
    BY <2>12 DEF Edit, PlaceInv
  <2> QED
    BY <2>0, <2>1, <2>2, <2>3, <2>4, <2>5, <2>6, <2>7, <2>8, <2>9, <2>10, <2>11, <2>12 DEF Moves
<1> QED
  BY <1>1, <1>2

LEMMA AlwaysPlace == Spec => []PlaceInv
  BY PlaceInit, PlaceNext, PTL DEF Spec
-----------------------------------------------------------------------------
(* What was measured. *)

Unmeasured == {"check", "load", "environment", "fixture", "failed", "misdirected", "killed"}
AfterTarget == {"cleanup", "native", "probe", "record", "report", "folded", "browser",
                "detect", "digest", "drive", "trace", "last", "measured"}

CommandSamples == [iteration : Nat, succeeded : BOOLEAN]

CommandInv ==
  /\ batches = <<>>
  /\ samples \in Seq(CommandSamples) /\ Len(samples) <= scenario.measured
  /\ \A i \in 1..Len(samples) : samples[i].iteration = i

\* Every batch has its samples, and each is where it belongs.
HttpInv ==
  /\ batches \in Seq([iteration : Nat, late : BOOLEAN]) /\ Len(batches) <= scenario.measured
  /\ \A i \in 1..Len(batches) : batches[i].iteration = i - 1
  /\ samples \in Seq(HttpSamples) /\ Len(samples) = Len(batches) * scenario.count
  /\ \A i \in 1..Len(samples) :
       Declared(samples[i], (i - 1) \div scenario.count, (i - 1) % scenario.count, scenario.endpoints)

TargetInv ==
  /\ warmups \in Seq({"ok"}) /\ Len(warmups) <= scenario.warmups
  /\ pc \in Unmeasured => warmups = <<>>
  /\ pc \in Unmeasured \cup {"warmup"} => samples = <<>> /\ batches = <<>>
  /\ scenario.target = "browser" => warmups = <<>> /\ samples = <<>> /\ batches = <<>>
  /\ scenario.target = "command" => CommandInv
  /\ scenario.target = "http" => HttpInv
  /\ pc = "warmup" /\ running => Len(warmups) < scenario.warmups
  /\ pc = "measure" /\ running => MeasuredSoFar < scenario.measured
  /\ pc \in AfterTarget \cup {"measure"} /\ scenario.target # "browser" =>
       Len(warmups) = scenario.warmups
  /\ pc \in AfterTarget /\ scenario.target # "browser" => MeasuredSoFar = scenario.measured

\* Nothing measured yet is as it should be.
LEMMA NothingMeasured ==
  ASSUME PlaceInv', pc' \in Unmeasured, warmups' = <<>>, samples' = <<>>, batches' = <<>>
  PROVE  TargetInv'
<1>1. /\ scenario'.warmups \in Nat /\ scenario'.measured \in Nat /\ scenario'.count \in Nat
  BY ScenarioTypes DEF PlaceInv
<1>2. 0 * scenario'.count = 0
  BY <1>1
<1>3. CommandInv'
  BY <1>1 DEF CommandInv
<1>4. HttpInv'
  BY <1>1, <1>2 DEF HttpInv
<1> QED
  BY <1>1, <1>3, <1>4 DEF TargetInv, Unmeasured, AfterTarget

LEMMA TargetInit == Init => TargetInv
<1> SUFFICES ASSUME Init
             PROVE  TargetInv
  OBVIOUS
<1>1. /\ scenario.warmups \in Nat /\ scenario.measured \in Nat /\ scenario.count \in Nat
  BY ScenarioTypes DEF Init
<1>2. 0 * scenario.count = 0
  BY <1>1
<1>3. CommandInv
  BY <1>1 DEF Init, CommandInv
<1>4. HttpInv
  BY <1>1, <1>2 DEF Init, HttpInv
<1> QED
  BY <1>1, <1>3, <1>4 DEF Init, TargetInv, AfterTarget

\* A batch adds its samples at its place.
LEMMA BatchMeasured ==
  ASSUME PlaceInv, TargetInv, MeasureBatch
  PROVE  HttpInv' /\ Len(batches') = Len(batches) + 1
<1> DEFINE n == scenario.count
           e == scenario.endpoints
           b == Len(batches)
<1>1. /\ scenario.target = "http" /\ HttpInv /\ b < scenario.measured
      /\ AcceptedScenario(scenario) /\ scenario \in Scenarios
  BY DEF MeasureBatch, Runs, PlaceInv, TargetInv, MeasuredSoFar
<1>2. n \in Nat \ {0} /\ e \in Nat \ {0} /\ scenario.measured \in Nat /\ b \in Nat
  BY <1>1, ScenarioTypes, AcceptedRequests DEF HttpInv
<1> PICK lines \in BatchOutputs : samples' = samples \o BatchSamples(lines, b, e)
  BY DEF MeasureBatch
<1> PICK late \in BOOLEAN : batches' = Append(batches, [iteration |-> b, late |-> late])
  BY DEF MeasureBatch
<1> DEFINE new == BatchSamples(lines, b, e)
<1>3. scenario' = scenario
  BY DEF MeasureBatch
<1>4. /\ batches' \in Seq([iteration : Nat, late : BOOLEAN])
      /\ Len(batches') = b + 1
      /\ \A i \in 1..Len(batches') : batches'[i].iteration = i - 1
  <2> DEFINE batch == [iteration |-> b, late |-> late]
  <2>1. batch \in [iteration : Nat, late : BOOLEAN] /\ batch.iteration = b
    BY <1>2
  <2> HIDE DEF batch
  <2> QED
    BY <1>1, <2>1 DEF HttpInv, batch
<1>5. new \in Seq(HttpSamples) /\ Len(new) = n /\ \A i \in 1..n : Declared(new[i], b, i - 1, e)
  BY <1>2, BatchShape
<1> HIDE DEF new
<1>6. /\ samples \in Seq(HttpSamples) /\ samples' \in Seq(HttpSamples)
      /\ Len(samples') = Len(samples) + n /\ Len(samples) \in Nat
  BY <1>1, <1>2, <1>5 DEF HttpInv, new
<1>7. ASSUME NEW i \in 1..Len(samples')
      PROVE  Declared(samples'[i], (i - 1) \div n, (i - 1) % n, e)
  <2>1. CASE i \in 1..Len(samples)
    BY <1>1, <1>5, <2>1 DEF HttpInv, new
  <2>2. CASE i \notin 1..Len(samples)
    <3> DEFINE k == i - Len(samples)
    <3>1. k \in 1..n /\ k - 1 \in 0..n - 1 /\ i = Len(samples) + k
      BY <1>2, <1>6, <2>2
    <3>2. samples'[i] = new[k]
      <4> HIDE DEF k
      <4> QED
        BY <1>5, <1>6, <3>1 DEF new
    <3>0. i - 1 = b * n + (k - 1)
      <4> HIDE DEF k
      <4>1. Len(samples) = b * n
        BY <1>1 DEF HttpInv
      <4>2. i - 1 = Len(samples) + (k - 1)
        BY <1>6, <3>1
      <4> QED
        BY <4>1, <4>2
    <3>3. (i - 1) \div n = b /\ (i - 1) % n = k - 1
      <4> HIDE DEF k, b, n
      <4>1. (b * n + (k - 1)) \div n = b /\ (b * n + (k - 1)) % n = k - 1
        BY <1>2, <3>1, DivMod
      <4> QED
        BY <3>0, <4>1
    <3>4. Declared(new[k], b, k - 1, e)
      BY <1>5, <3>1
    <3> QED
      BY <3>2, <3>3, <3>4
  <2> QED
    BY <2>1, <2>2
<1>8. Len(samples') = Len(batches') * n
  <2>1. Len(samples) = b * n
    BY <1>1 DEF HttpInv
  <2> QED
    BY <1>2, <1>4, <1>6, <2>1, Product
<1>9. Len(batches') <= scenario.measured
  BY <1>1, <1>2, <1>4
<1> QED
  BY <1>3, <1>4, <1>6, <1>7, <1>8, <1>9 DEF HttpInv

LEMMA TargetNext == PlaceInv /\ TargetInv /\ [Next]_vars => TargetInv'
<1> SUFFICES ASSUME PlaceInv, TargetInv, [Next]_vars
             PROVE  TargetInv'
  OBVIOUS
<1>0. PlaceInv'
  BY PlaceNext
<1>1. ASSUME UNCHANGED <<scenario, pc, running, target>>
      PROVE  TargetInv'
  BY <1>1 DEF TargetInv, CommandInv, HttpInv, MeasuredSoFar, target
<1>2. CASE Next
  <2>0. Moves
    BY <1>2, NextMoves
  <2>1. ASSUME End("failed") \/ End("killed")
        PROVE  TargetInv'
    BY <1>0, <2>1, NothingMeasured DEF End, Unmeasured
  <2>2. ASSUME running' = FALSE, UNCHANGED <<scenario, target>>,
               pc \in Unmeasured => pc' \in Unmeasured \cup {"warmup"} \/ scenario.target = "browser",
               pc' \in Unmeasured => pc \in Unmeasured,
               pc' = "warmup" => pc \in Unmeasured \cup {"warmup"},
               pc' \in AfterTarget \cup {"measure"} /\ scenario.target # "browser" =>
                 Len(warmups) = scenario.warmups,
               pc' \in AfterTarget /\ scenario.target # "browser" => MeasuredSoFar = scenario.measured
        PROVE  TargetInv'
    BY <2>2 DEF TargetInv, CommandInv, HttpInv, MeasuredSoFar, target
  <2>3. CASE Advance
    <3>1. running' = FALSE /\ UNCHANGED <<scenario, target>>
      BY <2>3 DEF Advance, Goes, Goto, WarmedUp, Measured, Record, Report, DetectBrowser, Drive
    <3>2. /\ pc \in Unmeasured => pc' \in Unmeasured \cup {"warmup"} \/ scenario.target = "browser"
          /\ pc' \in Unmeasured => pc \in Unmeasured
          /\ pc' = "warmup" => pc \in Unmeasured \cup {"warmup"}
      BY <2>3 DEF Advance, Goes, Goto, WarmedUp, Measured, Record, Report, DetectBrowser, Drive,
                  Runs, Unmeasured
    <3>3. pc' \in AfterTarget \cup {"measure"} /\ scenario.target # "browser" =>
            Len(warmups) = scenario.warmups
      BY <2>3 DEF Advance, Goes, Goto, WarmedUp, Measured, Record, Report, DetectBrowser, Drive,
                  Runs, AfterTarget, TargetInv
    <3>4. pc' \in AfterTarget /\ scenario.target # "browser" => MeasuredSoFar = scenario.measured
      BY <2>3 DEF Advance, Goes, Goto, WarmedUp, Measured, Record, Report, DetectBrowser, Drive,
                  Runs, AfterTarget, TargetInv
    <3> QED
      BY <2>2, <3>1, <3>2, <3>3, <3>4
  <2>4. CASE Begins
    BY <2>4 DEF Begins, TargetInv, CommandInv, HttpInv, MeasuredSoFar, target
  <2>5. CASE Warmup
    <3>1. /\ pc = "warmup" /\ pc' = "warmup" /\ running' = FALSE
          /\ warmups' = Append(warmups, "ok") /\ Len(warmups) < scenario.warmups
          /\ UNCHANGED <<scenario, samples, batches>>
      BY <2>5 DEF Warmup, Runs, Goto, TargetInv
    <3>2. scenario.warmups \in Nat /\ scenario.target # "browser"
      BY <3>1, ScenarioTypes DEF PlaceInv
    <3>3. warmups' \in Seq({"ok"}) /\ Len(warmups') = Len(warmups) + 1 /\ Len(warmups) \in Nat
      BY <3>1 DEF TargetInv
    <3> QED
      BY <3>1, <3>2, <3>3 DEF TargetInv, CommandInv, HttpInv, Unmeasured, AfterTarget
  <2>6. CASE MeasureCommand
    <3> PICK result \in Samples :
          samples' = Append(samples, [iteration |-> Len(samples) + 1, succeeded |-> result = "ok"])
      BY <2>6 DEF MeasureCommand
    <3> DEFINE good == result = "ok"
               sample == [iteration |-> Len(samples) + 1, succeeded |-> good]
    <3>1. /\ pc = "measure" /\ pc' = "measure" /\ running' = FALSE /\ scenario.target = "command"
          /\ UNCHANGED <<scenario, warmups, batches>>
          /\ CommandInv /\ Len(samples) < scenario.measured
      BY <2>6 DEF MeasureCommand, Runs, Goto, TargetInv, MeasuredSoFar
    <3>2. Len(samples) \in Nat /\ scenario.measured \in Nat
      BY <3>1, ScenarioTypes DEF CommandInv, PlaceInv
    <3>3. sample \in CommandSamples /\ sample.iteration = Len(samples) + 1
      <4>1. good \in BOOLEAN
        OBVIOUS
      <4> HIDE DEF good
      <4> QED
        BY <3>2, <4>1 DEF CommandSamples
    <3>4. samples' = Append(samples, sample)
      OBVIOUS
    <3> HIDE DEF sample
    <3>5. CommandInv'
      BY <3>1, <3>2, <3>3, <3>4 DEF CommandInv
    <3> QED
      BY <3>1, <3>5 DEF TargetInv, Unmeasured, AfterTarget
  <2>7. CASE MeasureBatch
    <3>1. HttpInv' /\ Len(batches') = Len(batches) + 1
      BY <2>7, BatchMeasured
    <3>2. /\ pc = "measure" /\ pc' = "measure" /\ running' = FALSE /\ scenario.target = "http"
          /\ UNCHANGED <<scenario, warmups>>
      BY <2>7 DEF MeasureBatch, Runs, Goto
    <3> QED
      BY <3>1, <3>2 DEF TargetInv, Unmeasured, AfterTarget
  <2>8. CASE Profiled
    BY <2>2, <2>8 DEF Profiled, Goto, Unmeasured, AfterTarget, TargetInv
  <2>9. CASE DigestJourney
    BY <2>2, <2>9 DEF DigestJourney, Goto, Unmeasured, AfterTarget, TargetInv
  <2>10. CASE Browsed
    BY <2>2, <2>10 DEF Browsed, Goto, Unmeasured, AfterTarget, TargetInv
  <2>11. CASE LoadJourney \/ Signal \/ Edit
    BY <1>1, <2>11 DEF LoadJourney, Signal, Edit
  <2> QED
    BY <2>0, <2>1, <2>3, <2>4, <2>5, <2>6, <2>7, <2>8, <2>9, <2>10, <2>11 DEF Moves
<1> QED
  BY <1>1, <1>2 DEF vars

LEMMA AlwaysTarget == Spec => []TargetInv
<1>1. PlaceInv /\ TargetInv /\ [Next]_vars => (PlaceInv /\ TargetInv)'
  BY PlaceNext, TargetNext
<1> QED
  BY <1>1, PlaceInit, TargetInit, PTL DEF Spec
-----------------------------------------------------------------------------
(* What was profiled, and the journey. *)

AfterProfile == {"browser", "detect", "digest", "drive", "trace", "last", "measured"}
AfterTrace == {"last", "measured"}
Driving == {"drive", "trace"}

ProfileInv ==
  /\ pc \in AfterProfile => (hotspots.collected <=> Requests(scenario, "native-perf"))
  /\ pc \notin AfterProfile => hotspots = NotCollected
  /\ pc \in AfterTrace => (browser.collected <=> Requests(scenario, "browser-chromium"))
  /\ pc \in AfterTrace => (browser.collected => ValidRuntime(browser))
  /\ pc \notin AfterTrace => browser = NoJourney

\* One edit since the digest leaves another module than the digest's; only two can bring
\* it back.
JourneyInv ==
  /\ module \in Versions /\ edits \in 0..MaxEdits
  /\ {digest, driven, browser.journey} \subseteq Versions \cup {Unknown}
  /\ pc \in Driving => (edits = 0 => module = digest) /\ (edits = 1 => module # digest)
  /\ pc \in Driving => (driven # Unknown /\ edits = 0 => driven = digest)
  /\ pc = "trace" => driven # Unknown
  /\ pc \notin Driving \cup AfterTrace => driven = Unknown
  /\ RecordedJourneyWasDriven

LEMMA ReportCollected == ASSUME NEW r PROVE HotspotsOf(r).collected
  BY DEF HotspotsOf

LEMMA NoProfile == ~NotCollected.collected /\ ~NoJourney.collected /\ NoJourney.journey = Unknown
  BY DEF NotCollected, NoJourney

LEMMA ProfileInit == Init => ProfileInv
  BY DEF Init, ProfileInv, AfterProfile, AfterTrace

LEMMA ProfileNext == PlaceInv /\ ProfileInv /\ [Next]_vars => ProfileInv'
<1> SUFFICES ASSUME PlaceInv, ProfileInv, [Next]_vars
             PROVE  ProfileInv'
  OBVIOUS
<1>1. ASSUME UNCHANGED <<scenario, hotspots, browser>>,
             pc' \in AfterProfile <=> pc \in AfterProfile, pc' \in AfterTrace <=> pc \in AfterTrace
      PROVE  ProfileInv'
  BY <1>1 DEF ProfileInv
<1>2. CASE Next
  <2>0. Moves
    BY <1>2, NextMoves
  <2>1. ASSUME End("failed") \/ End("killed")
        PROVE  ProfileInv'
    BY <2>1 DEF End, ProfileInv, AfterProfile, AfterTrace
  <2>2. CASE Advance
    <3>1. UNCHANGED <<scenario, hotspots, browser>>
      BY <2>2 DEF Advance, Goes, Goto, WarmedUp, Measured, Record, Report, DetectBrowser, Drive,
                  perf, journey
    <3>2. \/ /\ pc' \in AfterProfile <=> pc \in AfterProfile
             /\ pc' \in AfterTrace <=> pc \in AfterTrace
          \/ pc = "native" /\ pc' = "browser" /\ ~Requests(scenario, "native-perf")
          \/ pc = "browser" /\ pc' = "last" /\ ~Requests(scenario, "browser-chromium")
      BY <2>2 DEF Advance, Goes, Goto, WarmedUp, Measured, Record, Report, DetectBrowser, Drive,
                  Runs, AfterProfile, AfterTrace
    <3> QED
      BY <1>1, <3>1, <3>2, NoProfile DEF ProfileInv, AfterProfile, AfterTrace
  <2>3. CASE Begins \/ Warmup \/ MeasureCommand \/ MeasureBatch \/ LoadJourney \/ Signal \/ Edit
    <3>1. UNCHANGED <<scenario, hotspots, browser, pc>>
      BY <2>3 DEF Begins, Warmup, MeasureCommand, MeasureBatch, LoadJourney, Signal, Edit, Runs,
                  Goto, perf, journey
    <3> QED
      BY <1>1, <3>1
  <2>4. CASE Profiled
    <3>1. pc = "folded" /\ pc' = "browser" /\ hotspots'.collected /\ UNCHANGED <<scenario, browser>>
      BY <2>4, ReportCollected DEF Profiled, Goto, journey
    <3> QED
      BY <3>1 DEF ProfileInv, PlaceInv, AfterProfile, AfterTrace
  <2>5. CASE DigestJourney
    BY <1>1, <2>5 DEF DigestJourney, Goto, perf, AfterProfile, AfterTrace
  <2>6. CASE Browsed
    <3>1. /\ pc = "trace" /\ pc' = "last" /\ browser'.collected /\ ValidRuntime(browser')
          /\ UNCHANGED <<scenario, hotspots>>
      BY <2>6 DEF Browsed, Goto, perf
    <3> QED
      BY <3>1 DEF ProfileInv, PlaceInv, AfterProfile, AfterTrace, ValidRuntime
  <2> QED
    BY <2>0, <2>1, <2>2, <2>3, <2>4, <2>5, <2>6 DEF Moves
<1> QED
  BY <1>1, <1>2 DEF vars, perf, journey

LEMMA AlwaysProfile == Spec => []ProfileInv
<1>1. PlaceInv /\ ProfileInv /\ [Next]_vars => (PlaceInv /\ ProfileInv)'
  BY PlaceNext, ProfileNext
<1> QED
  BY <1>1, PlaceInit, ProfileInit, PTL DEF Spec

LEMMA JourneyInit == Init => JourneyInv
  BY NoProfile, EditsAssumption DEF Init, JourneyInv, RecordedJourneyWasDriven, Driving, EditsAssumption

LEMMA JourneyNext == PlaceInv /\ ProfileInv /\ JourneyInv /\ [Next]_vars => JourneyInv'
<1> SUFFICES ASSUME PlaceInv, ProfileInv, JourneyInv, [Next]_vars
             PROVE  JourneyInv'
  OBVIOUS
<1> USE VersionsAssumption, EditsAssumption DEF VersionsAssumption, EditsAssumption
<1>1. ASSUME UNCHANGED journey,
             pc' \in Driving => pc \in Driving,
             pc' = "trace" => pc = "trace" \/ driven # Unknown,
             pc' \notin Driving \cup AfterTrace => pc \notin Driving \cup AfterTrace
      PROVE  JourneyInv'
  BY <1>1 DEF JourneyInv, RecordedJourneyWasDriven, journey
<1>2. CASE Next
  <2>0. Moves
    BY <1>2, NextMoves
  <2>1. ASSUME End("failed") \/ End("killed")
        PROVE  JourneyInv'
    BY <2>1, NoProfile DEF End, JourneyInv, RecordedJourneyWasDriven, Driving
  <2>2. CASE Advance
    <3>1. UNCHANGED journey
      BY <2>2 DEF Advance, Goes, Goto, WarmedUp, Measured, Record, Report, DetectBrowser, Drive
    <3>2. /\ pc' \in Driving => pc \in Driving
          /\ pc' = "trace" => driven # Unknown
          /\ pc' \notin Driving \cup AfterTrace => pc \notin Driving \cup AfterTrace
      BY <2>2 DEF Advance, Goes, Goto, WarmedUp, Measured, Record, Report, DetectBrowser, Drive,
                  Runs, Driving, AfterTrace
    <3> QED
      BY <1>1, <3>1, <3>2
  <2>3. CASE Begins \/ Warmup \/ MeasureCommand \/ MeasureBatch \/ Signal
    <3>1. UNCHANGED <<journey, pc>>
      BY <2>3 DEF Begins, Warmup, MeasureCommand, MeasureBatch, Signal, Runs, Goto
    <3> QED
      BY <1>1, <3>1
  <2>4. CASE Profiled
    BY <1>1, <2>4 DEF Profiled, Goto, Driving, AfterTrace
  <2>5. CASE DigestJourney
    <3>1. ~browser.collected
      BY <2>5, NoProfile DEF DigestJourney, ProfileInv, AfterTrace
    <3> QED
      BY <2>5, <3>1 DEF DigestJourney, Goto, JourneyInv, RecordedJourneyWasDriven, Driving, AfterTrace
  <2>6. CASE LoadJourney
    <3>1. ~browser.collected
      BY <2>6, NoProfile DEF LoadJourney, ProfileInv, AfterTrace
    <3> QED
      BY <2>6, <3>1 DEF LoadJourney, JourneyInv, RecordedJourneyWasDriven, Driving, AfterTrace
  <2>7. CASE Browsed
    BY <2>7 DEF Browsed, Goto, JourneyInv, RecordedJourneyWasDriven, Driving, AfterTrace
  <2>8. CASE Edit
    <3>1. /\ pc \in Driving /\ pc' = pc /\ edits < MaxEdits
          /\ module' \in Versions /\ module' # module /\ edits' = edits + 1
          /\ UNCHANGED <<digest, driven, browser>>
      BY <2>8 DEF Edit, Driving
    <3>2. ~browser.collected
      BY <3>1, NoProfile DEF ProfileInv, Driving, AfterTrace
    <3> QED
      BY <3>1, <3>2 DEF JourneyInv, RecordedJourneyWasDriven, Driving, AfterTrace
  <2> QED
    BY <2>0, <2>1, <2>2, <2>3, <2>4, <2>5, <2>6, <2>7, <2>8 DEF Moves
<1> QED
  BY <1>1, <1>2 DEF vars

\* The digest in the browser's metadata is that of the module the driver ran, unless that
\* was edited and edited back, for any number of versions and edits (capture_browser_chromium).
THEOREM JourneyWasDriven == Spec => []RecordedJourneyWasDriven
<1>1. PlaceInv /\ ProfileInv /\ JourneyInv /\ [Next]_vars => (PlaceInv /\ ProfileInv /\ JourneyInv)'
  BY PlaceNext, ProfileNext, JourneyNext
<1>2. JourneyInv => RecordedJourneyWasDriven
  BY DEF JourneyInv
<1> QED
  BY <1>1, <1>2, PlaceInit, ProfileInit, JourneyInit, PTL DEF Spec
-----------------------------------------------------------------------------
(* The theorems about what a capture has when it comes to write its bundle. *)

IInv == PlaceInv /\ TargetInv /\ ProfileInv /\ JourneyInv

LEMMA Invariance == Spec => []IInv
<1>1. Init => IInv
  BY PlaceInit, TargetInit, ProfileInit, JourneyInit DEF IInv
<1>2. IInv /\ [Next]_vars => IInv'
  BY PlaceNext, TargetNext, ProfileNext, JourneyNext DEF IInv
<1> QED
  BY <1>1, <1>2, PTL DEF Spec

\* The variables keep their kinds, and no more is measured than the scenario declares
\* (capture_metrics, capture_http).
THEOREM TypeCorrect == Spec => []TypeOK
<1>1. IInv => TypeOK
  <2> SUFFICES ASSUME IInv
               PROVE  TypeOK
    OBVIOUS
  <2>0. /\ scenario.target \in Targets /\ scenario.measured \in Nat /\ scenario.count \in Nat
        /\ scenario.target # "http" => scenario.count = 1
    BY ScenarioTypes DEF IInv, PlaceInv
  <2>1. warmups \in Seq(Answers)
    BY DEF IInv, TargetInv, Answers, Samples
  <2>2. /\ Len(batches) <= scenario.measured
        /\ Len(samples) <= scenario.measured * scenario.count
    <3>1. CASE scenario.target = "command"
      BY <2>0, <3>1 DEF IInv, TargetInv, CommandInv
    <3>2. CASE scenario.target = "browser"
      <4>1. 0 <= scenario.measured * scenario.count
        BY <2>0, Product
      <4> QED
        BY <2>0, <3>2, <4>1 DEF IInv, TargetInv
    <3>3. CASE scenario.target = "http"
      <4>1. Len(batches) \in Nat /\ Len(batches) <= scenario.measured
            /\ Len(samples) = Len(batches) * scenario.count
        BY <3>3 DEF IInv, TargetInv, HttpInv
      <4> QED
        BY <2>0, <4>1, Monotone
    <3> QED
      BY <2>0, <3>1, <3>2, <3>3 DEF Targets
  <2> QED
    BY <2>1, <2>2 DEF IInv, PlaceInv, TargetInv, JourneyInv, TypeOK
<1> QED
  BY <1>1, Invariance, PTL

\* A capture that comes to write a bundle ran every warm-up and each succeeded, has one
\* sample for each execution or transfer, in order, and has exactly the profiles that were
\* requested, whatever the counts (capture_bundle).
THEOREM CompleteEvidence == Spec => []EvidenceIsComplete
<1>1. IInv => EvidenceIsComplete
  <2> SUFFICES ASSUME IInv, pc = "measured"
               PROVE  EvidenceIsComplete
    BY DEF EvidenceIsComplete, IInv, PlaceInv
  <2>0. /\ AcceptedScenario(scenario) /\ scenario \in Scenarios /\ scenario.target \in Targets
        /\ scenario.warmups \in Nat /\ scenario.measured \in Nat /\ scenario.count \in Nat
    BY ScenarioTypes DEF IInv, PlaceInv
  <2>1. warmups = [i \in 1..scenario.warmups |-> "ok"]
    <3>1. Len(warmups) = scenario.warmups
      <4>1. CASE scenario.target = "browser"
        BY <2>0, <4>1, AcceptedRequests DEF IInv, TargetInv
      <4>2. CASE scenario.target # "browser"
        BY <4>2 DEF IInv, TargetInv, AfterTarget
      <4> QED
        BY <4>1, <4>2
    <3>2. warmups \in Seq({"ok"})
      BY DEF IInv, TargetInv
    <3> QED
      BY <3>1, <3>2
  <2>2. scenario.target = "command" =>
          /\ Len(samples) = scenario.measured
          /\ \A i \in 1..scenario.measured : samples[i].iteration = i
    BY DEF IInv, TargetInv, CommandInv, AfterTarget, MeasuredSoFar
  <2>3. ASSUME scenario.target = "http"
        PROVE  /\ Len(samples) = scenario.measured * scenario.count
               /\ \A b \in 0..scenario.measured - 1, n \in 0..scenario.count - 1 :
                    LET s == samples[b * scenario.count + n + 1]
                    IN s.iteration = b /\ s.index = n
    <3>1. Len(batches) = scenario.measured /\ HttpInv
      BY <2>3 DEF IInv, TargetInv, AfterTarget, MeasuredSoFar
    <3>2. Len(samples) = scenario.measured * scenario.count
      BY <3>1 DEF HttpInv
    <3>3. ASSUME NEW b \in 0..scenario.measured - 1, NEW n \in 0..scenario.count - 1
          PROVE  /\ samples[b * scenario.count + n + 1].iteration = b
                 /\ samples[b * scenario.count + n + 1].index = n
      <4> DEFINE i == b * scenario.count + n + 1
      <4>1. i \in 1..Len(samples)
        BY <2>0, <3>2, PlaceBound
      <4>2. b * scenario.count \in Nat
        BY <2>0, Product
      <4>3. i - 1 = b * scenario.count + n
        BY <4>2
      <4>4. (i - 1) \div scenario.count = b /\ (i - 1) % scenario.count = n
        <5> HIDE DEF i
        <5>1. scenario.count \in Nat \ {0}
          BY <2>0
        <5>3. b \in Nat /\ n \in 0..scenario.count - 1
          BY <2>0
        <5>2. /\ (b * scenario.count + n) \div scenario.count = b
              /\ (b * scenario.count + n) % scenario.count = n
          BY <5>1, <5>3, DivMod
        <5> QED
          BY <4>3, <5>2
      <4>5. Declared(samples[i], (i - 1) \div scenario.count, (i - 1) % scenario.count,
                     scenario.endpoints)
        <5> HIDE DEF i
        <5> QED
          BY <3>1, <4>1 DEF HttpInv
      <4> QED
        BY <4>4, <4>5 DEF Declared
    <3> QED
      BY <3>2, <3>3
  <2>4. scenario.target = "browser" => samples = <<>>
    BY DEF IInv, TargetInv
  <2>5. /\ hotspots.collected <=> Requests(scenario, "native-perf")
        /\ browser.collected <=> Requests(scenario, "browser-chromium")
    BY DEF IInv, ProfileInv, AfterProfile, AfterTrace
  <2>6. Requests(scenario, "browser-chromium") <=> scenario.target = "browser"
    BY <2>0, AcceptedRequests
  <2> QED
    BY <2>1, <2>2, <2>3, <2>4, <2>5, <2>6 DEF EvidenceIsComplete
<1> QED
  BY <1>1, Invariance, PTL

\* validate_bundle accepts what a capture measured, for every accepted scenario: the
\* conditions of the collectors imply those of validate_hotspot_artifacts,
\* validate_browser_artifacts and validate_evidence.
THEOREM ValidMeasurement == Spec => []MeasuredIsValid
<1>1. IInv => MeasuredIsValid
  <2> SUFFICES ASSUME IInv, pc = "measured", \A i \in 1..Len(batches) : ~batches[i].late
               PROVE  HotspotsAreValid /\ BrowserIsValid /\ HttpIsValid
    BY DEF MeasuredIsValid
  <2>0. /\ AcceptedScenario(scenario) /\ scenario \in Scenarios /\ scenario.target \in Targets
        /\ scenario.measured \in Nat /\ scenario.count \in Nat
    BY ScenarioTypes DEF IInv, PlaceInv
  <2>1. /\ hotspots.collected <=> Requests(scenario, "native-perf")
        /\ browser.collected <=> Requests(scenario, "browser-chromium")
        /\ browser.collected => ValidRuntime(browser)
    BY DEF IInv, ProfileInv, AfterProfile, AfterTrace
  <2>2. /\ Requests(scenario, "browser-chromium") <=> scenario.target = "browser"
        /\ Requests(scenario, "http-curl") <=> scenario.target = "http"
    BY <2>0, AcceptedRequests
  <2>3. HotspotsAreValid
    BY <2>1 DEF HotspotsAreValid, Listed
  <2>4. BrowserIsValid
    <3> DEFINE parts == {"trace", "trace-summary", "browser-runtime"}
               listed == Listed \cap parts
    <3>1. CASE scenario.target = "browser"
      <4>1. listed = parts
        BY <2>1, <2>2, <3>1 DEF Listed
      <4>2. Cardinality(parts) = 3
        BY ThreeElements
      <4>3. Metrics.samples = <<>>
        BY <3>1 DEF Metrics, IInv, TargetInv
      <4> QED
        BY <2>1, <2>2, <3>1, <4>1, <4>2, <4>3 DEF BrowserIsValid
    <3>2. CASE scenario.target # "browser"
      BY <2>1, <2>2, <3>2 DEF BrowserIsValid, Listed
    <3> QED
      BY <3>1, <3>2
  <2>5. HttpIsValid
    <3>1. CASE scenario.target = "http"
      <4> DEFINE e == EvidenceOf(scenario, batches, samples)
      <4>1. Len(batches) = scenario.measured /\ HttpInv
        BY <3>1 DEF IInv, TargetInv, AfterTarget, MeasuredSoFar
      <4>2. e.count = scenario.count /\ e.batches = batches /\ e.samples = samples
        BY DEF EvidenceOf
      <4>3. Metrics = MetricsFromEvidence(e)
        BY <3>1 DEF Metrics
      <4> HIDE DEF e
      <4>4. \A i \in 1..Len(samples) :
              LET s == samples[i]
              IN /\ s.iteration = (i - 1) \div scenario.count
                 /\ s.index = (i - 1) % scenario.count
                 /\ s.endpoint = s.index % scenario.endpoints
                 /\ s.result \in Results
                 /\ s.succeeded <=> s.result = "expected"
        BY <4>1 DEF HttpInv, Declared
      <4>5. /\ Len(samples) = scenario.measured * scenario.count
            /\ \A i \in 1..Len(batches) : batches[i].iteration = i - 1
        BY <4>1 DEF HttpInv
      <4>6. WithinBounds(scenario)
        BY <2>0, <3>1, AcceptedIsWithin
      <4>7. ValidEvidence(scenario, e, Metrics)
        BY <4>1, <4>2, <4>3, <4>4, <4>5, <4>6 DEF ValidEvidence
      <4> QED
        BY <2>2, <3>1, <4>7 DEF HttpIsValid, Listed, e
    <3>2. CASE scenario.target # "http"
      BY <2>2, <3>2 DEF HttpIsValid, Listed
    <3> QED
      BY <3>1, <3>2
  <2> QED
    BY <2>3, <2>4, <2>5
<1> QED
  BY <1>1, Invariance, PTL
-----------------------------------------------------------------------------
(* Sequences one after the other.  The library's induction theorems take an operator;
   its principle of minimal elements takes a set.                                     *)

LEMMA MinimalNatural ==
  ASSUME NEW T, T \subseteq Nat, T # {}
  PROVE  \E x \in T : \A y \in T : ~(<<y, x>> \in OpToRel(<, Nat))
  BY WFMin, NatLessThanWellFounded

LEMMA LessIsRelated == \A x, y \in Nat : y < x => <<y, x>> \in OpToRel(<, Nat)
  BY DEF OpToRel

\* Every set of numbers that is not empty has a least element.
LEMMA LeastNatural ==
  ASSUME NEW T, T \subseteq Nat, T # {}
  PROVE  \E x \in T : \A y \in T : ~(y < x)
<1>1. PICK x \in T : \A y \in T : ~(<<y, x>> \in OpToRel(<, Nat))
  BY MinimalNatural
<1>2. ASSUME NEW y \in T
      PROVE  ~(y < x)
  BY <1>1, LessIsRelated, Zenon
<1> QED
  BY <1>2, Zenon

LEMMA Following ==
  ASSUME NEW c \in Nat \ {0}, NEW n \in Nat, NEW i \in 1..n
  PROVE  /\ (i - 1) * c \in Nat /\ i * c = (i - 1) * c + c /\ i * c \in Nat
         /\ i * c <= n * c /\ n * c \in Nat
  OBVIOUS

Beginning(s, m) == [k \in 1..m |-> s[k]]

LEMMA Joined ==
  ASSUME NEW S, NEW a \in Seq(S), NEW b \in Seq(S), NEW whole \in Seq(S),
         \A k \in 1..Len(a) : a[k] = whole[k],
         \A k \in 1..Len(b) : b[k] = whole[Len(a) + k]
  PROVE  a \o b = Beginning(whole, Len(a) + Len(b))
<1> DEFINE ab == a \o b
<1>1. ab \in Seq(S) /\ Len(ab) = Len(a) + Len(b) /\ Len(a) \in Nat /\ Len(b) \in Nat
  OBVIOUS
<1>2. ASSUME NEW k \in 1..Len(a) + Len(b)
      PROVE  ab[k] = whole[k]
  <2>1. CASE k <= Len(a)
    <3>1. k \in 1..Len(a)
      BY <1>1, <2>1
    <3>2. ab[k] = a[k]
      BY <3>1
    <3> QED
      BY <3>1, <3>2
  <2>2. CASE k > Len(a)
    <3> DEFINE j == k - Len(a)
    <3>1. j \in 1..Len(b) /\ Len(a) + j = k
      BY <1>1, <2>2
    <3>2. ab[k] = b[j]
      BY <1>1, <2>2
    <3> HIDE DEF j
    <3> QED
      BY <3>1, <3>2
  <2> QED
    BY <1>1, <2>1, <2>2
<1> HIDE DEF ab
<1>3. ab = [k \in 1..Len(a) + Len(b) |-> ab[k]]
  BY <1>1
<1> QED
  BY <1>2, <1>3 DEF ab, Beginning

\* Sequences of one length c, which are the pieces of another, are flattened to that.
LEMMA Flattened ==
  ASSUME NEW S, NEW n \in Nat \ {0}, NEW c \in Nat \ {0}, NEW seqs \in [1..n -> Seq(S)],
         NEW whole \in Seq(S), Len(whole) = n * c,
         \A i \in 1..n : Len(seqs[i]) = c,
         \A i \in 1..n : \A j \in 1..c : seqs[i][j] = whole[(i - 1) * c + j]
  PROVE  FlattenSeq(seqs) = whole
<1> DEFINE Eq(f) == f = [i \in 1..n |-> IF i = 1 THEN seqs[i] ELSE f[i - 1] \o seqs[i]]
           up(i) == [k \in 1..i * c |-> whole[k]]
           w == [i \in 1..n |-> up(i)]
           v == CHOOSE f : Eq(f)
<1>1. ASSUME NEW i \in 1..n
      PROVE  up(i) \in Seq(S) /\ Len(up(i)) = i * c
  <2> DEFINE d == i * c
  <2>1. d \in Nat /\ d <= Len(whole)
    BY Following
  <2> HIDE DEF d
  <2>2. [k \in 1..d |-> whole[k]] \in Seq(S) /\ Len([k \in 1..d |-> whole[k]]) = d
    BY <2>1
  <2> QED
    BY <2>2 DEF d
<1>2. up(1) = seqs[1]
  <2>1. seqs[1] \in Seq(S) /\ Len(seqs[1]) = c /\ 1 \in 1..n
    OBVIOUS
  <2>2. \A j \in 1..c : seqs[1][j] = whole[j]
    <3> SUFFICES ASSUME NEW j \in 1..c
                 PROVE  seqs[1][j] = whole[j]
      OBVIOUS
    <3>1. (1 - 1) * c + j = j
      OBVIOUS
    <3>2. seqs[1][j] = whole[(1 - 1) * c + j]
      BY <2>1
    <3> QED
      BY <3>1, <3>2
  <2>3. 1 * c = c
    OBVIOUS
  <2>4. seqs[1] = [j \in 1..c |-> whole[j]]
    BY <2>1, <2>2
  <2> QED
    BY <2>3, <2>4
<1>3. ASSUME NEW i \in 2..n
      PROVE  up(i) = up(i - 1) \o seqs[i]
  <2> DEFINE a == up(i - 1)
             b == seqs[i]
             z == (i - 1) * c
             e == i * c
  <2>1. i - 1 \in 1..n /\ i \in 1..n
    OBVIOUS
  <2>2. a \in Seq(S) /\ Len(a) = z
    <3> HIDE DEF up
    <3> QED
      BY <1>1, <2>1
  <2>3. z \in Nat /\ e = z + c
    BY <2>1, Following
  <2>4. b \in Seq(S) /\ Len(b) = c /\ \A j \in 1..c : b[j] = whole[z + j]
    BY <2>1
  <2>5. \A k \in 1..z : a[k] = whole[k]
    OBVIOUS
  <2>6. up(i) = [k \in 1..e |-> whole[k]]
    OBVIOUS
  <2> HIDE DEF a, b, z, e
  <2>7. a \o b = [k \in 1..e |-> whole[k]]
    <3>1. \A k \in 1..Len(a) : a[k] = whole[k]
      BY <2>2, <2>5
    <3>2. \A k \in 1..Len(b) : b[k] = whole[Len(a) + k]
      BY <2>2, <2>4
    <3>3. a \o b = Beginning(whole, Len(a) + Len(b))
      BY <2>2, <2>4, <3>1, <3>2, Joined
    <3> QED
      BY <2>2, <2>3, <2>4, <3>3 DEF Beginning
  <2> QED
    BY <2>6, <2>7 DEF a, b
<1> HIDE DEF up
<1>4. Eq(w)
  <2>1. \A i \in 1..n : w[i] = IF i = 1 THEN seqs[i] ELSE w[i - 1] \o seqs[i]
    <3> SUFFICES ASSUME NEW i \in 1..n
                 PROVE  w[i] = IF i = 1 THEN seqs[i] ELSE w[i - 1] \o seqs[i]
      OBVIOUS
    <3>1. CASE i = 1
      BY <1>2, <3>1
    <3>2. CASE i # 1
      <4>1. i \in 2..n /\ i - 1 \in 1..n
        BY <3>2
      <4>2. w[i] = up(i) /\ w[i - 1] = up(i - 1)
        BY <4>1
      <4> QED
        BY <1>3, <3>2, <4>1, <4>2
    <3> QED
      BY <3>1, <3>2
  <2> HIDE DEF w
  <2>2. w = [i \in 1..n |-> w[i]]
    BY DEF w
  <2> QED
    BY <2>1, <2>2
<1>5. Eq(v)
  <2> HIDE DEF Eq
  <2> QED
    BY <1>4, Zenon
<1>6. FlattenSeq(seqs) = v[n]
  <2>1. Len(seqs) = n
    OBVIOUS
  <2> QED
    BY <2>1 DEF FlattenSeq
<1> HIDE DEF v
<1>7. \A i \in 1..n : v[i] = w[i]
  <2> DEFINE T == {i \in 1..n : v[i] # w[i]}
  <2> SUFFICES ASSUME T # {}
               PROVE  FALSE
    OBVIOUS
  <2>1. T \subseteq Nat
    OBVIOUS
  <2> HIDE DEF T
  <2>2. PICK i \in T : \A j \in T : ~(j < i)
    BY <2>1, LeastNatural
  <2>3. i \in 1..n /\ v[i] # w[i]
    BY <2>2 DEF T
  <2>4. /\ v[i] = IF i = 1 THEN seqs[i] ELSE v[i - 1] \o seqs[i]
        /\ w[i] = IF i = 1 THEN seqs[i] ELSE w[i - 1] \o seqs[i]
    <3> HIDE DEF w
    <3> QED
      BY <1>4, <1>5, <2>3
  <2>5. i # 1
    BY <2>3, <2>4
  <2>6. i - 1 \in 1..n /\ i - 1 < i
    BY <2>3, <2>5
  <2>7. v[i - 1] = w[i - 1]
    BY <2>2, <2>6 DEF T
  <2> QED
    BY <2>3, <2>4, <2>5, <2>7
<1>8. w[n] = whole
  <2> DEFINE d == n * c
  <2>1. w[n] = [k \in 1..d |-> whole[k]]
    BY DEF up
  <2>2. Len(whole) = d
    OBVIOUS
  <2> HIDE DEF d, w
  <2>3. [k \in 1..d |-> whole[k]] = whole
    BY <2>2
  <2> QED
    BY <2>1, <2>3
<1> QED
  BY <1>6, <1>7, <1>8

-----------------------------------------------------------------------------
(* What validate_evidence accepts. *)

\* Any evidence of its kinds that validate_evidence accepts, some run would have produced.
LEMMA ValidIsProducible ==
  ASSUME NEW s, s.count \in Nat \ {0}, s.measured \in Nat \ {0}, s.endpoints \in Nat \ {0},
         NEW bs \in Seq([iteration : Nat, late : BOOLEAN]), NEW ss \in Seq(HttpSamples),
         NEW metrics, ValidEvidence(s, EvidenceOf(s, bs, ss), metrics)
  PROVE  Producible(s, EvidenceOf(s, bs, ss))
<1> DEFINE n == s.measured
           c == s.count
           e == s.endpoints
           results == [p \in (1..n) \X (1..c) |-> ss[(p[1] - 1) * c + p[2]].result]
           line(i, j) == [index |-> j - 1, result |-> results[<<i, j>>]]
           lines(i) == [j \in 1..c |-> line(i, j)]
           seqs == [i \in 1..n |-> BatchSamples(lines(i), i - 1, e)]
<1>1. /\ Len(bs) = n /\ Len(ss) = n * c
      /\ \A i \in 1..Len(bs) : bs[i].iteration = i - 1 /\ ~bs[i].late
      /\ \A i \in 1..Len(ss) :
           /\ ss[i].iteration = (i - 1) \div c /\ ss[i].index = (i - 1) % c
           /\ ss[i].endpoint = ss[i].index % e /\ ss[i].result \in Results
           /\ ss[i].succeeded <=> ss[i].result = "expected"
  BY DEF ValidEvidence, EvidenceOf
<1>2. ASSUME NEW i \in 1..n, NEW j \in 1..c
      PROVE  /\ (i - 1) * c + j \in 1..Len(ss)
             /\ LET x == ss[(i - 1) * c + j]
                IN /\ x \in HttpSamples /\ x.result = results[<<i, j>>]
                   /\ x = [iteration |-> i - 1, index |-> j - 1, endpoint |-> (j - 1) % e,
                           result |-> x.result, succeeded |-> x.result = "expected"]
  <2> DEFINE k == (i - 1) * c + j
             x == ss[k]
  <2>1. k \in 1..n * c /\ k - 1 = (i - 1) * c + (j - 1)
    <3>1. i - 1 \in 0..n - 1 /\ j - 1 \in 0..c - 1
      OBVIOUS
    <3>2. (i - 1) * c + (j - 1) + 1 \in 1..n * c
      BY <3>1, PlaceBound
    <3> DEFINE z == (i - 1) * c
    <3>3. z \in Nat
      BY Following
    <3> HIDE DEF z
    <3>4. z + (j - 1) + 1 = z + j /\ z + j - 1 = z + (j - 1)
      BY <3>3
    <3> QED
      BY <3>2, <3>4 DEF z
  <2>2. (k - 1) \div c = i - 1 /\ (k - 1) % c = j - 1
    <3>1. i - 1 \in Nat /\ j - 1 \in 0..c - 1
      OBVIOUS
    <3>2. ((i - 1) * c + (j - 1)) \div c = i - 1 /\ ((i - 1) * c + (j - 1)) % c = j - 1
      BY <3>1, DivMod
    <3> QED
      BY <2>1, <3>2
  <2>3. results[<<i, j>>] = x.result
    OBVIOUS
  <2> HIDE DEF k, results
  <2>4. k \in 1..Len(ss)
    BY <1>1, <2>1
  <2>5. /\ x \in HttpSamples /\ x.iteration = i - 1 /\ x.index = j - 1
        /\ x.endpoint = (j - 1) % e /\ (x.succeeded <=> x.result = "expected")
    <3>1. /\ x.iteration = (k - 1) \div c /\ x.index = (k - 1) % c
          /\ x.endpoint = x.index % e /\ (x.succeeded <=> x.result = "expected")
      BY <1>1, <2>4, Zenon
    <3>2. x \in HttpSamples
      BY <2>4
    <3> QED
      BY <2>2, <3>1, <3>2, Zenon
  <2> HIDE DEF x
  <2>6. x.succeeded = (x.result = "expected")
    <3>1. x.succeeded \in BOOLEAN
      BY <2>5 DEF HttpSamples
    <3> QED
      BY <2>5, <3>1
  <2>7. x = [iteration |-> x.iteration, index |-> x.index, endpoint |-> x.endpoint,
             result |-> x.result, succeeded |-> x.succeeded]
    BY <2>5 DEF HttpSamples
  <2>8. x = [iteration |-> i - 1, index |-> j - 1, endpoint |-> (j - 1) % e,
             result |-> x.result, succeeded |-> x.result = "expected"]
    BY <2>5, <2>6, <2>7, Zenon
  <2> QED
    BY <2>3, <2>4, <2>5, <2>8 DEF x, k
<1>3. results \in [(1..n) \X (1..c) -> Results]
  <2>1. ASSUME NEW i \in 1..n, NEW j \in 1..c
        PROVE  ss[(i - 1) * c + j].result \in Results
    BY <1>1, <1>2
  <2> QED
    BY <2>1
<1> HIDE DEF results
<1>4. ASSUME NEW i \in 1..n, NEW j \in 1..c
      PROVE  BatchSamples(lines(i), i - 1, e)[j] = ss[(i - 1) * c + j]
  <2>1. Len(lines(i)) = c
    OBVIOUS
  <2>2. ToSet(lines(i)) = {line(i, k) : k \in 1..c}
    BY <2>1 DEF ToSet
  <2>3. (CHOOSE l \in ToSet(lines(i)) : l.index = j - 1) = line(i, j)
    <3>1. \A l \in ToSet(lines(i)) : l.index = j - 1 => l = line(i, j)
      <4> SUFFICES ASSUME NEW k \in 1..c, line(i, k).index = j - 1
                   PROVE  line(i, k) = line(i, j)
        BY <2>2
      <4>1. k = j
        OBVIOUS
      <4> QED
        BY <4>1
    <3>2. line(i, j) \in ToSet(lines(i)) /\ line(i, j).index = j - 1
      BY <2>2
    <3> HIDE DEF line, lines
    <3> QED
      BY <3>1, <3>2
  <2>4. Sorted(lines(i))[j] = line(i, j)
    BY <2>1, <2>3 DEF Sorted
  <2>5. BatchSamples(lines(i), i - 1, e)[j] =
          [iteration |-> i - 1, index |-> line(i, j).index, endpoint |-> line(i, j).index % e,
           result |-> line(i, j).result, succeeded |-> line(i, j).result = "expected"]
    BY <2>1, <2>4 DEF BatchSamples
  <2> QED
    BY <1>2, <2>5
<1>5. ASSUME NEW i \in 1..n
      PROVE  seqs[i] \in Seq(HttpSamples) /\ Len(seqs[i]) = c
  <2> DEFINE q == BatchSamples(lines(i), i - 1, e)
  <2>1. Len(lines(i)) = c
    OBVIOUS
  <2>2. q = [j \in 1..c |-> q[j]]
    BY <2>1 DEF BatchSamples
  <2>3. seqs[i] = q
    OBVIOUS
  <2>4. \A j \in 1..c : q[j] \in HttpSamples
    BY <1>2, <1>4
  <2> HIDE DEF q, seqs
  <2>5. q \in [1..c -> HttpSamples]
    BY <2>2, <2>4
  <2>6. c \in Nat
    OBVIOUS
  <2> HIDE DEF c
  <2>7. q \in Seq(HttpSamples) /\ Len(q) = c
    BY <2>5, <2>6
  <2> QED
    BY <2>3, <2>7
<1>6. FlattenSeq(seqs) = ss
  <2>1. seqs \in [1..n -> Seq(HttpSamples)] /\ \A i \in 1..n : Len(seqs[i]) = c
    <3>1. seqs = [i \in 1..n |-> seqs[i]]
      OBVIOUS
    <3> HIDE DEF seqs
    <3> QED
      BY <1>5, <3>1
  <2>2. \A i \in 1..n : \A j \in 1..c : seqs[i][j] = ss[(i - 1) * c + j]
    <3>1. \A i \in 1..n : seqs[i] = BatchSamples(lines(i), i - 1, e)
      OBVIOUS
    <3> HIDE DEF seqs, lines
    <3> QED
      BY <1>4, <3>1
  <2>3. n \in Nat \ {0} /\ c \in Nat \ {0} /\ Len(ss) = n * c
    BY <1>1
  <2> HIDE DEF seqs, n, c
  <2> QED
    BY <2>1, <2>2, <2>3, Flattened
<1>7. [i \in 1..n |-> [iteration |-> i - 1, late |-> FALSE]] = bs
  <2>1. ASSUME NEW i \in 1..n
        PROVE  bs[i] = [iteration |-> i - 1, late |-> FALSE]
    <3>0. i \in 1..Len(bs)
      BY <1>1
    <3>1. bs[i] \in [iteration : Nat, late : BOOLEAN] /\ bs[i].iteration = i - 1 /\ ~bs[i].late
      <4>1. bs[i] \in [iteration : Nat, late : BOOLEAN]
        BY <3>0, ElementOfSeq
      <4> QED
        BY <1>1, <3>0, <4>1
    <3> QED
      BY <3>1
  <2>2. bs = [i \in 1..n |-> bs[i]]
    BY <1>1
  <2> HIDE DEF n
  <2> QED
    BY <2>1, <2>2
<1>8. EvidenceOfTransfers(s, results) = EvidenceOf(s, bs, ss)
  BY <1>6, <1>7 DEF EvidenceOfTransfers
<1> QED
  BY <1>3, <1>8 DEF Producible

\* Revised samples of the same number are of the kind of the others.
LEMMA RevisedShape ==
  ASSUME NEW ss \in Seq(HttpSamples), NEW all \in SUBSET HttpSamples,
         NEW new \in Revised(ss, all), Len(new) = Len(ss)
  PROVE  new \in Seq(HttpSamples)
<1> DEFINE at == 1..Len(ss)
<1>1. Len(ss) \in Nat
  OBVIOUS
<1>2. ASSUME NEW i \in at, NEW x \in all, new = [ss EXCEPT ![i] = x]
      PROVE  new \in Seq(HttpSamples)
  <2>1. x \in HttpSamples
    OBVIOUS
  <2> QED
    BY <1>2, <2>1, ExceptSeq
<1>3. ASSUME NEW i \in at, new = RemoveAt(ss, i)
      PROVE  FALSE
  <2> DEFINE a == SubSeq(ss, 1, i - 1)
             b == SubSeq(ss, i + 1, Len(ss))
  <2>1. new = a \o b
    BY <1>3 DEF RemoveAt
  <2>2. a \in Seq(HttpSamples) /\ Len(a) = i - 1 /\ b \in Seq(HttpSamples) /\ Len(b) = Len(ss) - i
    OBVIOUS
  <2> HIDE DEF a, b
  <2>3. Len(a \o b) = Len(a) + Len(b)
    BY <2>2
  <2> QED
    BY <1>1, <2>1, <2>2, <2>3
<1>4. ASSUME NEW i \in at, new = Append(ss, ss[i])
      PROVE  FALSE
  <2>1. Len(Append(ss, ss[i])) = Len(ss) + 1
    OBVIOUS
  <2> QED
    BY <1>1, <1>4, <2>1
<1>5. ASSUME NEW i \in at, NEW j \in at, new = [ss EXCEPT ![i] = ss[j], ![j] = ss[i]]
      PROVE  new \in Seq(HttpSamples)
  <2> DEFINE one == [ss EXCEPT ![i] = ss[j]]
  <2>1. ss[i] \in HttpSamples /\ ss[j] \in HttpSamples
    BY ElementOfSeq
  <2>2. one \in Seq(HttpSamples) /\ Len(one) = Len(ss)
    BY <2>1, ExceptSeq
  <2>3. new = [one EXCEPT ![j] = ss[i]]
    BY <1>5
  <2> HIDE DEF one
  <2> QED
    BY <2>1, <2>2, <2>3, ExceptSeq
<1> QED
  BY <1>2, <1>3, <1>4, <1>5 DEF Revised

\* A revision leaves the batches alone, and its samples are of their kind.
LEMMA RevisionShape ==
  ASSUME NEW s \in Scenarios, NEW bs, NEW ss \in Seq(HttpSamples),
         NEW e \in Revisions(s, EvidenceOf(s, bs, ss)), Len(e.samples) = Len(ss)
  PROVE  e = EvidenceOf(s, bs, e.samples) /\ e.samples \in Seq(HttpSamples)
<1> DEFINE old == EvidenceOf(s, bs, ss)
           all == [iteration : 0..s.measured, index : 0..s.count, endpoint : 0..s.endpoints - 1,
                   result : Reported, succeeded : BOOLEAN]
<1>1. old = [count |-> s.count, batches |-> bs, samples |-> ss]
  BY DEF EvidenceOf
<1>2. all \in SUBSET HttpSamples
  <2>1. s.measured \in Nat /\ s.count \in Nat /\ s.endpoints \in Nat
    BY ScenarioTypes
  <2> QED
    BY <2>1 DEF HttpSamples
<1>3. PICK new \in Revised(ss, all) : e = [old EXCEPT !.samples = new]
  <2>1. old.samples = ss /\ e \in Revisions(s, old)
    BY <1>1
  <2> HIDE DEF old
  <2>2. PICK new \in Revised(old.samples, all) : e = [old EXCEPT !.samples = new]
    BY <2>1 DEF Revisions
  <2> QED
    BY <2>1, <2>2
<1> HIDE DEF all
<1>4. e = [count |-> s.count, batches |-> bs, samples |-> new]
  BY <1>1, <1>3
<1>5. new \in Seq(HttpSamples)
  BY <1>2, <1>3, <1>4, RevisedShape
<1> QED
  BY <1>4, <1>5 DEF EvidenceOf

\* Evidence of which a sample was edited, removed, doubled or moved passes validate_evidence
\* only if some run would have produced it with the same metrics, for every accepted scenario.
THEOREM RevisionsAreRefused == Spec => []RevisedEvidenceIsRefused
<1>1. IInv => RevisedEvidenceIsRefused
  <2> SUFFICES ASSUME IInv, pc = "measured", scenario.target = "http",
                      NEW e \in Revisions(scenario, EvidenceOf(scenario, batches, samples)),
                      ValidEvidence(scenario, e, Metrics)
               PROVE  Producible(scenario, e) /\ MetricsFromEvidence(e) = Metrics
    BY DEF RevisedEvidenceIsRefused
  <2>1. /\ AcceptedScenario(scenario) /\ scenario \in Scenarios /\ HttpInv
        /\ Len(batches) = scenario.measured
    BY DEF IInv, PlaceInv, TargetInv, AfterTarget, MeasuredSoFar
  <2>2. /\ scenario.count \in Nat \ {0} /\ scenario.endpoints \in Nat \ {0}
        /\ scenario.measured \in Nat \ {0}
    BY <2>1, ScenarioTypes, AcceptedRequests DEF AcceptedScenario
  <2>3. Len(e.samples) = Len(samples) /\ MetricsFromEvidence(e) = Metrics
    BY <2>1 DEF ValidEvidence, HttpInv
  <2>4. e = EvidenceOf(scenario, batches, e.samples) /\ e.samples \in Seq(HttpSamples)
    BY <2>1, <2>3, RevisionShape DEF HttpInv
  <2> DEFINE ss == e.samples
  <2>5. ValidEvidence(scenario, EvidenceOf(scenario, batches, ss), Metrics)
    BY <2>4
  <2> HIDE DEF ss
  <2>6. Producible(scenario, EvidenceOf(scenario, batches, ss))
    BY <2>1, <2>2, <2>4, <2>5, ValidIsProducible DEF HttpInv, ss
  <2> QED
    BY <2>3, <2>4, <2>6 DEF ss
<1> QED
  BY <1>1, Invariance, PTL
-----------------------------------------------------------------------------
(* Sums. *)

\* What a function that adds up the values of sets is.
Chosen(s) == CHOOSE x \in s : TRUE
AddsUp(sum, S, val) ==
  sum = [s \in SUBSET S |-> IF s = {} THEN 0 ELSE val[Chosen(s)] + sum[s \ {Chosen(s)}]]

Subsets(S, k) == {s \in SUBSET S : Cardinality(s) <= k}
AddsUpTo(sum, S, val, k) ==
  /\ sum \in [Subsets(S, k) -> Nat]
  /\ \A s \in Subsets(S, k) :
       sum[s] = IF s = {} THEN 0 ELSE val[Chosen(s)] + sum[s \ {Chosen(s)}]

LEMMA WithoutChosen ==
  ASSUME NEW S, IsFiniteSet(S), NEW s \in SUBSET S, s # {}
  PROVE  /\ Chosen(s) \in S /\ s \ {Chosen(s)} \in SUBSET S
         /\ Cardinality(s) \in Nat \ {0} /\ Cardinality(s \ {Chosen(s)}) = Cardinality(s) - 1
<1>1. Chosen(s) \in s
  BY DEF Chosen
<1>2. IsFiniteSet(s)
  BY FS_Subset
<1>3. Cardinality(s \ {Chosen(s)}) = Cardinality(s) - 1
  BY <1>1, <1>2, FS_RemoveElement
<1>4. Cardinality(s) \in Nat /\ Cardinality(s) # 0
  BY <1>2, FS_CardinalityType, FS_EmptySet
<1> QED
  BY <1>1, <1>3, <1>4

LEMMA SumExists ==
  ASSUME NEW S, IsFiniteSet(S), NEW val \in [S -> Nat], NEW k \in Nat
  PROVE  \E sum : AddsUpTo(sum, S, val, k)
<1> DEFINE T == {n \in Nat : ~(\E sum : AddsUpTo(sum, S, val, n))}
<1> SUFFICES ASSUME T # {}
             PROVE  FALSE
  OBVIOUS
<1>1. T \subseteq Nat
  OBVIOUS
<1> HIDE DEF T
<1>2. PICK n \in T : \A m \in T : ~(m < n)
  BY <1>1, LeastNatural
<1>3. n \in Nat /\ ~(\E sum : AddsUpTo(sum, S, val, n))
  BY <1>2 DEF T
<1>4. \A s \in SUBSET S : Cardinality(s) \in Nat /\ (Cardinality(s) = 0 <=> s = {})
  <2>1. \A s \in SUBSET S : IsFiniteSet(s)
    BY FS_Subset
  <2> QED
    BY <2>1, FS_CardinalityType, FS_EmptySet
<1>5. CASE n = 0
  <2> DEFINE f == [s \in Subsets(S, 0) |-> 0]
  <2>1. \A s \in Subsets(S, 0) : s = {}
    BY <1>4 DEF Subsets
  <2>2. AddsUpTo(f, S, val, 0)
    BY <2>1 DEF AddsUpTo
  <2> QED
    BY <1>3, <1>5, <2>2
<1>6. CASE n # 0
  <2>1. n - 1 \in Nat /\ n - 1 \notin T
    BY <1>2, <1>3, <1>6
  <2>2. PICK f : AddsUpTo(f, S, val, n - 1)
    BY <2>1 DEF T
  <2> DEFINE next(s) == IF s = {} THEN 0 ELSE val[Chosen(s)] + f[s \ {Chosen(s)}]
             g == [s \in Subsets(S, n) |-> next(s)]
  <2>3. \A s \in Subsets(S, n) : s # {} => /\ s \ {Chosen(s)} \in Subsets(S, n - 1)
                                            /\ s \ {Chosen(s)} \in Subsets(S, n)
                                            /\ Chosen(s) \in S
    <3> SUFFICES ASSUME NEW s \in Subsets(S, n), s # {}
                 PROVE  /\ s \ {Chosen(s)} \in Subsets(S, n - 1) /\ s \ {Chosen(s)} \in Subsets(S, n)
                        /\ Chosen(s) \in S
      OBVIOUS
    <3>1. s \in SUBSET S /\ Cardinality(s) <= n
      BY DEF Subsets
    <3> DEFINE c == Cardinality(s)
               d == Cardinality(s \ {Chosen(s)})
    <3>2. /\ Chosen(s) \in S /\ s \ {Chosen(s)} \in SUBSET S
          /\ c \in Nat \ {0} /\ d = c - 1
      BY <3>1, WithoutChosen
    <3>3. d <= n - 1 /\ d <= n
      <4> HIDE DEF c, d
      <4> QED
        BY <1>3, <3>1, <3>2 DEF c
    <3> QED
      BY <3>2, <3>3 DEF Subsets
  <2>4. \A s \in Subsets(S, n - 1) : f[s] \in Nat /\ f[s] = next(s)
    BY <2>2 DEF AddsUpTo
  <2>5. \A s \in Subsets(S, n) : next(s) \in Nat
    <3> SUFFICES ASSUME NEW s \in Subsets(S, n), s # {}
                 PROVE  val[Chosen(s)] + f[s \ {Chosen(s)}] \in Nat
      OBVIOUS
    <3>1. f[s \ {Chosen(s)}] \in Nat /\ val[Chosen(s)] \in Nat
      BY <2>3, <2>4
    <3> QED
      BY <3>1
  <2>6. \A s \in Subsets(S, n) : g[s] = next(s)
    OBVIOUS
  <2>7. g \in [Subsets(S, n) -> Nat]
    BY <2>5
  <2> HIDE DEF g
  <2>8. \A s \in Subsets(S, n) : s # {} => g[s \ {Chosen(s)}] = f[s \ {Chosen(s)}]
    BY <2>3, <2>4, <2>6
  <2>9. AddsUpTo(g, S, val, n)
    BY <2>6, <2>7, <2>8 DEF AddsUpTo
  <2> QED
    BY <1>3, <2>9
<1> QED
  BY <1>5, <1>6

LEMMA SumIsNatural ==
  ASSUME NEW S, IsFiniteSet(S), NEW val \in [S -> Nat]
  PROVE  (CHOOSE sum : AddsUp(sum, S, val))[S] \in Nat
<1> DEFINE v == CHOOSE sum : AddsUp(sum, S, val)
           n == Cardinality(S)
<1>1. n \in Nat /\ \A s \in SUBSET S : Cardinality(s) \in Nat /\ Cardinality(s) <= n
  BY FS_Subset, FS_CardinalityType
<1>2. Subsets(S, n) = SUBSET S
  BY <1>1 DEF Subsets
<1> HIDE DEF n
<1>3. PICK f : AddsUpTo(f, S, val, n)
  BY <1>1, SumExists
<1>4. AddsUp(f, S, val)
  BY <1>2, <1>3 DEF AddsUpTo, AddsUp
<1>5. AddsUp(v, S, val)
  BY <1>4, Zenon
<1> HIDE DEF v
<1>6. \A s \in SUBSET S : v[s] = IF s = {} THEN 0 ELSE val[Chosen(s)] + v[s \ {Chosen(s)}]
  BY <1>5 DEF AddsUp
<1> DEFINE T == {Cardinality(s) : s \in {t \in SUBSET S : v[t] \notin Nat}}
<1>7. T = {}
  <2> SUFFICES ASSUME T # {}
               PROVE  FALSE
    OBVIOUS
  <2>1. T \subseteq Nat
    BY <1>1
  <2> HIDE DEF T
  <2>2. PICK k \in T : \A m \in T : ~(m < k)
    BY <2>1, LeastNatural
  <2>3. PICK s \in SUBSET S : v[s] \notin Nat /\ k = Cardinality(s)
    BY <2>2 DEF T
  <2>4. s # {}
    BY <1>6, <2>3
  <2> DEFINE t == s \ {Chosen(s)}
  <2>5. Chosen(s) \in S /\ t \in SUBSET S /\ Cardinality(t) < k
    BY <2>3, <2>4, WithoutChosen
  <2>6. v[s] = val[Chosen(s)] + v[t]
    BY <1>6, <2>4
  <2> HIDE DEF t
  <2>7. v[t] \in Nat
    BY <2>2, <2>5 DEF T
  <2>8. val[Chosen(s)] \in Nat
    BY <2>5
  <2> QED
    BY <2>3, <2>6, <2>7, <2>8
<1> QED
  BY <1>7 DEF v

\* The numbers of a set of groups are natural.
LEMMA SumsOfGroups ==
  ASSUME NEW S \in SUBSET Groups, IsFiniteSet(S)
  PROVE  SamplesOf(S) \in Nat /\ WeightOf(S) \in Nat
<1> DEFINE count == [g \in S |-> g.cost[1]]
           weigh == [g \in S |-> g.cost[2]]
<1>1. count \in [S -> Nat] /\ weigh \in [S -> Nat]
  <2>1. \A g \in S : g.cost \in (Nat \ {0}) \X Nat
    BY CostsAssumption DEF Groups, CostsAssumption
  <2> QED
    BY <2>1
<1>2. \A s \in SUBSET S : s # {} => (CHOOSE x \in s : TRUE) \in S
  OBVIOUS
<1>3. SamplesOf(S) = (CHOOSE sum : AddsUp(sum, S, count))[S]
  <2>1. \A sum : AddsUp(sum, S, count) <=>
          sum = [s \in SUBSET S |-> IF s = {} THEN 0
                                    ELSE (CHOOSE x \in s : TRUE).cost[1] + sum[s \ {CHOOSE x \in s : TRUE}]]
    BY <1>2 DEF AddsUp, Chosen
  <2> QED
    BY <2>1 DEF SamplesOf, MapThenSumSet, MapThenFoldSet
<1>4. WeightOf(S) = (CHOOSE sum : AddsUp(sum, S, weigh))[S]
  <2>1. \A sum : AddsUp(sum, S, weigh) <=>
          sum = [s \in SUBSET S |-> IF s = {} THEN 0
                                    ELSE (CHOOSE x \in s : TRUE).cost[2] + sum[s \ {CHOOSE x \in s : TRUE}]]
    BY <1>2 DEF AddsUp, Chosen
  <2> QED
    BY <2>1 DEF WeightOf, MapThenSumSet, MapThenFoldSet
<1> QED
  BY <1>1, <1>3, <1>4, SumIsNatural

-----------------------------------------------------------------------------
(* Sorting by rank. *)

\* R orders S strictly and completely.
Orders(R, S) ==
  /\ \A x \in S : <<x, x>> \notin R
  /\ \A x, y, z \in S : <<x, y>> \in R /\ <<y, z>> \in R => <<x, z>> \in R
  /\ \A x, y \in S : x # y => <<x, y>> \in R \/ <<y, x>> \in R

Before(x, R, S) == {y \in S : <<y, x>> \in R}
Rank(x, R, S) == Cardinality(Before(x, R, S))

LEMMA RanksAgree ==
  ASSUME NEW S, IsFiniteSet(S), NEW R, Orders(R, S), NEW x \in S, NEW y \in S
  PROVE  /\ Rank(x, R, S) \in 0..Cardinality(S) - 1
         /\ <<x, y>> \in R => Rank(x, R, S) < Rank(y, R, S)
<1> DEFINE n == Cardinality(S)
           a == Rank(x, R, S)
           b == Rank(y, R, S)
<1>1. n \in Nat /\ n # 0
  BY FS_CardinalityType, FS_EmptySet
<1>2. a \in Nat /\ a <= n - 1
  <2>1. IsFiniteSet(S \ {x}) /\ Cardinality(S \ {x}) = n - 1
    BY FS_RemoveElement
  <2>2. Before(x, R, S) \in SUBSET (S \ {x})
    BY DEF Orders, Before
  <2>3. IsFiniteSet(Before(x, R, S)) /\ Cardinality(Before(x, R, S)) <= Cardinality(S \ {x})
    BY <2>1, <2>2, FS_Subset
  <2>4. Cardinality(Before(x, R, S)) \in Nat
    BY <2>3, FS_CardinalityType
  <2> QED
    BY <2>1, <2>3, <2>4 DEF Rank
<1>3. ASSUME <<x, y>> \in R
      PROVE  a < b
  <2> DEFINE B == Before(y, R, S)
             A == Before(x, R, S)
  <2>1. A \in SUBSET (B \ {x}) /\ x \in B
    BY <1>3 DEF Orders, Before
  <2>2. IsFiniteSet(B)
    <3>1. B \in SUBSET S
      BY DEF Before
    <3> QED
      BY <3>1, FS_Subset
  <2> HIDE DEF A, B
  <2>3. IsFiniteSet(B \ {x}) /\ Cardinality(B \ {x}) = Cardinality(B) - 1 /\ Cardinality(B) \in Nat
    BY <2>1, <2>2, FS_RemoveElement, FS_CardinalityType
  <2>4. IsFiniteSet(A) /\ Cardinality(A) <= Cardinality(B \ {x})
    BY <2>1, <2>3, FS_Subset
  <2>5. Cardinality(A) \in Nat
    BY <2>4, FS_CardinalityType
  <2>6. Cardinality(A) < Cardinality(B)
    <3> DEFINE p == Cardinality(A)
               q == Cardinality(B)
               r == Cardinality(B \ {x})
    <3>1. p \in Nat /\ q \in Nat /\ r = q - 1 /\ p <= r
      BY <2>3, <2>4, <2>5
    <3> HIDE DEF p, q, r
    <3>2. p < q
      BY <3>1
    <3> QED
      BY <3>2 DEF p, q
  <2> QED
    BY <2>6 DEF A, B, Rank
<1> HIDE DEF n, a, b
<1>4. a \in 0..n - 1
  BY <1>1, <1>2
<1> QED
  BY <1>3, <1>4 DEF n, a, b

\* q is S in the order R.
Sorts(q, S, R) ==
  /\ q \in Seq(S)
  /\ \A x \in S : \E i \in 1..Len(q) : q[i] = x
  /\ \A i, j \in 1..Len(q) : i < j => <<q[i], q[j]>> \in R

\* c is the first of S in the order R: none twice, and each before all that were cut.
KeepsFirst(c, cut, S, R) ==
  /\ c \in Seq(S)
  /\ \A i, j \in 1..Len(c) : i # j => c[i] # c[j]
  /\ cut <=> \E x \in S : \A i \in 1..Len(c) : c[i] # x
  /\ \A x \in S : (\A i \in 1..Len(c) : c[i] # x) => \A i \in 1..Len(c) : <<c[i], x>> \in R

\* What is ranked is sorted, and all of the set.
LEMMA RankedInOrder ==
  ASSUME NEW S, IsFiniteSet(S), NEW R, Orders(R, S)
  PROVE  Sorts(InOrder(S, R), S, R)
<1> DEFINE n == Cardinality(S)
           rank(x) == Rank(x, R, S)
           q == InOrder(S, R)
           f == [x \in S |-> rank(x)]
<1>1. n \in Nat
  BY FS_CardinalityType
<1>2. \A x \in S : rank(x) \in 0..n - 1
  BY RanksAgree
<1>3. \A x, y \in S : <<x, y>> \in R => rank(x) < rank(y)
  BY RanksAgree
<1> HIDE DEF n, rank
<1>4. \A x, y \in S : rank(x) = rank(y) => x = y
  <2> SUFFICES ASSUME NEW x \in S, NEW y \in S, rank(x) = rank(y), x # y
               PROVE  FALSE
    OBVIOUS
  <2>1. <<x, y>> \in R \/ <<y, x>> \in R
    BY DEF Orders
  <2>2. rank(x) < rank(y) \/ rank(y) < rank(x)
    BY <1>3, <2>1
  <2>3. rank(x) \in Nat /\ rank(y) \in Nat
    BY <1>1, <1>2
  <2> QED
    BY <2>2, <2>3
<1>5. \A k \in 0..n - 1 : \E x \in S : rank(x) = k
  <2>1. f \in [S -> 0..n - 1]
    BY <1>2
  <2>2. f \in Injection(S, 0..n - 1)
    BY <1>4, <2>1, Fun_IsInj
  <2>3. IsFiniteSet(0..n - 1) /\ Cardinality(0..n - 1) = n
    <3> DEFINE m == n - 1
    <3>1. 0 \in Int /\ m \in Int /\ m + 1 = n /\ (0 > m => n = 0)
      BY <1>1
    <3> HIDE DEF m
    <3>2. IsFiniteSet(0..m) /\ Cardinality(0..m) = IF 0 > m THEN 0 ELSE m - 0 + 1
      BY <3>1, FS_Interval
    <3>3. Cardinality(0..m) = n
      BY <3>1, <3>2
    <3> QED
      BY <3>2, <3>3 DEF m
  <2>4. f \in Surjection(S, 0..n - 1)
    BY <2>2, <2>3, FS_Injection DEF n
  <2>5. \A k \in 0..n - 1 : \E x \in S : f[x] = k
    <3> HIDE DEF f
    <3> QED
      BY <2>4, Fun_SurjectionProperties
  <2> QED
    BY <2>5
<1>6. q = [i \in 1..n |-> CHOOSE x \in S : rank(x) = i - 1]
  BY DEF InOrder, n, rank, Rank, Before
<1>7. \A i \in 1..n : q[i] \in S /\ rank(q[i]) = i - 1
  <2> SUFFICES ASSUME NEW i \in 1..n
               PROVE  q[i] \in S /\ rank(q[i]) = i - 1
    OBVIOUS
  <2>1. i - 1 \in 0..n - 1
    BY <1>1
  <2>2. \E x \in S : rank(x) = i - 1
    BY <1>5, <2>1
  <2>3. q[i] = CHOOSE x \in S : rank(x) = i - 1
    BY <1>6
  <2> QED
    BY <2>2, <2>3
<1>8. q \in Seq(S) /\ Len(q) = n
  <2>1. q \in [1..n -> S]
    BY <1>6, <1>7
  <2> QED
    BY <1>1, <2>1
<1> HIDE DEF q
<1>9. ASSUME NEW x \in S
      PROVE  \E i \in 1..n : q[i] = x
  <2> DEFINE i == rank(x) + 1
  <2>1. i \in 1..n /\ i - 1 = rank(x)
    <3>1. rank(x) \in 0..n - 1
      BY <1>2
    <3> QED
      BY <1>1, <3>1
  <2> HIDE DEF i
  <2>2. q[i] \in S /\ rank(q[i]) = rank(x)
    BY <1>7, <2>1
  <2> QED
    BY <1>4, <2>1, <2>2
<1>10. ASSUME NEW i \in 1..n, NEW j \in 1..n, i < j
       PROVE  <<q[i], q[j]>> \in R
  <2>1. q[i] \in S /\ q[j] \in S /\ rank(q[i]) = i - 1 /\ rank(q[j]) = j - 1
    BY <1>7
  <2>2. q[i] # q[j]
    BY <1>1, <1>10, <2>1
  <2>3. ~(<<q[j], q[i]>> \in R)
    <3> SUFFICES ASSUME <<q[j], q[i]>> \in R
                 PROVE  FALSE
      OBVIOUS
    <3>1. rank(q[j]) < rank(q[i])
      BY <1>3, <2>1
    <3>2. j - 1 < i - 1
      BY <2>1, <3>1
    <3> QED
      BY <1>1, <1>10, <3>2
  <2> QED
    BY <2>1, <2>2, <2>3 DEF Orders
<1> QED
  BY <1>1, <1>8, <1>9, <1>10 DEF q, Sorts

LEMMA CutKeepsFirst ==
  ASSUME NEW S, NEW R, Orders(R, S), NEW q, Sorts(q, S, R), NEW k \in Nat
  PROVE  KeepsFirst(Cut(q, k), Len(q) > k, S, R)
<1>0. /\ q \in Seq(S)
      /\ \A x \in S : \E i \in 1..Len(q) : q[i] = x
      /\ \A i, j \in 1..Len(q) : i < j => <<q[i], q[j]>> \in R
  BY DEF Sorts
<1> DEFINE n == Len(q)
           m == IF n < k THEN n ELSE k
           c == Cut(q, k)
<1>1. n \in Nat /\ m \in Nat /\ m <= n /\ (m < n <=> n > k) /\ (n > k => m = k)
  BY <1>0
<1>2. c = SubSeq(q, 1, m)
  BY DEF Cut
<1>3. c \in Seq(S) /\ Len(c) = m /\ \A i \in 1..m : c[i] = q[i] /\ i \in 1..n
  <2> HIDE DEF m, c
  <2> QED
    BY <1>0, <1>1, <1>2
<1> HIDE DEF m, c
<1>4. ASSUME NEW i \in 1..n, NEW j \in 1..n, i # j
      PROVE  q[i] # q[j]
  <2>1. q[i] \in S /\ q[j] \in S
    BY <1>0, ElementOfSeq
  <2>2. i < j \/ j < i
    BY <1>1, <1>4
  <2>3. <<q[i], q[j]>> \in R \/ <<q[j], q[i]>> \in R
    BY <1>0, <2>2
  <2> QED
    BY <2>1, <2>3 DEF Orders
<1>5. \A i, j \in 1..m : i # j => c[i] # c[j]
  BY <1>3, <1>4
<1>6. ASSUME NEW x \in S, \A i \in 1..m : c[i] # x
      PROVE  /\ m < n
             /\ \A i \in 1..m : <<c[i], x>> \in R
  <2>1. PICK j \in 1..n : q[j] = x
    BY <1>0
  <2>2. j \notin 1..m
    BY <1>3, <1>6, <2>1
  <2>3. m < j
    BY <1>1, <2>2
  <2>4. ASSUME NEW i \in 1..m
        PROVE  <<c[i], x>> \in R
    <3>1. i \in 1..n /\ i < j /\ c[i] = q[i]
      BY <1>1, <1>3, <2>3
    <3> QED
      BY <1>0, <2>1, <3>1
  <2>5. m < n
    BY <1>1, <2>3
  <2> QED
    BY <2>4, <2>5
<1>7. ASSUME m < n
      PROVE  \E x \in S : \A i \in 1..m : c[i] # x
  <2>1. m + 1 \in 1..n /\ m + 1 \notin 1..m
    BY <1>1, <1>7
  <2>2. q[m + 1] \in S
    BY <1>0, <2>1, ElementOfSeq
  <2>3. \A i \in 1..m : c[i] # q[m + 1]
    BY <1>3, <1>4, <2>1
  <2> QED
    BY <2>2, <2>3
<1> QED
  BY <1>1, <1>3, <1>5, <1>6, <1>7 DEF c, KeepsFirst

-----------------------------------------------------------------------------
(* The table of hotspots. *)

LEMMA RecordingFinite ==
  ASSUME NEW r \in Recordings
  PROVE  r \in SUBSET Groups /\ IsFiniteSet(r)
<1>0. PICK groups \in UNION {[1..n -> Groups] : n \in 0..MaxGroups} : r = ToSet(groups)
  BY DEF Recordings
<1>1. PICK n \in 0..MaxGroups : groups \in [1..n -> Groups]
  OBVIOUS
<1>2. n \in Nat /\ r = {groups[i] : i \in 1..n}
  BY <1>0, <1>1, HotspotLimits DEF ToSet, HotspotLimits
<1>3. r \in SUBSET Groups
  BY <1>1, <1>2
<1>4. groups \in [1..n -> r]
  BY <1>1, <1>2
<1>5. groups \in Surjection(1..n, r)
  BY <1>2, <1>4, Fun_IsSurj
<1>6. IsFiniteSet(1..n)
  <2>1. 1 \in Int /\ n \in Int
    BY <1>2
  <2> QED
    BY <2>1, FS_Interval
<1> QED
  BY <1>3, <1>5, <1>6, FS_Surjection

Keys == Nat \X Nat

LEMMA KeysAreKeys ==
  ASSUME NEW g \in Groups
  PROVE  /\ LeafOf(g) \in Symbols /\ Key(g) \in Keys
         /\ Key(g)[1] = LeafOf(g) /\ Key(g)[2] \in 0..3
         /\ Said[g.place] = Key(g)[2]
<1>1. PICK n \in 1..MaxDepth : g.stack \in [1..n -> Symbols]
  BY DEF Groups, Stacks
<1>2. MaxDepth \in Nat
  BY HotspotLimits DEF HotspotLimits
<1>3. n \in 1..n /\ n \in Nat
  BY <1>1, <1>2
<1>4. Len(g.stack) = n
  BY <1>1, <1>3
<1>5. LeafOf(g) \in Symbols
  BY <1>1, <1>3, <1>4 DEF LeafOf
<1>6. Normalized(g.place) \in 0..3 /\ Said[g.place] = Normalized(g.place)
  BY DEF Normalized, Said, Groups, Places
<1>7. Key(g) = <<LeafOf(g), Normalized(g.place)>>
  BY DEF Key
<1>8. LeafOf(g) \in Nat
  BY <1>5, SymbolsAssumption DEF SymbolsAssumption
<1>9. Key(g) \in Keys /\ Key(g)[1] = LeafOf(g) /\ Key(g)[2] = Normalized(g.place)
  <2> DEFINE a == LeafOf(g)
             b == Normalized(g.place)
  <2>1. a \in Nat /\ b \in Nat /\ Key(g) = <<a, b>>
    BY <1>6, <1>7, <1>8
  <2> HIDE DEF a, b
  <2>2. Key(g) \in Keys /\ Key(g)[1] = a /\ Key(g)[2] = b
    BY <2>1 DEF Keys
  <2> QED
    BY <2>2 DEF a, b
<1> QED
  BY <1>5, <1>6, <1>9

LEMMA KeyBeforeOrders ==
  /\ \A k \in Keys : ~KeyBefore(k, k)
  /\ \A k, l, m \in Keys : KeyBefore(k, l) /\ KeyBefore(l, m) => KeyBefore(k, m)
  /\ \A k, l \in Keys : k # l => KeyBefore(k, l) \/ KeyBefore(l, k)
<1>1. \A k \in Keys : k[1] \in Nat /\ k[2] \in Nat
  BY DEF Keys
<1>2. \A k, l \in Keys : k[1] = l[1] /\ k[2] = l[2] => k = l
  BY DEF Keys
<1>3. \A k \in Keys : ~KeyBefore(k, k)
  BY <1>1 DEF KeyBefore
<1>4. ASSUME NEW k \in Keys, NEW l \in Keys, NEW m \in Keys, KeyBefore(k, l), KeyBefore(l, m)
      PROVE  KeyBefore(k, m)
  <2>1. k[1] \in Nat /\ k[2] \in Nat /\ l[1] \in Nat /\ l[2] \in Nat /\ m[1] \in Nat /\ m[2] \in Nat
    BY <1>1
  <2> QED
    BY <1>4, <2>1 DEF KeyBefore
<1>5. ASSUME NEW k \in Keys, NEW l \in Keys, k # l
      PROVE  KeyBefore(k, l) \/ KeyBefore(l, k)
  <2>1. k[1] \in Nat /\ k[2] \in Nat /\ l[1] \in Nat /\ l[2] \in Nat /\ (k[1] # l[1] \/ k[2] # l[2])
    BY <1>1, <1>2, <1>5
  <2> QED
    BY <2>1 DEF KeyBefore
<1> QED
  BY <1>3, <1>4, <1>5

Row(r, k) ==
  [key |-> k, weight |-> WeightOf(RowsOf(r, k)), samples |-> SamplesOf(RowsOf(r, k))]
Rows(r) == {Row(r, k) : k \in {Key(g) : g \in r}}
RowOrder(r) == {p \in Rows(r) \X Rows(r) : HeavierHotspot(p[1], p[2])}

LEMMA RowsAreRows ==
  ASSUME NEW r \in SUBSET Groups, IsFiniteSet(r)
  PROVE  /\ IsFiniteSet(Rows(r))
         /\ \A x \in Rows(r) : /\ x.key \in Keys /\ x.weight \in Nat /\ x.samples \in Nat
                               /\ x = Row(r, x.key) /\ \E g \in r : x.key = Key(g)
         /\ \A g \in r : Row(r, Key(g)) \in Rows(r)
<1>1. \A g \in r : Key(g) \in Keys
  BY KeysAreKeys
<1>2. \A k : WeightOf(RowsOf(r, k)) \in Nat /\ SamplesOf(RowsOf(r, k)) \in Nat
  <2> SUFFICES ASSUME NEW k
               PROVE  WeightOf(RowsOf(r, k)) \in Nat /\ SamplesOf(RowsOf(r, k)) \in Nat
    OBVIOUS
  <2>1. RowsOf(r, k) \in SUBSET r
    BY DEF RowsOf
  <2>2. RowsOf(r, k) \in SUBSET Groups /\ IsFiniteSet(RowsOf(r, k))
    BY <2>1, FS_Subset
  <2> QED
    BY <2>2, SumsOfGroups
<1>3. IsFiniteSet(Rows(r))
  <2> DEFINE f == [g \in r |-> Row(r, Key(g))]
  <2>1. f \in [r -> Rows(r)] /\ \A x \in Rows(r) : \E g \in r : f[g] = x
    BY DEF Rows
  <2>2. f \in Surjection(r, Rows(r))
    BY <2>1, Fun_IsSurj
  <2> QED
    BY <2>2, FS_Surjection
<1>4. ASSUME NEW x \in Rows(r)
      PROVE  /\ x.key \in Keys /\ x.weight \in Nat /\ x.samples \in Nat
             /\ x = Row(r, x.key) /\ \E g \in r : x.key = Key(g)
  <2>1. PICK g \in r : x = Row(r, Key(g))
    BY DEF Rows
  <2>2. x.key = Key(g) /\ x.weight = WeightOf(RowsOf(r, Key(g))) /\ x.samples = SamplesOf(RowsOf(r, Key(g)))
    BY <2>1 DEF Row
  <2> QED
    BY <1>1, <1>2, <2>1, <2>2
<1>5. \A g \in r : Row(r, Key(g)) \in Rows(r)
  BY DEF Rows
<1> QED
  BY <1>3, <1>4, <1>5

LEMMA HotspotsAreOrdered ==
  ASSUME NEW r \in SUBSET Groups, IsFiniteSet(r)
  PROVE  Orders(RowOrder(r), Rows(r)) /\ HotspotTable(r) = InOrder(Rows(r), RowOrder(r))
<1> DEFINE S == Rows(r)
           R == RowOrder(r)
<1>1. \A x \in S : x.key \in Keys /\ x.weight \in Nat
  BY RowsAreRows
<1>2. \A x, y \in S : x.key = y.key => x = y
  <2>1. \A x \in S : x = Row(r, x.key)
    BY RowsAreRows
  <2> QED
    BY <2>1
<1>3. \A x, y \in S : <<x, y>> \in R <=> HeavierHotspot(x, y)
  BY DEF RowOrder
<1>4. HotspotTable(r) = InOrder(S, R)
  BY DEF HotspotTable, RowOrder, Rows, Row
<1> HIDE DEF S, R
<1>6. Orders(R, S)
  <2>1. \A x \in S : ~HeavierHotspot(x, x)
    BY <1>1, KeyBeforeOrders DEF HeavierHotspot
  <2>2. ASSUME NEW x \in S, NEW y \in S, NEW z \in S, HeavierHotspot(x, y), HeavierHotspot(y, z)
        PROVE  HeavierHotspot(x, z)
    <3>1. /\ x.weight \in Nat /\ y.weight \in Nat /\ z.weight \in Nat
          /\ KeyBefore(x.key, y.key) /\ KeyBefore(y.key, z.key) => KeyBefore(x.key, z.key)
      BY <1>1, KeyBeforeOrders
    <3> QED
      BY <2>2, <3>1 DEF HeavierHotspot
  <2>3. ASSUME NEW x \in S, NEW y \in S, x # y
        PROVE  HeavierHotspot(x, y) \/ HeavierHotspot(y, x)
    <3>1. /\ x.weight \in Nat /\ y.weight \in Nat
          /\ KeyBefore(x.key, y.key) \/ KeyBefore(y.key, x.key)
      BY <1>1, <1>2, <2>3, KeyBeforeOrders
    <3> QED
      BY <3>1 DEF HeavierHotspot
  <2> QED
    BY <1>3, <2>1, <2>2, <2>3 DEF Orders
<1> QED
  BY <1>4, <1>6 DEF R, S

\* The number of places of a sequence without repetition.
LEMMA NoRepetition ==
  ASSUME NEW n \in Nat, NEW s, DOMAIN s = 1..n, Len(s) = n,
         \A i, j \in 1..n : i # j => s[i] # s[j]
  PROVE  Cardinality(ToSet(s)) = Len(s)
<1> DEFINE f == [i \in 1..n |-> s[i]]
<1>1. ToSet(s) = {s[i] : i \in 1..n}
  BY DEF ToSet
<1>2. f \in [1..n -> ToSet(s)]
  BY <1>1
<1>3. \A a, b \in 1..n : f[a] = f[b] => a = b
  OBVIOUS
<1>4. \A t \in ToSet(s) : \E a \in 1..n : f[a] = t
  BY <1>1
<1> HIDE DEF f
<1>5. f \in Injection(1..n, ToSet(s)) /\ f \in Surjection(1..n, ToSet(s))
  BY <1>2, <1>3, <1>4, Fun_IsInj, Fun_IsSurj
<1>6. IsFiniteSet(1..n) /\ Cardinality(1..n) = n
  <2>1. 1 \in Int /\ n \in Int
    OBVIOUS
  <2>2. IsFiniteSet(1..n) /\ Cardinality(1..n) = IF 1 > n THEN 0 ELSE n - 1 + 1
    BY <2>1, FS_Interval
  <2> QED
    BY <2>2
<1> QED
  BY <1>5, <1>6, FS_Surjection

\* The groups under a hotspot, and where it is in the table.
LEMMA KeptHotspots ==
  ASSUME NEW r \in SUBSET Groups, IsFiniteSet(r),
         NEW d, d = HotspotsOf(r), NEW row, row = Cut(HotspotTable(r), MaxHotspots)
  PROVE  /\ row \in Seq(Rows(r)) /\ DOMAIN d.hotspots = 1..Len(row)
         /\ Len(d.hotspots) = Len(row) /\ Len(row) \in Nat
         /\ \A i \in 1..Len(row) : d.hotspots[i] = Attached(row[i], r) /\ row[i] \in Rows(r)
         /\ \A i, j \in 1..Len(row) : i # j => row[i] # row[j]
         /\ d.truncated <=> \E x \in Rows(r) : \A i \in 1..Len(row) : row[i] # x
         /\ \A x \in Rows(r) : (\A i \in 1..Len(row) : row[i] # x) =>
              \A i \in 1..Len(row) : x.weight <= row[i].weight
<1> DEFINE q == HotspotTable(r)
           S == Rows(r)
           R == RowOrder(r)
<1>1. IsFiniteSet(S) /\ Orders(R, S) /\ q = InOrder(S, R)
  BY RowsAreRows, HotspotsAreOrdered
<1>2. MaxHotspots \in Nat
  BY HotspotLimits DEF HotspotLimits
<1>3. d.hotspots = [i \in 1..Len(row) |-> Attached(row[i], r)] /\ d.truncated = (Len(q) > MaxHotspots)
  BY DEF HotspotsOf
<1>4. \A x, y \in S : <<x, y>> \in R => y.weight <= x.weight
  <2>1. \A x \in S : x.weight \in Nat
    BY RowsAreRows
  <2>2. \A x, y \in S : <<x, y>> \in R => HeavierHotspot(x, y)
    BY DEF RowOrder
  <2> HIDE DEF S, R
  <2> QED
    BY <2>1, <2>2 DEF HeavierHotspot
<1>5. row = Cut(q, MaxHotspots)
  OBVIOUS
<1> HIDE DEF S, R, q
<1>6. KeepsFirst(row, Len(q) > MaxHotspots, S, R)
  <2>1. Sorts(q, S, R)
    BY <1>1, RankedInOrder
  <2>2. KeepsFirst(Cut(q, MaxHotspots), Len(q) > MaxHotspots, S, R)
    BY <1>1, <1>2, <2>1, CutKeepsFirst
  <2> QED
    BY <1>5, <2>2
<1>7. /\ row \in Seq(S)
      /\ \A i, j \in 1..Len(row) : i # j => row[i] # row[j]
      /\ d.truncated <=> \E x \in S : \A i \in 1..Len(row) : row[i] # x
      /\ \A x \in S : (\A i \in 1..Len(row) : row[i] # x) =>
           \A i \in 1..Len(row) : <<row[i], x>> \in R
  BY <1>3, <1>6, Zenon DEF KeepsFirst
<1>8. Len(row) \in Nat /\ \A i \in 1..Len(row) : row[i] \in S
  BY <1>7, ElementOfSeq
<1>9. DOMAIN d.hotspots = 1..Len(row) /\ Len(d.hotspots) = Len(row)
  BY <1>3, <1>8
<1>10. \A i \in 1..Len(row) : d.hotspots[i] = Attached(row[i], r)
  BY <1>3
<1>11. \A x \in S : (\A i \in 1..Len(row) : row[i] # x) =>
         \A i \in 1..Len(row) : x.weight <= row[i].weight
  BY <1>4, <1>7, <1>8
<1> QED
  BY <1>7, <1>8, <1>9, <1>10, <1>11 DEF S

\* What a group's hotspot holds.
LEMMA GroupsOfHotspot ==
  ASSUME NEW r \in SUBSET Groups, NEW g \in r, NEW h, h.key = Key(g)
  PROVE  At(r, h) = RowsOf(r, Key(g))
<1>1. \A x \in r : x \in Groups
  OBVIOUS
<1>2. /\ Key(g)[1] = LeafOf(g) /\ Key(g)[2] \in 0..3 /\ Said[g.place] = Key(g)[2]
      /\ Key(g) = <<LeafOf(g), Normalized(g.place)>>
  BY KeysAreKeys DEF Key
<1>3. \A x \in r : Key(x) = Key(g) <=>
                     LeafOf(x) = Key(g)[1] /\ Said[x.place] = Key(g)[2]
  <2> SUFFICES ASSUME NEW x \in r
               PROVE  Key(x) = Key(g) <=>
                        LeafOf(x) = Key(g)[1] /\ Said[x.place] = Key(g)[2]
    OBVIOUS
  <2>1. /\ Key(x)[1] = LeafOf(x) /\ Key(x)[2] \in 0..3 /\ Said[x.place] = Key(x)[2]
        /\ Key(x) = <<LeafOf(x), Normalized(x.place)>>
    BY KeysAreKeys DEF Key
  <2>2. Key(x) = Key(g) <=> Key(x)[1] = Key(g)[1] /\ Key(x)[2] = Key(g)[2]
    BY <1>2, <2>1
  <2> QED
    BY <1>2, <2>1, <2>2
<1> QED
  BY <1>3 DEF At, RowsOf

LEMMA HotspotsAccount ==
  ASSUME NEW r \in SUBSET Groups, IsFiniteSet(r)
  PROVE  TableAccountsFor(HotspotsOf(r), r)
<1> DEFINE d == HotspotsOf(r)
           row == Cut(HotspotTable(r), MaxHotspots)
           n == Len(row)
           kept == ToSet(d.hotspots)
           lost == {g \in r : \A h \in kept : g \notin At(r, h)}
           at(h) == At(r, h)
<1>1. /\ row \in Seq(Rows(r)) /\ DOMAIN d.hotspots = 1..n /\ Len(d.hotspots) = n /\ n \in Nat
      /\ \A i \in 1..n : d.hotspots[i] = Attached(row[i], r) /\ row[i] \in Rows(r)
      /\ \A i, j \in 1..n : i # j => row[i] # row[j]
      /\ d.truncated <=> \E x \in Rows(r) : \A i \in 1..n : row[i] # x
      /\ \A x \in Rows(r) : (\A i \in 1..n : row[i] # x) =>
           \A i \in 1..n : x.weight <= row[i].weight
  BY KeptHotspots
<1>2. d.samples = SamplesOf(r) /\ d.weight = WeightOf(r)
  BY DEF HotspotsOf
<1> HIDE DEF d, row, n
<1>3. \A x \in Rows(r) : x = Row(r, x.key) /\ \E g \in r : x.key = Key(g)
  BY RowsAreRows
<1>4. \A x : /\ Attached(x, r).key = x.key /\ Attached(x, r).weight = x.weight
             /\ Attached(x, r).samples = x.samples
  BY DEF Attached
<1>5. kept = {d.hotspots[i] : i \in 1..n}
  BY <1>1 DEF ToSet
<1>6. \A i \in 1..n : /\ d.hotspots[i].key = row[i].key /\ d.hotspots[i].weight = row[i].weight
                      /\ d.hotspots[i].samples = row[i].samples
  BY <1>1, <1>4
<1>7. \A i, j \in 1..n : row[i].key = row[j].key => i = j
  <2>1. \A i \in 1..n : row[i] = Row(r, row[i].key)
    BY <1>1, <1>3
  <2> QED
    BY <1>1, <2>1
<1>8. \A i \in 1..n : \E g \in r : row[i].key = Key(g)
  BY <1>1, <1>3
<1>9. \A h \in kept : \A g \in r : h.key = Key(g) => at(h) = RowsOf(r, Key(g))
  BY GroupsOfHotspot
<1>10. \A h \in kept : \E i \in 1..n : h = d.hotspots[i] /\ h.key = row[i].key
  BY <1>5, <1>6
<1>11. \A h \in kept : at(h) = RowsOf(r, h.key)
  BY <1>8, <1>9, <1>10
<1> HIDE DEF kept, at
<1>12. Cardinality(kept) = Len(d.hotspots)
  <2>1. \A i, j \in 1..n : i # j => d.hotspots[i] # d.hotspots[j]
    BY <1>6, <1>7
  <2> QED
    BY <1>1, <2>1, NoRepetition DEF kept
<1>13. \A h, i \in kept : h # i => at(h) \cap at(i) = {}
  <2> SUFFICES ASSUME NEW h \in kept, NEW i \in kept, h # i
               PROVE  at(h) \cap at(i) = {}
    OBVIOUS
  <2>1. h.key # i.key
    BY <1>7, <1>10
  <2> QED
    BY <1>11, <2>1 DEF RowsOf
<1>14. \A h \in kept : h.weight = WeightOf(at(h)) /\ h.samples = SamplesOf(at(h))
  <2> SUFFICES ASSUME NEW h \in kept
               PROVE  h.weight = WeightOf(at(h)) /\ h.samples = SamplesOf(at(h))
    OBVIOUS
  <2>1. PICK i \in 1..n : h = d.hotspots[i] /\ h.key = row[i].key
    BY <1>10
  <2>2. row[i] = Row(r, h.key)
    BY <1>1, <1>3, <2>1
  <2>3. row[i].weight = WeightOf(RowsOf(r, h.key)) /\ row[i].samples = SamplesOf(RowsOf(r, h.key))
    BY <2>2 DEF Row
  <2> QED
    BY <1>6, <1>11, <2>1, <2>3
\* A group is lost exactly if its row was cut.
<1>15. \A g \in r : g \in lost <=> \A i \in 1..n : row[i] # Row(r, Key(g))
  <2> SUFFICES ASSUME NEW g \in r
               PROVE  g \in lost <=> \A i \in 1..n : row[i] # Row(r, Key(g))
    OBVIOUS
  <2>1. ASSUME NEW i \in 1..n, row[i] = Row(r, Key(g))
        PROVE  g \notin lost
    <3>1. d.hotspots[i] \in kept /\ d.hotspots[i].key = Key(g)
      BY <1>5, <1>6, <2>1 DEF Row
    <3>2. g \in at(d.hotspots[i])
      BY <1>11, <3>1 DEF RowsOf
    <3> QED
      BY <3>1, <3>2 DEF at
  <2>2. ASSUME NEW h \in kept, g \in at(h)
        PROVE  \E i \in 1..n : row[i] = Row(r, Key(g))
    <3>1. PICK i \in 1..n : h.key = row[i].key
      BY <1>10
    <3>2. Key(g) = h.key
      BY <1>11, <2>2 DEF RowsOf
    <3> QED
      BY <1>1, <1>3, <3>1, <3>2
  <2> QED
    BY <2>1, <2>2 DEF at
<1>16. d.truncated <=> lost # {}
  <2>1. \A x \in Rows(r) : \E g \in r : x = Row(r, Key(g))
    BY <1>3
  <2>2. \A g \in r : Row(r, Key(g)) \in Rows(r)
    BY RowsAreRows
  <2> HIDE DEF lost
  <2>3. lost \subseteq r
    BY DEF lost
  <2> QED
    BY <1>1, <1>15, <2>1, <2>2, <2>3
<1>17. ASSUME NEW g \in lost, NEW h \in kept
       PROVE  WeightOf({x \in lost : LeafOf(x) = LeafOf(g)
                                     /\ Said[x.place] = Said[g.place]}) <= h.weight
  <2> DEFINE like == {x \in lost : LeafOf(x) = LeafOf(g)
                                   /\ Said[x.place] = Said[g.place]}
  <2>0. g \in r /\ lost \subseteq r
    OBVIOUS
  <2>1. like = RowsOf(r, Key(g))
    <3> HIDE DEF lost
    <3>1. \A x \in r : Key(x) = Key(g) <=>
                         LeafOf(x) = LeafOf(g) /\ Said[x.place] = Said[g.place]
      <4> SUFFICES ASSUME NEW x \in r
                   PROVE  Key(x) = Key(g) <=>
                            LeafOf(x) = LeafOf(g) /\ Said[x.place] = Said[g.place]
        OBVIOUS
      <4>1. /\ Key(x)[1] = LeafOf(x) /\ Key(x)[2] \in 0..3 /\ Said[x.place] = Key(x)[2]
            /\ Key(g)[1] = LeafOf(g) /\ Key(g)[2] \in 0..3 /\ Said[g.place] = Key(g)[2]
        BY <2>0, KeysAreKeys
      <4>2. Key(x) = <<LeafOf(x), Normalized(x.place)>> /\ Key(g) = <<LeafOf(g), Normalized(g.place)>>
        BY DEF Key
      <4> QED
        BY <4>1, <4>2
    <3>2. \A x \in r : Key(x) = Key(g) => x \in lost
      BY <1>15, <2>0
    <3> QED
      BY <2>0, <3>1, <3>2 DEF RowsOf
  <2>2. \A i \in 1..n : row[i] # Row(r, Key(g))
    BY <1>15, <2>0
  <2>3. Row(r, Key(g)) \in Rows(r)
    BY <2>0, RowsAreRows
  <2>4. PICK i \in 1..n : h = d.hotspots[i]
    BY <1>10
  <2>5. Row(r, Key(g)).weight <= row[i].weight
    BY <1>1, <2>2, <2>3
  <2>6. Row(r, Key(g)).weight = WeightOf(RowsOf(r, Key(g)))
    BY DEF Row
  <2> QED
    BY <1>6, <2>1, <2>4, <2>5, <2>6
<1> HIDE DEF lost
<1> QED
  BY <1>2, <1>12, <1>13, <1>14, <1>16, <1>17 DEF TableAccountsFor, d, kept, lost, at

-----------------------------------------------------------------------------
(* The frames of a stack. *)

Flattens(f, seqs) == f = [i \in 1..Len(seqs) |-> IF i = 1 THEN seqs[i] ELSE f[i - 1] \o seqs[i]]

FlattensUpTo(f, seqs, S, k) ==
  /\ f \in [1..k -> Seq(S)]
  /\ \A i \in 1..k : f[i] = IF i = 1 THEN seqs[i] ELSE f[i - 1] \o seqs[i]

LEMMA FlatteningExists ==
  ASSUME NEW S, NEW seqs \in Seq(Seq(S)), NEW k \in 0..Len(seqs)
  PROVE  \E f : FlattensUpTo(f, seqs, S, k)
<1> DEFINE T == {m \in 0..Len(seqs) : ~(\E f : FlattensUpTo(f, seqs, S, m))}
<1> SUFFICES ASSUME T # {}
             PROVE  FALSE
  OBVIOUS
<1>1. T \subseteq Nat /\ Len(seqs) \in Nat
  OBVIOUS
<1> HIDE DEF T
<1>2. PICK n \in T : \A m \in T : ~(m < n)
  BY <1>1, LeastNatural
<1>3. n \in 0..Len(seqs) /\ ~(\E f : FlattensUpTo(f, seqs, S, n))
  BY <1>2 DEF T
<1>4. CASE n = 0
  <2> DEFINE f == [i \in 1..0 |-> <<>>]
  <2>1. FlattensUpTo(f, seqs, S, 0)
    BY DEF FlattensUpTo
  <2> QED
    BY <1>3, <1>4, <2>1
<1>5. CASE n # 0
  <2> DEFINE m == n - 1
  <2>1. m \in 0..Len(seqs) /\ m < n /\ m + 1 = n /\ n \in 1..Len(seqs)
    BY <1>1, <1>3, <1>5
  <2> HIDE DEF m
  <2>2. m \notin T
    BY <1>2, <2>1
  <2>3. PICK f : FlattensUpTo(f, seqs, S, m)
    BY <2>1, <2>2 DEF T
  <2>4. /\ f \in [1..m -> Seq(S)]
        /\ \A i \in 1..m : f[i] = IF i = 1 THEN seqs[i] ELSE f[i - 1] \o seqs[i]
    BY <2>3 DEF FlattensUpTo
  <2> DEFINE last == IF n = 1 THEN seqs[n] ELSE f[m] \o seqs[n]
             g == [i \in 1..n |-> IF i = n THEN last ELSE f[i]]
  <2>5. last \in Seq(S)
    <3>1. seqs[n] \in Seq(S)
      BY <2>1, ElementOfSeq
    <3>2. CASE n = 1
      BY <3>1, <3>2
    <3>3. CASE n # 1
      <4>1. m \in 1..m
        BY <1>1, <2>1, <3>3
      <4>2. f[m] \in Seq(S)
        BY <2>4, <4>1
      <4> QED
        BY <3>1, <3>3, <4>2
    <3> QED
      BY <3>2, <3>3
  <2> HIDE DEF last
  <2>6. g \in [1..n -> Seq(S)] /\ g[n] = last /\ \A i \in 1..m : g[i] = f[i]
    BY <1>1, <2>1, <2>4, <2>5
  <2> HIDE DEF g
  <2>7. ASSUME NEW i \in 1..n
        PROVE  g[i] = IF i = 1 THEN seqs[i] ELSE g[i - 1] \o seqs[i]
    <3>1. CASE i = n
      <4>1. CASE n = 1
        BY <2>6, <3>1, <4>1 DEF last
      <4>2. CASE n # 1
        <5>1. i - 1 = m /\ m \in 1..m /\ g[m] = f[m]
          BY <1>1, <2>1, <2>6, <3>1, <4>2
        <5> QED
          BY <2>6, <3>1, <4>2, <5>1 DEF last
      <4> QED
        BY <4>1, <4>2
    <3>2. CASE i # n
      <4>1. i \in 1..m /\ (i # 1 => i - 1 \in 1..m)
        BY <1>1, <2>1, <3>2
      <4> QED
        BY <2>4, <2>6, <4>1
    <3> QED
      BY <3>1, <3>2
  <2>8. FlattensUpTo(g, seqs, S, n)
    BY <2>6, <2>7 DEF FlattensUpTo
  <2> QED
    BY <1>3, <2>8
<1> QED
  BY <1>4, <1>5

\* What FlattenSeq computes, place by place.
LEMMA Flattening ==
  ASSUME NEW S, NEW seqs \in Seq(Seq(S)), seqs # <<>>
  PROVE  \E f : FlattensUpTo(f, seqs, S, Len(seqs)) /\ FlattenSeq(seqs) = f[Len(seqs)]
<1> DEFINE n == Len(seqs)
           v == CHOOSE f : Flattens(f, seqs)
<1>1. n \in Nat /\ n # 0 /\ n \in 0..n
  OBVIOUS
<1>2. FlattenSeq(seqs) = v[n]
  BY <1>1 DEF FlattenSeq, Flattens
<1>3. PICK f : FlattensUpTo(f, seqs, S, n)
  BY <1>1, FlatteningExists
<1>4. Flattens(f, seqs)
  BY <1>3 DEF FlattensUpTo, Flattens
<1>5. Flattens(v, seqs)
  BY <1>4, Zenon
<1> HIDE DEF v
<1>6. /\ DOMAIN v = 1..n /\ v = [i \in 1..n |-> v[i]]
      /\ \A i \in 1..n : v[i] = IF i = 1 THEN seqs[i] ELSE v[i - 1] \o seqs[i]
  BY <1>5 DEF Flattens
<1> HIDE DEF n
<1> DEFINE T == {i \in 1..n : v[i] \notin Seq(S)}
<1>7. T = {}
  <2> SUFFICES ASSUME T # {}
               PROVE  FALSE
    OBVIOUS
  <2>1. T \subseteq Nat
    OBVIOUS
  <2> HIDE DEF T
  <2>2. PICK i \in T : \A j \in T : ~(j < i)
    BY <2>1, LeastNatural
  <2>3. i \in 1..n /\ v[i] \notin Seq(S)
    BY <2>2 DEF T
  <2>4. seqs[i] \in Seq(S)
    BY <2>3, ElementOfSeq DEF n
  <2>5. i # 1
    BY <1>6, <2>3, <2>4
  <2> DEFINE j == i - 1
  <2>6. j \in 1..n /\ j < i
    BY <1>1, <2>3, <2>5
  <2>7. v[i] = v[j] \o seqs[i]
    BY <1>6, <2>3, <2>5
  <2> HIDE DEF j
  <2>8. v[j] \in Seq(S)
    BY <2>2, <2>6 DEF T
  <2> QED
    BY <2>3, <2>4, <2>7, <2>8
<1>8. v \in [1..n -> Seq(S)]
  BY <1>6, <1>7
<1> HIDE DEF T
<1>9. FlattensUpTo(v, seqs, S, n)
  BY <1>6, <1>8 DEF FlattensUpTo
<1> QED
  BY <1>2, <1>9 DEF n

LEMMA PieceShape ==
  ASSUME NEW s \in Symbols
  PROVE  /\ Pieces(s) \in Seq(Keys) /\ Len(Pieces(s)) \in Nat /\ Len(Pieces(s)) >= 1
         /\ Pieces(s)[Len(Pieces(s))][1] = s
         /\ s \notin Separated => Len(Pieces(s)) = 1 /\ Pieces(s)[1] = <<s, 0>>
<1>1. s \in Nat
  BY SymbolsAssumption DEF SymbolsAssumption
<1>2. <<s, 0>> \in Keys /\ <<s, 1>> \in Keys /\ <<s, 2>> \in Keys
  BY <1>1 DEF Keys
<1>3. CASE s \in Separated
  <2>1. Pieces(s) = <<<<s, 1>>, <<s, 2>>>>
    BY <1>3 DEF Pieces
  <2> QED
    BY <1>2, <1>3, <2>1
<1>4. CASE s \notin Separated
  <2>1. Pieces(s) = <<<<s, 0>>>>
    BY <1>4 DEF Pieces
  <2> QED
    BY <1>2, <1>4, <2>1
<1> QED
  BY <1>3, <1>4

\* The end of a sequence with another behind it, and that the other can be taken off.
LEMMA LastOfBoth ==
  ASSUME NEW S, NEW a \in Seq(S), NEW b \in Seq(S), Len(b) # 0
  PROVE  /\ a \o b \in Seq(S) /\ Len(a \o b) = Len(a) + Len(b)
         /\ (a \o b)[Len(a \o b)] = b[Len(b)]
  OBVIOUS

LEMMA EndsCancel ==
  ASSUME NEW S, NEW a \in Seq(S), NEW b \in Seq(S), NEW c \in Seq(S), a \o c = b \o c
  PROVE  a = b
<1>1. Len(a) \in Nat /\ Len(b) \in Nat /\ Len(c) \in Nat
  OBVIOUS
<1>2. Len(a \o c) = Len(a) + Len(c) /\ Len(b \o c) = Len(b) + Len(c)
  OBVIOUS
<1>3. Len(a) = Len(b)
  BY <1>1, <1>2
<1>4. ASSUME NEW i \in 1..Len(a)
      PROVE  a[i] = b[i]
  <2>1. (a \o c)[i] = a[i]
    OBVIOUS
  <2>2. (b \o c)[i] = b[i]
    BY <1>3
  <2> QED
    BY <2>1, <2>2
<1>5. a = [i \in 1..Len(a) |-> a[i]] /\ b = [i \in 1..Len(b) |-> b[i]]
  OBVIOUS
<1> QED
  BY <1>3, <1>4, <1>5

PiecesOf(stack) == [i \in 1..Len(stack) |-> Pieces(stack[i])]

LEMMA StackShape ==
  ASSUME NEW g \in Groups
  PROVE  g.stack \in Seq(Symbols) /\ Len(g.stack) \in Nat \ {0}
<1>1. PICK n \in 1..MaxDepth : g.stack \in [1..n -> Symbols]
  BY DEF Groups, Stacks
<1>2. n \in Nat \ {0}
  BY <1>1, HotspotLimits DEF HotspotLimits
<1> QED
  BY <1>1, <1>2

\* The frames of the first k of a stack.
Framed(f, stack) ==
  /\ f \in [1..Len(stack) -> Seq(Keys)]
  /\ \A i \in 1..Len(stack) :
       f[i] = IF i = 1 THEN Pieces(stack[i]) ELSE f[i - 1] \o Pieces(stack[i])

LEMMA FramesOfStack ==
  ASSUME NEW g \in Groups
  PROVE  \E f : Framed(f, g.stack) /\ Frames(g) = f[Len(g.stack)]
<1> DEFINE stack == g.stack
           n == Len(stack)
           seqs == PiecesOf(stack)
<1>1. stack \in Seq(Symbols) /\ n \in Nat \ {0}
  BY StackShape
<1>2. \A i \in 1..n : stack[i] \in Symbols
  BY <1>1, ElementOfSeq
<1>3. \A i \in 1..n : Pieces(stack[i]) \in Seq(Keys)
  BY <1>2, PieceShape
<1>4. Frames(g) = FlattenSeq(seqs)
  BY DEF Frames, PiecesOf
<1>5. seqs = [i \in 1..n |-> Pieces(stack[i])]
  BY DEF PiecesOf
<1> HIDE DEF seqs, stack, n
<1>6. seqs \in [1..n -> Seq(Keys)]
  BY <1>3, <1>5
<1>7. seqs \in Seq(Seq(Keys)) /\ Len(seqs) = n /\ seqs # <<>>
  BY <1>1, <1>6
<1>8. PICK f : FlattensUpTo(f, seqs, Keys, n) /\ FlattenSeq(seqs) = f[n]
  BY <1>7, Flattening
<1>9. Framed(f, stack)
  BY <1>5, <1>8 DEF FlattensUpTo, Framed, n
<1> QED
  BY <1>4, <1>8, <1>9 DEF n, stack

\* How many frames there are, and which is last.
LEMMA FramedShape ==
  ASSUME NEW stack \in Seq(Symbols), NEW f, Framed(f, stack), NEW i \in 1..Len(stack)
  PROVE  /\ f[i] \in Seq(Keys) /\ Len(f[i]) \in Nat /\ Len(f[i]) >= i
         /\ f[i][Len(f[i])] = Pieces(stack[i])[Len(Pieces(stack[i]))]
         /\ i # 1 => f[i - 1] \in Seq(Keys) /\ f[i] = f[i - 1] \o Pieces(stack[i])
         /\ i = 1 => f[i] = Pieces(stack[i])
<1> DEFINE n == Len(stack)
           p(j) == Pieces(stack[j])
<1>1. n \in Nat /\ \A j \in 1..n : stack[j] \in Symbols
  BY ElementOfSeq
<1>2. \A j \in 1..n : p(j) \in Seq(Keys) /\ Len(p(j)) \in Nat /\ Len(p(j)) >= 1
  BY <1>1, PieceShape
<1>3. /\ f \in [1..n -> Seq(Keys)]
      /\ \A j \in 1..n : f[j] = IF j = 1 THEN p(j) ELSE f[j - 1] \o p(j)
  BY DEF Framed
<1> HIDE DEF p, n
<1>4. \A j \in 1..n : j # 1 => j - 1 \in 1..n /\ f[j - 1] \in Seq(Keys) /\ f[j] = f[j - 1] \o p(j)
  BY <1>1, <1>3
<1>5. \A j \in 1..n : f[j] \in Seq(Keys) /\ Len(f[j]) \in Nat
  BY <1>3
<1> DEFINE T == {j \in 1..n : ~(Len(f[j]) >= j)}
<1>6. T = {}
  <2> SUFFICES ASSUME T # {}
               PROVE  FALSE
    OBVIOUS
  <2>1. T \subseteq Nat
    OBVIOUS
  <2> HIDE DEF T
  <2>2. PICK j \in T : \A m \in T : ~(m < j)
    BY <2>1, LeastNatural
  <2>3. j \in 1..n /\ ~(Len(f[j]) >= j)
    BY <2>2 DEF T
  <2>4. j # 1
    <3> SUFFICES ASSUME j = 1
                 PROVE  FALSE
      OBVIOUS
    <3>1. f[1] = p(1) /\ Len(p(1)) >= 1
      BY <1>2, <1>3, <2>3
    <3> QED
      BY <2>3, <3>1
  <2> DEFINE m == j - 1
  <2>5. m \in 1..n /\ m < j /\ m + 1 = j /\ f[m] \in Seq(Keys) /\ f[j] = f[m] \o p(j)
    BY <1>1, <1>4, <2>3, <2>4
  <2> HIDE DEF m
  <2>6. Len(f[m]) >= m /\ Len(f[m]) \in Nat
    BY <1>5, <2>2, <2>5 DEF T
  <2>7. Len(f[j]) = Len(f[m]) + Len(p(j))
    BY <1>2, <2>3, <2>5, LastOfBoth
  <2>8. Len(p(j)) \in Nat /\ Len(p(j)) >= 1 /\ j \in Nat /\ m \in Nat
    BY <1>1, <1>2, <2>3, <2>5
  <2>9. Len(f[j]) >= j
    <3> DEFINE x == Len(f[m])
               y == Len(p(j))
    <3>1. x \in Nat /\ y \in Nat /\ x >= m /\ y >= 1 /\ m + 1 = j /\ Len(f[j]) = x + y
      BY <2>5, <2>6, <2>7, <2>8
    <3> HIDE DEF x, y
    <3> QED
      BY <2>8, <3>1
  <2> QED
    BY <2>3, <2>9
<1>7. Len(f[i]) >= i
  BY <1>6 DEF n
<1>8. f[i][Len(f[i])] = p(i)[Len(p(i))]
  <2>0. i \in 1..n
    BY DEF n
  <2>1. CASE i = 1
    BY <1>3, <2>0, <2>1
  <2>2. CASE i # 1
    <3>1. f[i - 1] \in Seq(Keys) /\ f[i] = f[i - 1] \o p(i)
      BY <1>4, <2>0, <2>2
    <3>2. p(i) \in Seq(Keys) /\ Len(p(i)) # 0
      <4>1. p(i) \in Seq(Keys) /\ Len(p(i)) \in Nat /\ Len(p(i)) >= 1
        BY <1>2, <2>0
      <4> QED
        BY <4>1
    <3> QED
      BY <3>1, <3>2, LastOfBoth
  <2> QED
    BY <2>1, <2>2
<1> QED
  BY <1>3, <1>4, <1>5, <1>7, <1>8 DEF p, n

\* Stacks with the same frames are the same.
LEMMA FramedDiffer ==
  ASSUME NEW a \in Seq(Symbols), NEW b \in Seq(Symbols), NEW f, NEW h, Framed(f, a), Framed(h, b),
         NEW m \in 1..Len(a), NEW n \in 1..Len(b), f[m] = h[n]
  PROVE  m = n /\ \A i \in 1..m : a[i] = b[i]
<1> DEFINE Same(k, l) == k = l /\ \A i \in 1..k : a[i] = b[i]
           T == {k \in 1..Len(a) : \E l \in 1..Len(b) : f[k] = h[l] /\ ~Same(k, l)}
<1>1. T \subseteq Nat /\ Len(a) \in Nat /\ Len(b) \in Nat
  OBVIOUS
<1> HIDE DEF T
<1> SUFFICES ASSUME T # {}
             PROVE  FALSE
  BY DEF T
<1>2. PICK k \in T : \A j \in T : ~(j < k)
  BY <1>1, LeastNatural
<1>3. k \in 1..Len(a)
  BY <1>2 DEF T
<1>4. PICK l \in 1..Len(b) : f[k] = h[l] /\ ~Same(k, l)
  BY <1>2 DEF T
<1>5. a[k] \in Symbols /\ b[l] \in Symbols
  BY <1>3, ElementOfSeq
<1>6. a[k] = b[l]
  <2>1. f[k][Len(f[k])] = Pieces(a[k])[Len(Pieces(a[k]))]
    BY <1>3, FramedShape
  <2>2. h[l][Len(h[l])] = Pieces(b[l])[Len(Pieces(b[l]))]
    BY FramedShape
  <2>3. Pieces(a[k])[Len(Pieces(a[k]))][1] = a[k] /\ Pieces(b[l])[Len(Pieces(b[l]))][1] = b[l]
    BY <1>5, PieceShape
  <2> QED
    BY <1>4, <2>1, <2>2, <2>3
<1> DEFINE p == Pieces(a[k])
<1>7. p \in Seq(Keys) /\ Len(p) \in Nat /\ Len(p) >= 1 /\ p = Pieces(b[l])
  BY <1>5, <1>6, PieceShape
<1> HIDE DEF p
<1>8. /\ k = 1 => f[k] = p
      /\ k # 1 => f[k - 1] \in Seq(Keys) /\ f[k] = f[k - 1] \o p
  BY <1>3, FramedShape DEF p
<1>9. /\ l = 1 => h[l] = p
      /\ l # 1 => h[l - 1] \in Seq(Keys) /\ h[l] = h[l - 1] \o p
  BY <1>7, FramedShape
\* With one of the two at its start, the other has no frames before its last either.
<1>10. k # 1 => Len(f[k]) # Len(p)
  <2> SUFFICES ASSUME k # 1
               PROVE  Len(f[k]) # Len(p)
    OBVIOUS
  <2> DEFINE j == k - 1
  <2>1. j \in 1..Len(a)
    BY <1>1, <1>3
  <2> HIDE DEF j
  <2>2. Len(f[j]) >= j /\ Len(f[j]) \in Nat
    BY <2>1, FramedShape
  <2>3. f[j] \in Seq(Keys) /\ f[k] = f[j] \o p
    BY <1>8 DEF j
  <2>4. Len(f[k]) = Len(f[j]) + Len(p)
    BY <1>7, <2>3
  <2>5. j >= 1 /\ j \in Nat
    BY <2>1
  <2> DEFINE x == Len(f[j])
             y == Len(p)
  <2>6. x \in Nat /\ y \in Nat /\ x >= j /\ Len(f[k]) = x + y
    BY <1>7, <2>2, <2>4
  <2> HIDE DEF x, y
  <2>7. x + y # y
    BY <2>5, <2>6
  <2> QED
    BY <2>6, <2>7 DEF y
<1>11. l # 1 => Len(h[l]) # Len(p)
  <2> SUFFICES ASSUME l # 1
               PROVE  Len(h[l]) # Len(p)
    OBVIOUS
  <2> DEFINE j == l - 1
  <2>1. j \in 1..Len(b)
    BY <1>1
  <2> HIDE DEF j
  <2>2. Len(h[j]) >= j /\ Len(h[j]) \in Nat
    BY <2>1, FramedShape
  <2>3. h[j] \in Seq(Keys) /\ h[l] = h[j] \o p
    BY <1>9 DEF j
  <2>4. Len(h[l]) = Len(h[j]) + Len(p)
    BY <1>7, <2>3
  <2>5. j >= 1 /\ j \in Nat
    BY <2>1
  <2> DEFINE x == Len(h[j])
             y == Len(p)
  <2>6. x \in Nat /\ y \in Nat /\ x >= j /\ Len(h[l]) = x + y
    BY <1>7, <2>2, <2>4
  <2> HIDE DEF x, y
  <2>7. x + y # y
    BY <2>5, <2>6
  <2> QED
    BY <2>6, <2>7 DEF y
<1>12. CASE k = 1 \/ l = 1
  <2>1. k = 1 /\ l = 1
    BY <1>4, <1>8, <1>9, <1>10, <1>11, <1>12
  <2>2. Same(k, l)
    BY <1>6, <2>1
  <2> QED
    BY <1>4, <2>2
<1>13. CASE k # 1 /\ l # 1
  <2> DEFINE j == k - 1
             i == l - 1
  <2>1. j \in 1..Len(a) /\ i \in 1..Len(b) /\ j < k /\ j + 1 = k /\ i + 1 = l
    BY <1>1, <1>3, <1>13
  <2>2. f[j] \in Seq(Keys) /\ h[i] \in Seq(Keys) /\ f[j] \o p = h[i] \o p
    BY <1>4, <1>8, <1>9, <1>13
  <2> HIDE DEF i, j
  <2>3. f[j] = h[i]
    BY <1>7, <2>2, EndsCancel
  <2>4. Same(j, i)
    BY <1>2, <2>1, <2>3 DEF T
  <2>5. Same(k, l)
    BY <1>6, <2>1, <2>4
  <2> QED
    BY <1>4, <2>5
<1> QED
  BY <1>12, <1>13

LEMMA SameFramesSameStack ==
  ASSUME NEW g \in Groups, NEW h \in Groups, Frames(g) = Frames(h)
  PROVE  g.stack = h.stack
<1> DEFINE a == g.stack
           b == h.stack
<1>1. PICK f : Framed(f, a) /\ Frames(g) = f[Len(a)]
  BY FramesOfStack
<1>2. PICK e : Framed(e, b) /\ Frames(h) = e[Len(b)]
  BY FramesOfStack
<1>3. /\ a \in Seq(Symbols) /\ Len(a) \in Nat \ {0} /\ Len(a) \in 1..Len(a)
      /\ b \in Seq(Symbols) /\ Len(b) \in Nat \ {0} /\ Len(b) \in 1..Len(b)
  BY StackShape
<1> HIDE DEF a, b
<1>4. Len(a) = Len(b) /\ \A i \in 1..Len(a) : a[i] = b[i]
  <2> DEFINE m == Len(a)
             n == Len(b)
  <2>1. m \in 1..Len(a) /\ n \in 1..Len(b) /\ f[m] = e[n]
    BY <1>1, <1>2, <1>3
  <2> HIDE DEF m, n
  <2>2. m = n /\ \A i \in 1..m : a[i] = b[i]
    BY <1>1, <1>2, <1>3, <2>1, FramedDiffer
  <2> QED
    BY <2>2 DEF m, n
<1>5. a = b
  BY <1>3, <1>4
<1> QED
  BY <1>5 DEF a, b

\* The frames of a group whose leaf is not split.
LEMMA FramesShape ==
  ASSUME NEW g \in Groups, LeafOf(g) \notin Separated
  PROVE  /\ Frames(g) \in Seq(Keys) /\ Len(Frames(g)) \in Nat \ {0}
         /\ Frames(g)[Len(Frames(g))] = <<LeafOf(g), 0>>
         /\ Len(Frames(g)) > 1 <=> Len(g.stack) > 1
<1> DEFINE a == g.stack
           n == Len(a)
<1>1. PICK f : Framed(f, a) /\ Frames(g) = f[n]
  BY FramesOfStack
<1>2. a \in Seq(Symbols) /\ n \in Nat \ {0} /\ n \in 1..n
  BY StackShape
<1>3. LeafOf(g) = a[n] /\ a[n] \in Symbols
  BY <1>2, ElementOfSeq DEF LeafOf
<1> DEFINE p == Pieces(a[n])
<1>4. Len(p) = 1 /\ p[1] = <<LeafOf(g), 0>>
  BY <1>3, PieceShape
<1>5. /\ f[n] \in Seq(Keys) /\ Len(f[n]) \in Nat /\ Len(f[n]) >= n
      /\ f[n][Len(f[n])] = p[Len(p)]
      /\ n = 1 => f[n] = p
  <2>1. a \in Seq(Symbols) /\ Framed(f, a) /\ n \in 1..Len(a)
    BY <1>1, <1>2
  <2> HIDE DEF a, n, p
  <2>2. /\ f[n] \in Seq(Keys) /\ Len(f[n]) \in Nat /\ Len(f[n]) >= n
        /\ f[n][Len(f[n])] = Pieces(a[n])[Len(Pieces(a[n]))]
        /\ n # 1 => f[n - 1] \in Seq(Keys) /\ f[n] = f[n - 1] \o Pieces(a[n])
        /\ n = 1 => f[n] = Pieces(a[n])
    BY <2>1, FramedShape, Zenon
  <2> QED
    BY <2>2 DEF p
<1> HIDE DEF p, n
<1>6. Len(f[n]) > 1 <=> n > 1
  BY <1>2, <1>4, <1>5
<1> QED
  BY <1>1, <1>2, <1>4, <1>5, <1>6 DEF n

-----------------------------------------------------------------------------
(* The call paths. *)

LEMMA FramesBeforeOrders ==
  /\ \A s \in Seq(Keys) : ~FramesBefore(s, s)
  /\ \A s, t, u \in Seq(Keys) : FramesBefore(s, t) /\ FramesBefore(t, u) => FramesBefore(s, u)
  /\ \A s, t \in Seq(Keys) : s # t => FramesBefore(s, t) \/ FramesBefore(t, s)
<1>0. \A s \in Seq(Keys) : Len(s) \in Nat /\ \A i \in 1..Len(s) : s[i] \in Keys
  BY ElementOfSeq
<1>1. ASSUME NEW s \in Seq(Keys), FramesBefore(s, s)
      PROVE  FALSE
  <2>1. PICK i \in 1..Len(s) : IF i > Len(s) THEN TRUE ELSE KeyBefore(s[i], s[i])
    BY <1>1 DEF FramesBefore
  <2>2. Len(s) \in Nat /\ s[i] \in Keys
    BY <1>0
  <2>3. KeyBefore(s[i], s[i])
    BY <2>1, <2>2
  <2> QED
    BY <2>2, <2>3, KeyBeforeOrders
<1>2. ASSUME NEW s \in Seq(Keys), NEW t \in Seq(Keys), NEW u \in Seq(Keys),
             FramesBefore(s, t), FramesBefore(t, u)
      PROVE  FramesBefore(s, u)
  <2> DEFINE a == Len(s)
             b == Len(t)
             c == Len(u)
  <2>1. a \in Nat /\ b \in Nat /\ c \in Nat
    OBVIOUS
  <2>2. PICK i \in 1..b : /\ \A j \in 1..i - 1 : j <= a /\ s[j] = t[j]
                          /\ IF i > a THEN TRUE ELSE KeyBefore(s[i], t[i])
    BY <1>2 DEF FramesBefore
  <2>3. PICK k \in 1..c : /\ \A j \in 1..k - 1 : j <= b /\ t[j] = u[j]
                          /\ IF k > b THEN TRUE ELSE KeyBefore(t[k], u[k])
    BY <1>2 DEF FramesBefore
  <2>4. \A j \in Nat : /\ j \in 1..a => s[j] \in Keys
                       /\ j \in 1..b => t[j] \in Keys
                       /\ j \in 1..c => u[j] \in Keys
    BY <1>0
  <2>5. ASSUME NEW m \in 1..c, \A j \in 1..m - 1 : j <= a /\ s[j] = u[j],
               IF m > a THEN TRUE ELSE KeyBefore(s[m], u[m])
        PROVE  FramesBefore(s, u)
    BY <2>5 DEF FramesBefore
  <2> HIDE DEF a, b, c
  <2>6. CASE i < k
    <3>1. i \in 1..c /\ i \in 1..k - 1 /\ i \in Nat /\ k \in Nat
      BY <2>1, <2>6
    <3>2. \A j \in 1..i - 1 : j <= a /\ s[j] = u[j]
      <4> SUFFICES ASSUME NEW j \in 1..i - 1
                   PROVE  j <= a /\ s[j] = u[j]
        OBVIOUS
      <4>1. j \in 1..k - 1
        BY <2>6, <3>1
      <4> QED
        BY <2>2, <2>3, <4>1
    <3>3. t[i] = u[i]
      BY <2>3, <3>1
    <3> QED
      BY <2>2, <2>5, <3>1, <3>2, <3>3
  <2>7. CASE k < i
    <3>1. k \in 1..b /\ k \in 1..i - 1 /\ i \in Nat /\ k \in Nat
      BY <2>1, <2>7
    <3>2. \A j \in 1..k - 1 : j <= a /\ s[j] = u[j]
      <4> SUFFICES ASSUME NEW j \in 1..k - 1
                   PROVE  j <= a /\ s[j] = u[j]
        OBVIOUS
      <4>1. j \in 1..i - 1
        BY <2>7, <3>1
      <4> QED
        BY <2>2, <2>3, <4>1
    <3>3. s[k] = t[k] /\ KeyBefore(t[k], u[k])
      <4>1. ~(k > b)
        BY <2>1, <3>1
      <4> QED
        BY <2>2, <2>3, <3>1, <4>1
    <3> QED
      BY <2>5, <3>2, <3>3
  <2>8. CASE i = k
    <3>1. \A j \in 1..i - 1 : j <= a /\ s[j] = u[j]
      BY <2>2, <2>3, <2>8
    <3>2. CASE i > a
      BY <2>5, <2>8, <3>1, <3>2
    <3>3. CASE ~(i > a)
      <4>1. KeyBefore(s[i], t[i])
        BY <2>2, <3>3
      <4>2. KeyBefore(t[i], u[i])
        <5>1. ~(i > b)
          BY <2>1
        <5> QED
          BY <2>3, <2>8, <5>1
      <4>3. s[i] \in Keys /\ t[i] \in Keys /\ u[i] \in Keys
        <5>1. i \in 1..a /\ i \in 1..b /\ i \in 1..c /\ i \in Nat
          BY <2>1, <2>8, <3>3
        <5> QED
          BY <2>4, <5>1
      <4>4. KeyBefore(s[i], u[i])
        BY <4>1, <4>2, <4>3, KeyBeforeOrders
      <4> QED
        BY <2>5, <2>8, <3>1, <4>4
    <3> QED
      BY <3>2, <3>3
  <2> QED
    BY <2>1, <2>6, <2>7, <2>8
<1>3. ASSUME NEW s \in Seq(Keys), NEW t \in Seq(Keys), s # t
      PROVE  FramesBefore(s, t) \/ FramesBefore(t, s)
  <2> DEFINE a == Len(s)
             b == Len(t)
             D == {i \in Nat \ {0} : (i <= a \/ i <= b) /\ ~(i <= a /\ i <= b /\ s[i] = t[i])}
  <2>1. a \in Nat /\ b \in Nat /\ D \subseteq Nat
    OBVIOUS
  <2>2. D # {}
    <3> SUFFICES ASSUME D = {}
                 PROVE  s = t
      BY <1>3
    <3>1. \A i \in Nat \ {0} : i <= a \/ i <= b => i <= a /\ i <= b /\ s[i] = t[i]
      OBVIOUS
    <3>2. a = b
      <4> HIDE DEF a, b
      <4>1. CASE a < b
        <5>1. b \in Nat \ {0} /\ b <= b /\ ~(b <= a)
          BY <2>1, <4>1
        <5> QED
          BY <3>1, <5>1
      <4>2. CASE b < a
        <5>1. a \in Nat \ {0} /\ a <= a /\ ~(a <= b)
          BY <2>1, <4>2
        <5> QED
          BY <3>1, <5>1
      <4> QED
        BY <2>1, <4>1, <4>2
    <3>3. \A i \in 1..a : s[i] = t[i]
      <4> HIDE DEF a, b
      <4> QED
        BY <2>1, <3>1
    <3>4. s = [i \in 1..a |-> s[i]] /\ t = [i \in 1..b |-> t[i]]
      OBVIOUS
    <3> HIDE DEF a, b
    <3> QED
      BY <3>2, <3>3, <3>4
  <2> HIDE DEF D
  <2>3. PICK i \in D : \A j \in D : ~(j < i)
    BY <2>1, <2>2, LeastNatural
  <2>4. i \in Nat \ {0} /\ (i <= a \/ i <= b) /\ ~(i <= a /\ i <= b /\ s[i] = t[i])
    BY <2>3 DEF D
  <2>5. \A j \in 1..a : s[j] \in Keys
    BY <1>0
  <2>6. \A j \in 1..b : t[j] \in Keys
    BY <1>0
  <2>7. ASSUME i \in 1..b, \A j \in 1..i - 1 : j <= a /\ s[j] = t[j],
               IF i > a THEN TRUE ELSE KeyBefore(s[i], t[i])
        PROVE  FramesBefore(s, t)
    BY <2>7 DEF FramesBefore
  <2>8. ASSUME i \in 1..a, \A j \in 1..i - 1 : j <= b /\ t[j] = s[j],
               IF i > b THEN TRUE ELSE KeyBefore(t[i], s[i])
        PROVE  FramesBefore(t, s)
    BY <2>8 DEF FramesBefore
  <2> HIDE DEF a, b
  <2>9. \A j \in 1..i - 1 : j <= a /\ j <= b /\ s[j] = t[j]
    <3> SUFFICES ASSUME NEW j \in 1..i - 1
                 PROVE  j <= a /\ j <= b /\ s[j] = t[j]
      OBVIOUS
    <3>1. j \in Nat \ {0} /\ j < i /\ (j <= a \/ j <= b)
      BY <2>1, <2>4
    <3>2. j \notin D
      BY <2>3, <3>1
    <3> QED
      BY <3>1, <3>2 DEF D
  <2>10. CASE i > a
    <3>1. i \in 1..b
      BY <2>1, <2>4, <2>10
    <3> QED
      BY <2>7, <2>9, <2>10, <3>1
  <2>11. CASE i > b
    <3>1. i \in 1..a
      BY <2>1, <2>4, <2>11
    <3> QED
      BY <2>8, <2>9, <2>11, <3>1
  <2>12. CASE i <= a /\ i <= b
    <3>1. i \in 1..a /\ i \in 1..b /\ s[i] # t[i]
      BY <2>1, <2>4, <2>12
    <3>2. s[i] \in Keys /\ t[i] \in Keys
      BY <2>5, <2>6, <3>1
    <3>3. KeyBefore(s[i], t[i]) \/ KeyBefore(t[i], s[i])
      BY <3>1, <3>2, KeyBeforeOrders
    <3> QED
      BY <2>7, <2>8, <2>9, <3>1, <3>3
  <2> QED
    BY <2>1, <2>4, <2>10, <2>11, <2>12
<1> QED
  BY <1>1, <1>2, <1>3

\* The groups of a list of frames, and the row of the table they make.
With(r, f) == {g \in r : Frames(g) = f}
PathRow(r, f) == [frames |-> f, samples |-> SamplesOf(With(r, f))]
PathRows(r, leaf) == {PathRow(r, f) : f \in {h \in Folded(r) : h[Len(h)] = <<leaf, 0>>}}
PathOrder(r, leaf) == {p \in PathRows(r, leaf) \X PathRows(r, leaf) : MoreSampled(p[1], p[2])}

Unsplit(r) == \A g \in r : LeafOf(g) \notin Separated
Ending(r, leaf) == {g \in r : LeafOf(g) = leaf /\ Len(g.stack) > 1}

\* The rows are those of the recorded stacks that end in the leaf.
LEMMA PathRowsAreOfStacks ==
  ASSUME NEW r \in SUBSET Groups, IsFiniteSet(r), Unsplit(r), NEW leaf
  PROVE  /\ IsFiniteSet(PathRows(r, leaf))
         /\ \A g \in r : Frames(g) \in Seq(Keys)
         /\ \A f : With(r, f) \in SUBSET r /\ SamplesOf(With(r, f)) \in Nat
         /\ \A g \in Ending(r, leaf) : PathRow(r, Frames(g)) \in PathRows(r, leaf)
         /\ \A x \in PathRows(r, leaf) :
              x = PathRow(r, x.frames) /\ \E g \in Ending(r, leaf) : x.frames = Frames(g)
<1> DEFINE E == Ending(r, leaf)
<1>1. \A g \in r : /\ Frames(g) \in Seq(Keys)
                   /\ Frames(g)[Len(Frames(g))] = <<LeafOf(g), 0>>
                   /\ Len(Frames(g)) > 1 <=> Len(g.stack) > 1
  <2> SUFFICES ASSUME NEW g \in r
               PROVE  /\ Frames(g) \in Seq(Keys)
                      /\ Frames(g)[Len(Frames(g))] = <<LeafOf(g), 0>>
                      /\ Len(Frames(g)) > 1 <=> Len(g.stack) > 1
    OBVIOUS
  <2>1. g \in Groups /\ LeafOf(g) \notin Separated
    BY DEF Unsplit
  <2> QED
    BY <2>1, FramesShape
<1>2. \A f : With(r, f) \in SUBSET r /\ SamplesOf(With(r, f)) \in Nat
  <2> SUFFICES ASSUME NEW f
               PROVE  With(r, f) \in SUBSET r /\ SamplesOf(With(r, f)) \in Nat
    OBVIOUS
  <2>1. With(r, f) \in SUBSET r
    BY DEF With
  <2>2. With(r, f) \in SUBSET Groups /\ IsFiniteSet(With(r, f))
    BY <2>1, FS_Subset
  <2> QED
    BY <2>1, <2>2, SumsOfGroups
<1>3. ASSUME NEW g \in E
      PROVE  PathRow(r, Frames(g)) \in PathRows(r, leaf)
  <2>1. g \in r /\ LeafOf(g) = leaf /\ Len(g.stack) > 1
    BY DEF Ending
  <2>2. Frames(g) \in Folded(r) /\ Frames(g)[Len(Frames(g))] = <<leaf, 0>>
    BY <1>1, <2>1 DEF Folded
  <2> QED
    BY <2>2 DEF PathRows
<1>4. ASSUME NEW x \in PathRows(r, leaf)
      PROVE  x = PathRow(r, x.frames) /\ \E g \in E : x.frames = Frames(g)
  <2>1. PICK f \in Folded(r) : f[Len(f)] = <<leaf, 0>> /\ x = PathRow(r, f)
    BY DEF PathRows
  <2>2. x.frames = f
    BY <2>1 DEF PathRow
  <2>3. PICK g \in r : Len(Frames(g)) > 1 /\ f = Frames(g)
    BY DEF Folded
  <2>4. <<LeafOf(g), 0>> = <<leaf, 0>> /\ Len(g.stack) > 1
    BY <1>1, <2>1, <2>3
  <2>5. g \in E
    BY <2>4 DEF Ending
  <2> QED
    BY <2>1, <2>2, <2>3, <2>5
<1>5. IsFiniteSet(PathRows(r, leaf))
  <2> DEFINE rows == PathRows(r, leaf)
             f == [g \in E |-> PathRow(r, Frames(g))]
  <2>1. E \in SUBSET r
    BY DEF Ending
  <2>2. IsFiniteSet(E)
    BY <2>1, FS_Subset
  <2>3. f \in [E -> rows]
    BY <1>3
  <2>4. \A x \in rows : \E g \in E : f[g] = x
    BY <1>4
  <2> HIDE DEF f, rows, E
  <2>5. f \in Surjection(E, rows)
    BY <2>3, <2>4, Fun_IsSurj
  <2>6. IsFiniteSet(rows)
    BY <2>2, <2>5, FS_Surjection
  <2> QED
    BY <2>6 DEF rows
<1> QED
  BY <1>1, <1>2, <1>3, <1>4, <1>5

LEMMA PathsAreOrdered ==
  ASSUME NEW r \in SUBSET Groups, IsFiniteSet(r), Unsplit(r), NEW leaf
  PROVE  /\ Orders(PathOrder(r, leaf), PathRows(r, leaf))
         /\ PathTable(r, leaf) = InOrder(PathRows(r, leaf), PathOrder(r, leaf))
<1> DEFINE S == PathRows(r, leaf)
           R == PathOrder(r, leaf)
<1>1. \A x \in S : x.frames \in Seq(Keys) /\ x.samples \in Nat
  <2> SUFFICES ASSUME NEW x \in S
               PROVE  x.frames \in Seq(Keys) /\ x.samples \in Nat
    OBVIOUS
  <2>1. x = PathRow(r, x.frames) /\ \E g \in Ending(r, leaf) : x.frames = Frames(g)
    BY PathRowsAreOfStacks
  <2>2. x.samples = SamplesOf(With(r, x.frames))
    BY <2>1 DEF PathRow
  <2>3. x.frames \in Seq(Keys)
    BY <2>1, PathRowsAreOfStacks DEF Ending
  <2> QED
    BY <2>2, <2>3, PathRowsAreOfStacks
<1>2. \A x, y \in S : x.frames = y.frames => x = y
  <2>1. \A x \in S : x = PathRow(r, x.frames)
    BY PathRowsAreOfStacks
  <2> QED
    BY <2>1
<1>3. \A x, y \in S : <<x, y>> \in R <=> MoreSampled(x, y)
  BY DEF PathOrder
<1>4. PathTable(r, leaf) = InOrder(S, R)
  BY DEF PathTable, PathOrder, PathRows, PathRow, With
<1> HIDE DEF S, R
<1>5. Orders(R, S)
  <2>1. \A x \in S : ~MoreSampled(x, x)
    BY <1>1, FramesBeforeOrders DEF MoreSampled
  <2>2. ASSUME NEW x \in S, NEW y \in S, NEW z \in S, MoreSampled(x, y), MoreSampled(y, z)
        PROVE  MoreSampled(x, z)
    <3>1. /\ x.samples \in Nat /\ y.samples \in Nat /\ z.samples \in Nat
          /\ FramesBefore(x.frames, y.frames) /\ FramesBefore(y.frames, z.frames) =>
               FramesBefore(x.frames, z.frames)
      BY <1>1, FramesBeforeOrders
    <3> QED
      BY <2>2, <3>1 DEF MoreSampled
  <2>3. ASSUME NEW x \in S, NEW y \in S, x # y
        PROVE  MoreSampled(x, y) \/ MoreSampled(y, x)
    <3>1. /\ x.samples \in Nat /\ y.samples \in Nat
          /\ FramesBefore(x.frames, y.frames) \/ FramesBefore(y.frames, x.frames)
      BY <1>1, <1>2, <2>3, FramesBeforeOrders
    <3> QED
      BY <3>1 DEF MoreSampled
  <2> QED
    BY <1>3, <2>1, <2>2, <2>3 DEF Orders
<1> QED
  BY <1>4, <1>5 DEF R, S

\* What of the paths of a leaf is shown.
LEMMA KeptPaths ==
  ASSUME NEW r \in SUBSET Groups, IsFiniteSet(r), Unsplit(r), NEW leaf,
         NEW paths, paths = Cut(PathTable(r, leaf), MaxPathsPerHotspot)
  PROVE  /\ \A p \in ToSet(paths) : p \in PathRows(r, leaf)
         /\ Len(PathTable(r, leaf)) > MaxPathsPerHotspot <=>
              \E x \in PathRows(r, leaf) : x \notin ToSet(paths)
         /\ \A x \in PathRows(r, leaf) : x \notin ToSet(paths) =>
              \A p \in ToSet(paths) : x.samples <= p.samples
<1> DEFINE q == PathTable(r, leaf)
           S == PathRows(r, leaf)
           R == PathOrder(r, leaf)
<1>1. IsFiniteSet(S) /\ Orders(R, S) /\ q = InOrder(S, R)
  BY PathRowsAreOfStacks, PathsAreOrdered
<1>2. MaxPathsPerHotspot \in Nat
  BY HotspotLimits DEF HotspotLimits
<1>3. \A x, y \in S : <<x, y>> \in R => y.samples <= x.samples
  <2>1. \A x \in S : x.samples \in Nat
    <3>1. \A x \in S : x = PathRow(r, x.frames)
      BY PathRowsAreOfStacks
    <3>2. \A f : PathRow(r, f).samples \in Nat
      BY PathRowsAreOfStacks DEF PathRow
    <3> QED
      BY <3>1, <3>2
  <2>2. \A x, y \in S : <<x, y>> \in R => MoreSampled(x, y)
    BY DEF PathOrder
  <2> HIDE DEF S, R
  <2> QED
    BY <2>1, <2>2 DEF MoreSampled
<1>4. paths = Cut(q, MaxPathsPerHotspot)
  OBVIOUS
<1> HIDE DEF S, R, q
<1>5. KeepsFirst(paths, Len(q) > MaxPathsPerHotspot, S, R)
  <2>1. Sorts(q, S, R)
    BY <1>1, RankedInOrder
  <2>2. KeepsFirst(Cut(q, MaxPathsPerHotspot), Len(q) > MaxPathsPerHotspot, S, R)
    BY <1>1, <1>2, <2>1, CutKeepsFirst
  <2> QED
    BY <1>4, <2>2
<1>6. /\ paths \in Seq(S)
      /\ Len(q) > MaxPathsPerHotspot <=> \E x \in S : \A i \in 1..Len(paths) : paths[i] # x
      /\ \A x \in S : (\A i \in 1..Len(paths) : paths[i] # x) =>
           \A i \in 1..Len(paths) : <<paths[i], x>> \in R
  BY <1>5, Zenon DEF KeepsFirst
<1>7. ToSet(paths) = {paths[i] : i \in 1..Len(paths)} /\ \A i \in 1..Len(paths) : paths[i] \in S
  BY <1>6, ElementOfSeq DEF ToSet
<1>8. \A x : x \notin ToSet(paths) <=> \A i \in 1..Len(paths) : paths[i] # x
  BY <1>7
<1>9. \A x \in S : x \notin ToSet(paths) => \A p \in ToSet(paths) : x.samples <= p.samples
  <2> SUFFICES ASSUME NEW x \in S, x \notin ToSet(paths), NEW i \in 1..Len(paths)
               PROVE  x.samples <= paths[i].samples
    BY <1>7
  <2>1. <<paths[i], x>> \in R /\ paths[i] \in S
    BY <1>6, <1>7, <1>8
  <2> QED
    BY <1>3, <2>1
<1>10. \A p \in ToSet(paths) : p \in S
  BY <1>7
<1>11. Len(q) > MaxPathsPerHotspot <=> \E x \in S : x \notin ToSet(paths)
  BY <1>6, <1>8
<1> QED
  BY <1>9, <1>10, <1>11 DEF S, q

LEMMA PathsAccount ==
  ASSUME NEW r \in SUBSET Groups, IsFiniteSet(r), ~RefusesPaths(r)
  PROVE  PathsAccountFor(HotspotsOf(r), r)
<1> DEFINE d == HotspotsOf(r)
<1>1. Unsplit(r)
  BY DEF RefusesPaths, Unsplit
<1>2. ASSUME NEW h \in ToSet(d.hotspots)
      PROVE  LET leaf == h.key[1]
             IN /\ h.paths = Cut(PathTable(r, leaf), MaxPathsPerHotspot)
                /\ h.pathsTruncated <=> Len(PathTable(r, leaf)) > MaxPathsPerHotspot
  <2>1. \E x : h = Attached(x, r)
    BY DEF HotspotsOf, ToSet
  <2>2. PICK x : h = Attached(x, r)
    BY <2>1
  <2>3. h = [key |-> x.key, weight |-> x.weight, samples |-> x.samples,
             paths |-> Cut(PathTable(r, x.key[1]), MaxPathsPerHotspot),
             pathsTruncated |-> Len(PathTable(r, x.key[1])) > MaxPathsPerHotspot]
    BY <2>2 DEF Attached
  <2> QED
    BY <2>3
<1> HIDE DEF d
<1>3. ASSUME NEW h \in ToSet(d.hotspots)
      PROVE  LET ending == {g \in r : LeafOf(g) = h.key[1] /\ Len(g.stack) > 1}
                 of(p) == {g \in ending : Frames(g) = p.frames}
                 shown == UNION {of(p) : p \in ToSet(h.paths)}
             IN /\ \A p \in ToSet(h.paths) : of(p) # {} /\ p.samples = SamplesOf(of(p))
                /\ h.pathsTruncated <=> shown # ending
                /\ \A g \in ending \ shown, p \in ToSet(h.paths) :
                     SamplesOf({x \in ending : x.stack = g.stack}) <= p.samples
  <2> DEFINE leaf == h.key[1]
             E == {g \in r : LeafOf(g) = leaf /\ Len(g.stack) > 1}
             S == PathRows(r, leaf)
             P == ToSet(h.paths)
             of(p) == {g \in E : Frames(g) = p.frames}
             shown == UNION {of(p) : p \in P}
  <2>1. /\ \A p \in P : p \in S
        /\ h.pathsTruncated <=> \E x \in S : x \notin P
        /\ \A x \in S : x \notin P => \A p \in P : x.samples <= p.samples
    BY <1>1, <1>2, KeptPaths
  <2>2. /\ \A g \in E : PathRow(r, Frames(g)) \in S
        /\ \A x \in S : x = PathRow(r, x.frames) /\ \E g \in E : x.frames = Frames(g)
    <3>1. E = Ending(r, leaf)
      BY DEF Ending
    <3> QED
      BY <1>1, <3>1, PathRowsAreOfStacks
  <2>3. E = {g \in r : LeafOf(g) = leaf /\ Len(g.stack) > 1} /\ E \subseteq r
    OBVIOUS
  \* Groups with the frames of one that ends in the leaf end in it as well.
  <2>4. \A g \in E : /\ With(r, Frames(g)) = {x \in E : Frames(x) = Frames(g)}
                     /\ With(r, Frames(g)) = {x \in E : x.stack = g.stack}
    <3> SUFFICES ASSUME NEW g \in E
                 PROVE  /\ With(r, Frames(g)) = {x \in E : Frames(x) = Frames(g)}
                        /\ With(r, Frames(g)) = {x \in E : x.stack = g.stack}
      OBVIOUS
    <3>0. g \in Groups /\ \A x \in r : x \in Groups
      BY <2>3
    <3>1. \A x \in r : Frames(x) = Frames(g) => x.stack = g.stack
      BY <3>0, SameFramesSameStack
    <3>2. \A x \in r : x.stack = g.stack => x \in E /\ Frames(x) = Frames(g)
      BY <2>3 DEF LeafOf, Frames
    <3> HIDE DEF E
    <3> QED
      BY <2>3, <3>1, <3>2 DEF With
  <2> HIDE DEF E, S, P, leaf
  <2>5. \A x \in S : of(x) = With(r, x.frames) /\ of(x) # {} /\ x.samples = SamplesOf(of(x))
    <3> SUFFICES ASSUME NEW x \in S
                 PROVE  of(x) = With(r, x.frames) /\ of(x) # {} /\ x.samples = SamplesOf(of(x))
      OBVIOUS
    <3>1. PICK g \in E : x.frames = Frames(g)
      BY <2>2
    <3>2. of(x) = With(r, x.frames) /\ g \in of(x)
      BY <2>4, <3>1
    <3>3. x.samples = SamplesOf(With(r, x.frames))
      BY <2>2 DEF PathRow
    <3> QED
      BY <3>2, <3>3
  <2>6. \A g \in E : g \in shown <=> PathRow(r, Frames(g)) \in P
    <3> SUFFICES ASSUME NEW g \in E
                 PROVE  g \in shown <=> PathRow(r, Frames(g)) \in P
      OBVIOUS
    <3>1. ASSUME PathRow(r, Frames(g)) \in P
          PROVE  g \in shown
      <4>1. g \in of(PathRow(r, Frames(g)))
        BY DEF PathRow
      <4> QED
        BY <3>1, <4>1
    <3>2. ASSUME NEW p \in P, g \in of(p)
          PROVE  PathRow(r, Frames(g)) \in P
      <4>1. p = PathRow(r, p.frames) /\ p.frames = Frames(g)
        BY <2>1, <2>2, <3>2
      <4> QED
        BY <4>1
    <3> QED
      BY <3>1, <3>2
  <2>7. shown \subseteq E
    OBVIOUS
  <2>8. \A p \in P : of(p) # {} /\ p.samples = SamplesOf(of(p))
    BY <2>1, <2>5
  <2>9. h.pathsTruncated <=> shown # E
    <3> HIDE DEF shown
    <3>1. (\E x \in S : x \notin P) <=> \E g \in E : PathRow(r, Frames(g)) \notin P
      BY <2>2
    <3> QED
      BY <2>1, <2>6, <2>7, <3>1
  <2>10. ASSUME NEW g \in E \ shown, NEW p \in P
         PROVE  SamplesOf({x \in E : x.stack = g.stack}) <= p.samples
    <3>1. PathRow(r, Frames(g)) \in S /\ PathRow(r, Frames(g)) \notin P
      BY <2>2, <2>6
    <3>2. PathRow(r, Frames(g)).samples <= p.samples
      BY <2>1, <3>1
    <3>3. PathRow(r, Frames(g)).samples = SamplesOf({x \in E : x.stack = g.stack})
      BY <2>4 DEF PathRow
    <3> QED
      BY <3>2, <3>3
  <2> QED
    BY <2>8, <2>9, <2>10 DEF P, E, leaf
<1> QED
  BY <1>3 DEF PathsAccountFor, d

\* What hotspots holds is made of the last recording, which was not refused.
HotspotsInv ==
  hotspots.collected =>
    recording \in Recordings /\ ~RefusesPaths(recording) /\ hotspots = HotspotsOf(recording)

LEMMA HotspotsNext == PlaceInv /\ HotspotsInv /\ [Next]_vars => HotspotsInv'
<1> SUFFICES ASSUME PlaceInv, HotspotsInv, [Next]_vars
             PROVE  HotspotsInv'
  OBVIOUS
<1>1. ASSUME UNCHANGED perf
      PROVE  HotspotsInv'
  BY <1>1 DEF HotspotsInv, perf
<1>2. CASE Next
  <2>0. Moves
    BY <1>2, NextMoves
  <2>1. ASSUME End("failed") \/ End("killed")
        PROVE  HotspotsInv'
    BY <2>1, NoProfile DEF End, HotspotsInv
  <2>2. CASE Advance
    BY <1>1, <2>2 DEF Advance, Goes, WarmedUp, Measured, Record, Report, DetectBrowser, Drive
  <2>3. CASE Begins \/ Warmup \/ MeasureCommand \/ MeasureBatch \/ DigestJourney \/ LoadJourney
             \/ Browsed \/ Signal \/ Edit
    BY <1>1, <2>3 DEF Begins, Warmup, MeasureCommand, MeasureBatch, DigestJourney, LoadJourney,
                      Browsed, Signal, Edit
  <2>4. CASE Profiled
    BY <2>4 DEF Profiled, HotspotsInv
  <2> QED
    BY <2>0, <2>1, <2>2, <2>3, <2>4 DEF Moves
<1> QED
  BY <1>1, <1>2 DEF vars

\* The hotspots account for what perf recorded, whatever the limits (parse_perf_report,
\* parse_folded_call_paths, attach_call_paths): every group of samples is under exactly
\* one hotspot, or under none and then the report says it was truncated; weights and
\* samples add up; and nothing that was cut, hotspot or call path, is heavier than what
\* was kept.
THEOREM HotspotsAreAccountedFor == Spec => []HotspotsAccountForSamples
<1>1. Init => HotspotsInv
  BY NoProfile DEF Init, HotspotsInv
<1>2. PlaceInv /\ HotspotsInv /\ [Next]_vars => (PlaceInv /\ HotspotsInv)'
  BY PlaceNext, HotspotsNext
<1>3. HotspotsInv => HotspotsAccountForSamples
  <2> SUFFICES ASSUME HotspotsInv, hotspots.collected
               PROVE  TableAccountsFor(hotspots, recording) /\ PathsAccountFor(hotspots, recording)
    BY DEF HotspotsAccountForSamples
  <2>1. recording \in Recordings /\ ~RefusesPaths(recording) /\ hotspots = HotspotsOf(recording)
    BY DEF HotspotsInv
  <2>2. recording \in SUBSET Groups /\ IsFiniteSet(recording)
    BY <2>1, RecordingFinite
  <2>3. /\ TableAccountsFor(HotspotsOf(recording), recording)
        /\ PathsAccountFor(HotspotsOf(recording), recording)
    BY <2>1, <2>2, HotspotsAccount, PathsAccount
  <2> QED
    BY <2>1, <2>3
<1> QED
  BY <1>1, <1>2, <1>3, PlaceInit, PTL DEF Spec
-----------------------------------------------------------------------------
(* All of this is one step of CaptureBundle. *)

LEMMA BundleStutters ==
  ASSUME Phase' = Phase, interrupted' = interrupted
  PROVE  UNCHANGED Bundle!vars
  BY DEF Bundle!vars, Bundle!capture, Bundle!disk

LEMMA BundleMeasures ==
  ASSUME Phase = "measure", interrupted' = interrupted,
         Phase' = "failed" \/ (Phase' = "create" /\ ~interrupted)
  PROVE  Bundle!Next
<1>1. Bundle!Measure("capture")
  BY DEF Bundle!Measure, Bundle!Goto, Bundle!disk
<1> QED
  BY <1>1 DEF Bundle!Next, Bundle!CaptureStep

LEMMA BundleChecks ==
  ASSUME Phase = "check", interrupted' = interrupted,
         Phase' = IF interrupted THEN "failed" ELSE "measure"
  PROVE  Bundle!Next
<1>1. Bundle!CheckOutput("capture")
  BY DEF Bundle!CheckOutput, Bundle!Share, Bundle!Goto, Bundle!disk
<1> QED
  BY <1>1 DEF Bundle!Next, Bundle!CaptureStep

LEMMA BundleIsKilled ==
  ASSUME Phase \in {"check", "measure"}, Phase' = "killed", interrupted' = interrupted
  PROVE  Bundle!Next
<1>1. Bundle!Kill("capture")
  BY DEF Bundle!Kill, Bundle!Finished, Bundle!Goto, Bundle!disk
<1> QED
  BY <1>1 DEF Bundle!Next

LEMMA BundleIsSignalled ==
  ASSUME Phase \in {"check", "measure"}, Phase' = Phase, ~interrupted, interrupted' = TRUE,
         interrupted \in BOOLEAN
  PROVE  Bundle!Next
<1>1. Bundle!Signal("capture")
  BY DEF Bundle!Signal, Bundle!Finished, Bundle!capture, Bundle!disk
<1> QED
  BY <1>1 DEF Bundle!Next

LEMMA PhaseOfPlace ==
  /\ pc = "check" => Phase = "check"
  /\ pc \notin Ends /\ pc # "check" => Phase = "measure"
  /\ pc = "measured" => Phase = "create"
  /\ pc = "failed" => Phase = "failed"
  /\ pc = "killed" => Phase = "killed"
  BY DEF Phase, Ends

LEMMA PhaseAfter ==
  /\ pc' = "check" => Phase' = "check"
  /\ pc' \notin Ends /\ pc' # "check" => Phase' = "measure"
  /\ pc' = "measured" => Phase' = "create"
  /\ pc' = "failed" => Phase' = "failed"
  /\ pc' = "killed" => Phase' = "killed"
  BY DEF Phase, Ends

LEMMA StepImplements == PlaceInv /\ [Next]_vars => [Bundle!Next]_(Bundle!vars)
<1> SUFFICES ASSUME PlaceInv, [Next]_vars
             PROVE  Bundle!Next \/ UNCHANGED Bundle!vars
  OBVIOUS
<1>1. CASE UNCHANGED vars
  BY <1>1, BundleStutters DEF vars, Phase
<1>2. CASE Next
  <2>0. Moves
    BY <1>2, NextMoves
  <2>1. CASE pc \notin Ends /\ End("failed") /\ (pc = "check" => interrupted)
    <3>1. pc' = "failed" /\ interrupted' = interrupted
      BY <2>1 DEF End
    <3>2. CASE pc = "check"
      BY <2>1, <3>1, <3>2, PhaseOfPlace, PhaseAfter, BundleChecks
    <3>3. CASE pc # "check"
      BY <2>1, <3>1, <3>3, PhaseOfPlace, PhaseAfter, BundleMeasures
    <3> QED
      BY <3>2, <3>3
  <2>2. CASE pc \notin Ends /\ End("killed")
    BY <2>2, PhaseOfPlace, PhaseAfter, BundleIsKilled DEF End
  <2>3. CASE Advance
    <3>1. interrupted' = interrupted
      BY <2>3 DEF Advance, Goes, WarmedUp, Measured, Record, Report, DetectBrowser, Drive
    <3>2. CASE pc = "check" /\ pc' = "load" /\ ~interrupted
      BY <3>1, <3>2, PhaseOfPlace, PhaseAfter, BundleChecks DEF Ends
    <3>3. CASE pc = "last" /\ pc' = "measured" /\ ~interrupted
      BY <3>1, <3>3, PhaseOfPlace, PhaseAfter, BundleMeasures DEF Ends
    <3>4. CASE pc \notin Ends \cup {"check"} /\ pc' \notin Ends \cup {"check"}
      BY <3>1, <3>4, PhaseOfPlace, PhaseAfter, BundleStutters
    <3> QED
      BY <2>3, <3>2, <3>3, <3>4 DEF Advance, Goes, Goto, WarmedUp, Measured, Record, Report,
           DetectBrowser, Drive, Runs, Ends
  <2>4. CASE \/ Begins \/ Warmup \/ MeasureCommand \/ MeasureBatch \/ LoadJourney \/ Edit
             \/ Profiled \/ DigestJourney \/ Browsed
    <3>1. interrupted' = interrupted /\ pc \notin Ends \cup {"check"} /\ pc' \notin Ends \cup {"check"}
      BY <2>4 DEF Begins, Warmup, MeasureCommand, MeasureBatch, LoadJourney, Edit, Profiled,
                  DigestJourney, Browsed, Runs, Goto, Commands, Ends
    <3> QED
      BY <3>1, PhaseOfPlace, PhaseAfter, BundleStutters
  <2>5. CASE Signal
    <3>1. pc \notin Ends /\ ~interrupted /\ interrupted' = TRUE /\ pc' = pc
      BY <2>5 DEF Signal
    <3> QED
      BY <3>1, PhaseOfPlace, PhaseAfter, BundleIsSignalled DEF PlaceInv
  <2> QED
    BY <2>0, <2>1, <2>2, <2>3, <2>4, <2>5 DEF Moves
<1> QED
  BY <1>1, <1>2

\* However many commands it takes, what happens before create_dir_all is CaptureBundle's
\* one step, and ends in its state for an interruption, a failure or a kill (capture_bundle).
THEOREM CaptureImplemented == Spec => ImplementsCapture
<1>1. Init => Bundle!Init
  <2>1. 1..1 = {1}
    OBVIOUS
  <2>2. Bundle!NoDigests = [n \in {1} |-> [by |-> "no one", whole |-> FALSE]]
    BY <2>1 DEF Bundle!NoDigests, Bundle!Missing, Bundle!Artifacts
  <2>3. Bundle!NoManifest = [by |-> "no one", whole |-> FALSE, digests |-> Bundle!NoDigests]
    BY DEF Bundle!NoManifest
  <2> QED
    BY <2>2, <2>3 DEF Init, Bundle!Init, Phase
<1>2. PlaceInv /\ [Next]_vars => [Bundle!Next]_(Bundle!vars)
  BY StepImplements
<1> QED
  BY <1>1, <1>2, AlwaysPlace, PTL DEF Spec, ImplementsCapture, Bundle!Spec
=============================================================================
