------------------------------ MODULE Scenario ------------------------------
(***************************************************************************)
(* The scenarios load_scenario accepts (src/scenario.rs, and for HTTP      *)
(* workloads src/http_workload.rs).  The collectors of a scenario are a    *)
(* list, in which one may be missing or be there twice; counts are scaled  *)
(* down, each with its limit as a constant.  Names, paths, programs and    *)
(* timeouts, whose checks concern one value each, are left out.            *)
(***************************************************************************)
EXTENDS Naturals, Sequences, SequencesExt

CONSTANTS
  MaxWarmups,     \* 100
  MaxMeasured,    \* 10000
  MaxHttpWarmups, \* 3
  MaxHttpBatches, \* 10
  MaxRequests,    \* 1000, of a batch
  MaxEndpoints,   \* 32
  MaxTransfers    \* 10000, of a capture

ASSUME ScenarioLimits ==
  /\ MaxWarmups \in Nat /\ MaxMeasured \in Nat /\ MaxHttpWarmups \in Nat
  /\ MaxHttpBatches \in Nat /\ MaxRequests \in Nat /\ MaxEndpoints \in Nat
  /\ MaxTransfers \in Nat

Targets == {"command", "browser", "http"}
Collectors == {"process", "native-perf", "browser-chromium", "http-curl"}

\* Up to one past every limit.  Only an HTTP workload has requests and endpoints.
Scenarios ==
  {s \in [target : Targets, collectors : UNION {[1..n -> Collectors] : n \in 0..2},
          warmups : 0..MaxWarmups + 1, measured : 0..MaxMeasured + 1,
          count : 0..MaxRequests + 1, endpoints : 0..MaxEndpoints + 1] :
     s.target # "http" => s.count = 1 /\ s.endpoints = 1}

Requests(s, collector) == Contains(s.collectors, collector)

\* validate_command_target.
AcceptedCommandWithAny(s) == Requests(s, "native-perf") => Requests(s, "process")

AcceptedCommand(s) ==
  /\ ~Requests(s, "browser-chromium") /\ ~Requests(s, "http-curl")
  /\ Requests(s, "native-perf") => Requests(s, "process")

\* validate_browser_target.
AcceptedBrowser(s) ==
  /\ s.collectors = <<"browser-chromium">>
  /\ s.warmups = 0 /\ s.measured = 1

\* validate_target.
AcceptedHttp(s) ==
  /\ s.collectors = <<"http-curl">>
  /\ s.count \in 1..MaxRequests
  /\ s.endpoints \in 1..MaxEndpoints /\ s.endpoints <= s.count
  /\ s.count * (s.warmups + s.measured) <= MaxTransfers
  /\ s.warmups <= MaxHttpWarmups /\ s.measured <= MaxHttpBatches

AcceptedScenario(s) ==
  /\ s.warmups <= MaxWarmups
  /\ s.measured \in 1..MaxMeasured
  /\ s.collectors # <<>>
  /\ s.target = "command" => AcceptedCommand(s)
  /\ s.target = "browser" => AcceptedBrowser(s)
  /\ s.target = "http" => AcceptedHttp(s)
=============================================================================
