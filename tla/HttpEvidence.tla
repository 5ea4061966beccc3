---------------------------- MODULE HttpEvidence ----------------------------
(***************************************************************************)
(* The documents of an HTTP capture (src/http_workload.rs): what           *)
(* capture_batch accepts of curl's output, the evidence capture_http       *)
(* builds of it, the metrics derived from that, and validate_evidence,     *)
(* which a bundle's readers run.                                           *)
(*                                                                         *)
(* A transfer is as declared, has another status, fails in curl, or is     *)
(* reported with a figure beyond its limit: a status, an exit code, a size *)
(* or a time.  Of a batch there is only whether it took more than a second *)
(* longer than its timeout.  The concurrency, the timeout of a request,    *)
(* and the version and digest of the collector are copied and left out.    *)
(***************************************************************************)
EXTENDS Scenario, FiniteSets

Results == {"expected", "otherStatus", "curlFailed"}
Reported == Results \cup {"excessive"}

\* A line curl writes for a transfer; indices count from zero.
LinesFor(count) == [index : 0..count, result : Reported]
Outputs(count) == UNION {[1..n -> LinesFor(count)] : n \in 0..count + 1}

Indices(lines) == {line.index : line \in ToSet(lines)}

\* The lines by index, when every index below their number is there once.
Sorted(lines) ==
  [i \in 1..Len(lines) |-> CHOOSE line \in ToSet(lines) : line.index = i - 1]

\* Exactly the declared transfers, each within the limits, and no failure of curl but
\* those of transfers.
Accepted(lines, count, exit) ==
  /\ \A line \in ToSet(lines) : line.result \in Results
  /\ Len(lines) = count /\ Indices(lines) = 0..count - 1
  /\ exit = "ok" \/ \E line \in ToSet(lines) : line.result = "curlFailed"

\* The samples capture_batch returns.
BatchSamples(lines, iteration, endpoints) ==
  LET sorted == Sorted(lines)
  IN [i \in 1..Len(lines) |->
        [iteration |-> iteration, index |-> sorted[i].index, endpoint |-> sorted[i].index % endpoints,
         result |-> sorted[i].result, succeeded |-> sorted[i].result = "expected"]]

EvidenceOf(scenario, batches, samples) ==
  [count |-> scenario.count, batches |-> batches, samples |-> samples]

\* The metrics are determined by the durations and successes; throughput by the batches.
MetricsFromEvidence(e) ==
  [samples |-> [i \in 1..Len(e.samples) |->
                  [iteration |-> i, succeeded |-> e.samples[i].succeeded]],
   batches |-> Len(e.batches)]

\* The bounds of a scenario, which validate_evidence checks once more.
WithinBounds(scenario) ==
  /\ scenario.target = "http" /\ scenario.collectors = <<"http-curl">>
  /\ scenario.count \in 1..MaxRequests
  /\ scenario.endpoints \in 1..MaxEndpoints /\ scenario.endpoints <= scenario.count
  /\ scenario.measured \in 1..MaxHttpBatches /\ scenario.warmups <= MaxHttpWarmups
  /\ (scenario.measured + scenario.warmups) * scenario.count <= MaxTransfers

\* Whether validate_evidence accepts it.
ValidEvidenceUnordered(scenario, e, metrics) ==
  /\ WithinBounds(scenario)
  /\ e.count = scenario.count
  /\ Len(e.batches) = scenario.measured
  /\ Len(e.samples) = scenario.measured * scenario.count
  /\ \A i \in 1..Len(e.batches) : e.batches[i].iteration = i - 1 /\ ~e.batches[i].late
  /\ \A i \in 1..Len(e.samples) :
       LET s == e.samples[i]
       IN /\ s.iteration = (i - 1) \div scenario.count
          /\ s.endpoint = s.index % scenario.endpoints
          /\ s.result \in Results
          /\ s.succeeded <=> s.result = "expected"
  /\ MetricsFromEvidence(e) = metrics

ValidEvidence(scenario, e, metrics) ==
  /\ WithinBounds(scenario)
  /\ e.count = scenario.count
  /\ Len(e.batches) = scenario.measured
  /\ Len(e.samples) = scenario.measured * scenario.count
  /\ \A i \in 1..Len(e.batches) : e.batches[i].iteration = i - 1 /\ ~e.batches[i].late
  /\ \A i \in 1..Len(e.samples) :
       LET s == e.samples[i]
       IN /\ s.iteration = (i - 1) \div scenario.count
          /\ s.index = (i - 1) % scenario.count
          /\ s.endpoint = s.index % scenario.endpoints
          /\ s.result \in Results
          /\ s.succeeded <=> s.result = "expected"
  /\ MetricsFromEvidence(e) = metrics
-----------------------------------------------------------------------------
(* What must hold. *)

\* The evidence of transfers with the given results, batch by batch.
EvidenceOfTransfers(scenario, results) ==
  EvidenceOf(scenario,
    [i \in 1..scenario.measured |-> [iteration |-> i - 1, late |-> FALSE]],
    FlattenSeq([i \in 1..scenario.measured |->
      BatchSamples([j \in 1..scenario.count |-> [index |-> j - 1, result |-> results[<<i, j>>]]],
                   i - 1, scenario.endpoints)]))

\* Evidence that some run of the workload would have produced.
Producible(scenario, e) ==
  \E results \in [(1..scenario.measured) \X (1..scenario.count) -> Results] :
    e = EvidenceOfTransfers(scenario, results)

\* Samples after an edit of one of them, or of their order.
Revised(samples, all) ==
  LET at == 1..Len(samples)
  IN {[samples EXCEPT ![i] = s] : i \in at, s \in all}
     \cup {RemoveAt(samples, i) : i \in at}
     \cup {Append(samples, samples[i]) : i \in at}
     \cup {[samples EXCEPT ![i] = samples[j], ![j] = samples[i]] : i, j \in at}

Revisions(scenario, e) ==
  LET all == [iteration : 0..scenario.measured, index : 0..scenario.count,
              endpoint : 0..scenario.endpoints - 1, result : Reported, succeeded : BOOLEAN]
  IN {[e EXCEPT !.samples = revised] : revised \in Revised(e.samples, all)}
=============================================================================
