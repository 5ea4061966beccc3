----------------------------- MODULE Comparison -----------------------------
(***************************************************************************)
(* What a comparison computes of two validated bundles: score_metrics      *)
(* (src/score.rs) and assess_recorded_identity (src/hotspot_compare.rs;    *)
(* src/browser_compare_v1.rs does the same with other fields).             *)
(*                                                                         *)
(* A metrics document is a list of metrics, each an id and its statistics: *)
(* natural numbers here, the ratios exact where the code has doubles.  The *)
(* unit and the direction go with the id.                                  *)
(***************************************************************************)
EXTENDS Integers, Sequences, SequencesExt

CONSTANTS
  Values,      \* statistics
  MaxMetrics,  \* bounds the metrics of the two documents together
  Fields,      \* that hotspots are compared by; the manifest's are always recorded
  Manifest,    \* those of them
  Records      \* what is recorded in a field

ASSUME ValuesAssumption == Values \subseteq Nat /\ MaxMetrics \in Nat
ASSUME FieldsAssumption == Manifest \subseteq Fields /\ "unrecorded" \notin Records

\* Metrics are process.max_observed_rss ("observed"), its alias process.max_rss
\* ("legacy"), and a rate, of which more is better.
Lower(id) == id # "rate"

\* The statistics that are scored: the mean of a rate, else median and p95.
Metrics ==
  [id : {"rate"}, statistics : {<<v>> : v \in Values}] \cup
  [id : {"observed", "legacy"},
   statistics : {s \in Values \X Values : s[1] <= s[2]}]

Unrecorded == "unrecorded"
Identities == {f \in [Fields -> Records \cup {Unrecorded}] :
                 \A m \in Manifest : f[m] # Unrecorded}

VARIABLES
  reference, candidate,  \* the two bundles: metrics, recorded identity, HTTP collector
  score,                 \* of the comparison, Refused, or NoScore before
  status                 \* of the hotspots, "none" before

vars == <<reference, candidate, score, status>>
-----------------------------------------------------------------------------
(* score_metrics. *)

NoScore == -1
Refused == -2

Renamed(m) == IF m.id = "legacy" THEN [m EXCEPT !.id = "observed"] ELSE m

At(d, id) == {i \in DOMAIN d : d[i].id = id}
First(d, id) == d[CHOOSE i \in At(d, id) : \A j \in At(d, id) : i <= j]

\* The first alias must agree with the first of the metrics it stands for; further ones
\* are not looked at.
AliasDiffers(d) ==
  /\ At(d, "observed") # {} /\ At(d, "legacy") # {}
  /\ First(d, "observed").statistics # First(d, "legacy").statistics

\* Aliases are left out beside the metric, and renamed where there is none.
Kept(d) == {i \in DOMAIN d : At(d, "observed") # {} => d[i].id # "legacy"}
Repeats(d) == \E i, j \in Kept(d) : i # j /\ Renamed(d[i]).id = Renamed(d[j]).id
Unaliased(d) == {Renamed(d[i]) : i \in Kept(d)}

CanonicalKeepingAlias(d) ==
  IF AliasDiffers(d) \/ \E i, j \in DOMAIN d : i # j /\ d[i].id = d[j].id
    THEN {} ELSE {d[i] : i \in DOMAIN d}

\* canonical_metrics: one metric of an id, in a map by id.  No metrics are left of a
\* document that is refused.
Canonical(d) == IF AliasDiffers(d) \/ Repeats(d) THEN {} ELSE Unaliased(d)

\* Round half up, of a quotient of naturals.
Rounded(n, d) == (2 * n + d) \div (2 * d)

Average(s) ==
  LET sum[i \in 0..Len(s)] == IF i = 0 THEN 0 ELSE sum[i - 1] + s[i]
  IN Rounded(sum[Len(s)], Len(s))

RetentionZeroFirst(of, by, lower) ==
  IF of = by THEN 100
  ELSE LET n == IF lower THEN of ELSE by
           d == IF lower THEN by ELSE of
       IN IF n = 0 THEN 0 ELSE IF d = 0 THEN 0 ELSE IF n >= d THEN 100 ELSE Rounded(100 * n, d)

\* retention_score; a denominator of zero is a perfect candidate or a reference of
\* nothing.
Retention(of, by, lower) ==
  IF of = by THEN 100
  ELSE LET n == IF lower THEN of ELSE by
           d == IF lower THEN by ELSE of
       IN IF d = 0 \/ n >= d THEN 100 ELSE Rounded(100 * n, d)

MetricScore(m, n) ==
  Average([i \in 1..Len(m.statistics) |->
             Retention(m.statistics[i], n.statistics[i], Lower(m.id))])

IdsOf(d) == {m.id : m \in d}
MetricOf(d, id) == CHOOSE m \in d : m.id = id

Score(r, c) ==
  LET known == Canonical(r)
      new == Canonical(c)
  IN IF known = {} \/ new = {} \/ IdsOf(known) # IdsOf(new) THEN Refused
     ELSE LET ids == SetToSeq(IdsOf(known))
          IN Average([i \in 1..Len(ids) |->
                        MetricScore(MetricOf(known, ids[i]), MetricOf(new, ids[i]))])
-----------------------------------------------------------------------------
(* assess_recorded_identity. *)

Mismatches(f, g) == {x \in Fields : Unrecorded \notin {f[x], g[x]} /\ f[x] # g[x]}
Lacking(f, g) == {x \in Fields : Unrecorded \in {f[x], g[x]}}

AssessLackingFirst(f, g) ==
  IF Lacking(f, g) # {} THEN "insufficient"
  ELSE IF Mismatches(f, g) # {} THEN "incomparable" ELSE "comparable"

Assess(f, g) ==
  IF Mismatches(f, g) # {} THEN "incomparable"
  ELSE IF Lacking(f, g) # {} THEN "insufficient" ELSE "comparable"
-----------------------------------------------------------------------------
(* Two bundles of one kind with any metrics, or with any identities; then what the *)
(* commands answer.  A bundle without HTTP evidence has no HTTP collector recorded. *)

AnyIdentity == CHOOSE f \in Identities : TRUE
AnyMetric == CHOOSE m \in Metrics : m.id = "rate"

Init ==
  /\ \/ \E n \in 0..MaxMetrics : \E k \in 0..(MaxMetrics - n) :
          /\ reference \in [metrics : [1..n -> Metrics], identity : {AnyIdentity}, http : {Unrecorded}]
          /\ candidate \in [metrics : [1..k -> Metrics], identity : {AnyIdentity}, http : {Unrecorded}]
     \/ LET Bundles == [metrics : {<<AnyMetric>>}, identity : Identities,
                        http : Records \cup {Unrecorded}]
        IN reference \in Bundles /\ candidate \in Bundles
  /\ score = NoScore /\ status = "none"

\* score_bundles refuses bundles with different HTTP collectors, or only one of them with
\* HTTP evidence, and bundles whose manifests differ.
ScoreBundles ==
  /\ score = NoScore
  /\ score' = IF \/ reference.http # candidate.http
                 \/ \E m \in Manifest : reference.identity[m] # candidate.identity[m]
                THEN Refused ELSE Score(reference.metrics, candidate.metrics)
  /\ UNCHANGED <<reference, candidate, status>>

CompareHotspots ==
  /\ score # NoScore /\ status = "none"
  /\ status' = Assess(reference.identity, candidate.identity)
  /\ UNCHANGED <<reference, candidate, score>>

Next == ScoreBundles \/ CompareHotspots

Spec == Init /\ [][Next]_vars
-----------------------------------------------------------------------------
(* What must hold. *)

Scored == score \notin {NoScore, Refused}

\* The ways to write metrics, each once, with and without the alias: it stands for the
\* metric, or beside it, before or after all others.
Aliased(m) == IF m.id = "observed" THEN [m EXCEPT !.id = "legacy"] ELSE m
Presentations(metrics) ==
  LET s == SetToSeq(metrics)
  IN {s, [i \in DOMAIN s |-> Aliased(s[i])]} \cup
     UNION {{<<Aliased(m)>> \o s, Append(s, Aliased(m))} :
              m \in {x \in metrics : x.id = "observed"}}

\* "The alias is never double-weighted": a score is the same however each document
\* presents the metric, under one of its names or both, in any place.
AliasCarriesNoWeight ==
  Scored =>
    \A r \in Presentations(Unaliased(reference.metrics)),
       c \in Presentations(Unaliased(candidate.metrics)) : Score(r, c) = score

AtLeastAsGood(m, n) ==
  \A i \in 1..Len(m.statistics) :
    IF Lower(m.id) THEN m.statistics[i] <= n.statistics[i] ELSE m.statistics[i] >= n.statistics[i]

\* A score is one of a hundred.  A candidate that is better in one metric and the same in
\* all others never scores less, whatever the zeros, the caps and the three roundings do.
BetterNeverScoresLess ==
  Scored =>
    /\ score \in 0..100
    /\ \A m \in Unaliased(candidate.metrics), n \in Metrics :
         n.id = m.id /\ AtLeastAsGood(n, m) =>
           Score(reference.metrics, SetToSeq((Unaliased(candidate.metrics) \ {m}) \cup {n})) >= score

\* A record that is missing may have been anything.  Bundles are comparable when they
\* agree whatever it was, and incomparable when they differ whatever it was.
Completions(f) ==
  {g \in [Fields -> Records] : \A x \in Fields : f[x] # Unrecorded => g[x] = f[x]}
StatusIsCertain ==
  LET pairs == Completions(reference.identity) \X Completions(candidate.identity)
  IN /\ status = "comparable" <=> status # "none" /\ \A p \in pairs : p[1] = p[2]
     /\ status = "incomparable" <=> status # "none" /\ \A p \in pairs : p[1] # p[2]
=============================================================================
