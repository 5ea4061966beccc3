---------------------------- MODULE TraceSummary ----------------------------
(***************************************************************************)
(* analyze_chromium_trace_bytes (src/chromium_trace.rs): the complete      *)
(* events are sorted, the boundary endpoints paired (BoundaryPairing),     *)
(* and, unless that refuses the trace, the boundary markers counted in a   *)
(* bounded table and the complete events framed (ChromiumTrace).           *)
(*                                                                         *)
(* A marker is counted whether Chromium stored the measure as a complete   *)
(* event or as a pair of endpoints.                                        *)
(***************************************************************************)
EXTENDS ChromiumTrace, BoundaryPairing

CONSTANTS
  MaxUniqueMarkers,  \* MAX_UNIQUE_BOUNDARY_MARKERS
  MaxMarkers         \* MAX_BOUNDARY_MARKERS

ASSUME MarkersAssumption == MaxUniqueMarkers \in Nat /\ MaxMarkers \in Nat

VARIABLES
  phase,             \* "pair", "frame" or "reported"
  markers,           \* boundary_aggregates
  markersTruncated,  \* boundary_markers_truncated
  reportedMarkers    \* boundary_markers

boundary == <<markers, markersTruncated, reportedMarkers>>
summaryVars == <<vars, pairingVars, phase, boundary>>

\* The direction and label in the name of a measure; two identities share each.
Marker(k) == (k + 1) \div 2
Markers == {Marker(k) : k \in Keys}

SummaryInit ==
  /\ Init /\ PairingInit
  /\ phase = "pair"
  /\ markers = [m \in {} |-> NoAggregate] /\ markersTruncated = FALSE
  /\ reportedMarkers = {}

\* A trace has MaxEndpoints endpoints at most, two fewer for each complete event.
PairBoundaries ==
  /\ phase = "pair" /\ PairingNext
  /\ pc' = "record" => 2 * Len(events) + Max({1, Len(trace')}) <= MaxEndpoints
  /\ UNCHANGED <<vars, phase, boundary>>
-----------------------------------------------------------------------------
(* The first loop of summarize_complete_events. *)

\* events.iter().chain(boundary_pairs).
PairsOnly ==
  [i \in 1..Len(pairs) |-> [marker |-> Marker(pairs[i].key), duration |-> pairs[i].duration]]

Measures ==
  [i \in 1..Len(events) |-> [marker |-> events[i].name, duration |-> Duration(events[i])]]
  \o [i \in 1..Len(pairs) |-> [marker |-> Marker(pairs[i].key), duration |-> pairs[i].duration]]

\* The table of markers and whether a marker found no place in it; what has no marker
\* is passed over.
CountMarker(table, x) ==
  IF x.marker \in Markers
     /\ (x.marker \in DOMAIN table.of \/ Cardinality(DOMAIN table.of) < MaxUniqueMarkers)
    THEN [table EXCEPT !.of = [m \in DOMAIN @ \cup {x.marker} |->
            LET a == IF m \in DOMAIN @ THEN @[m] ELSE NoAggregate
            IN IF m = x.marker THEN Update(a, x.duration) ELSE a]]
    ELSE [table EXCEPT !.cut = @ \/ x.marker \in Markers]

CountMarkers ==
  /\ phase = "pair" /\ pc = "done"
  /\ LET table == FoldLeft(CountMarker, [of |-> markers, cut |-> FALSE], Measures)
     IN markers' = table.of /\ markersTruncated' = table.cut
  /\ phase' = "frame"
  /\ UNCHANGED <<vars, pairingVars, reportedMarkers>>

FrameEvents ==
  /\ phase = "frame" /\ Next
  /\ UNCHANGED <<pairingVars, phase, boundary>>

\* The markers with the largest totals, in the order of their labels where they tie.
LargerMarker(m, n) ==
  \/ markers[m].total > markers[n].total
  \/ markers[m].total = markers[n].total /\ m < n

ReportMarkers ==
  /\ phase = "frame" /\ index = Len(events) /\ (reported # {} \/ DOMAIN paths = {})
  /\ reportedMarkers' =
       {m \in DOMAIN markers :
          Cardinality({n \in DOMAIN markers : LargerMarker(n, m)}) < MaxMarkers}
  /\ markersTruncated' = (markersTruncated \/ Cardinality(DOMAIN markers) > MaxMarkers)
  /\ phase' = "reported"
  /\ UNCHANGED <<vars, pairingVars, markers>>

SummaryNext == PairBoundaries \/ CountMarkers \/ FrameEvents \/ ReportMarkers

SummarySpec == SummaryInit /\ [][SummaryNext]_summaryVars
-----------------------------------------------------------------------------
(* What must hold. *)

Spent(m) ==
  FoldLeft(LAMBDA sum, s : IF Marker(s.key) = m THEN sum + s.duration ELSE sum, 0, truth)
  + FoldLeft(LAMBDA sum, e : IF e.name = m THEN sum + Duration(e) ELSE sum, 0, events)

Uses(m) == (\E s \in ToSet(truth) : Marker(s.key) = m) \/ (\E e \in ToSet(events) : e.name = m)

\* A summary whose boundary markers are not marked truncated reports every marker the
\* application used, with the time it spent in its sections, however they nested,
\* touched or were stored.  When it is marked, what it reports is still right for
\* every marker that is in it, and what the cut at the end dropped is not larger.
MarkersAccountForSections ==
  phase = "reported" =>
    /\ ~markersTruncated => \A m \in Markers : Uses(m) => m \in reportedMarkers
    /\ \A m \in reportedMarkers :
         /\ markers[m].total = Spent(m)
         /\ \A n \in DOMAIN markers \ reportedMarkers : Spent(m) >= Spent(n)
=============================================================================
