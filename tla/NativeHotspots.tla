--------------------------- MODULE NativeHotspots ---------------------------
(***************************************************************************)
(* What src/native_perf.rs makes of the two reports of perf: the table of  *)
(* hotspots and the call paths attached to them.                           *)
(*                                                                         *)
(* A recording is what perf recorded: groups of samples that share a call  *)
(* stack and a source place.  The flat report has a row for each group,    *)
(* of which the code adds up equal ones, and the folded report a line.     *)
(* Symbols and places are numbers in the order of their text.  Sums are    *)
(* far below 2^64, where the code saturates; the confidence of a hotspot   *)
(* and the texts are left out.                                             *)
(***************************************************************************)
EXTENDS Naturals, Sequences, FiniteSets, SequencesExt

CONSTANTS
  Symbols,             \* names of functions
  Separated,           \* those with a semicolon in them, as in [T; N]
  MaxDepth,            \* bounds the recorded stacks
  Costs,               \* <<samples, weight>> of a group
  MaxGroups,           \* bounds the groups of a recording
  MaxHotspots,         \* MAX_HOTSPOTS
  MaxPaths,            \* MAX_CALL_PATHS_TOTAL
  MaxPathsPerHotspot,  \* MAX_CALL_PATHS_PER_HOTSPOT
  MaxFrames            \* MAX_CALL_PATH_FRAMES

ASSUME SymbolsAssumption == Symbols \subseteq Nat /\ Separated \subseteq Symbols
ASSUME CostsAssumption == Costs \subseteq (Nat \ {0}) \X Nat
ASSUME HotspotLimits ==
  /\ MaxDepth \in Nat /\ MaxGroups \in Nat /\ MaxHotspots \in Nat \ {0}
  /\ MaxPaths \in Nat /\ MaxPathsPerHotspot \in Nat \ {0} /\ MaxFrames \in Nat

\* Where perf saw a sample: in a file below the scenario's directory, given by its
\* absolute or its relative path; in one of two files elsewhere that have one name; at a
\* path with "..", or nowhere.  What is in a file is at one line, all in one object.
Places == {"absolute", "relative", "outside", "namesake", "above", "unknown"}
Stacks == UNION {[1..n -> Symbols] : n \in 1..MaxDepth}
Groups == [stack : Stacks, place : Places, cost : Costs]

\* Caller first; the last one is the leaf.
LeafOf(g) == g.stack[Len(g.stack)]
SameOrigin(g, h) == g.stack = h.stack /\ g.place = h.place

Recordings ==
  {r \in {ToSet(groups) : groups \in UNION {[1..n -> Groups] : n \in 0..MaxGroups}} :
     \A g, h \in r : SameOrigin(g, h) => g = h}

SamplesOf(groups) == MapThenSumSet(LAMBDA g : g.cost[1], groups)
WeightOf(groups) == MapThenSumSet(LAMBDA g : g.cost[2], groups)
-----------------------------------------------------------------------------
(* parse_perf_report. *)

\* normalize_source_location: of a file elsewhere the name is left, of a path with ".." only
\* the line; no file is before every file, and no line before every line.
Normalized(place) ==
  CASE place = "unknown" -> 0
    [] place = "above" -> 1
    [] place \in {"absolute", "relative"} -> 2
    [] OTHER -> 3

KeyUnnormalized(g) ==
  <<LeafOf(g), CASE g.place = "unknown" -> 0 [] g.place = "relative" -> 1 [] OTHER -> 2>>

\* The HotspotKey of a row.
Key(g) == <<LeafOf(g), Normalized(g.place)>>
RowsOf(r, key) == {g \in r : Key(g) = key}

\* sort_by: each element after those that come before it.
InOrder(set, order) ==
  [i \in 1..Cardinality(set) |->
     CHOOSE x \in set : Cardinality({y \in set : <<y, x>> \in order}) = i - 1]

\* The order of the table: by weight, then by key.
KeyBefore(k, l) == k[1] < l[1] \/ (k[1] = l[1] /\ k[2] < l[2])

HeavierHotspot(a, b) ==
  a.weight > b.weight \/ (a.weight = b.weight /\ KeyBefore(a.key, b.key))

HotspotTable(r) ==
  LET rows == {[key |-> k, weight |-> WeightOf(RowsOf(r, k)), samples |-> SamplesOf(RowsOf(r, k))] :
                 k \in {Key(g) : g \in r}}
  IN InOrder(rows, {p \in rows \X rows : HeavierHotspot(p[1], p[2])})

Cut(s, n) == SubSeq(s, 1, IF Len(s) < n THEN Len(s) ELSE n)
-----------------------------------------------------------------------------
(* parse_folded_call_paths. *)

\* A name with a semicolon is split into two frames.
Pieces(symbol) ==
  IF symbol \in Separated THEN <<<<symbol, 1>>, <<symbol, 2>>>> ELSE <<<<symbol, 0>>>>
Frames(g) == FlattenSeq([i \in 1..Len(g.stack) |-> Pieces(g.stack[i])])

\* A line is a path when it has a semicolon.
Folded(r) == {Frames(g) : g \in {h \in r : Len(Frames(h)) > 1}}

\* perf also prints a line of the histogram for each symbol, which is not a path, but is
\* taken for one, without a sample count, when the name has a semicolon.
RefusesPaths(r) ==
  \/ \E g \in r : LeafOf(g) \in Separated
  \/ \E frames \in Folded(r) : Len(frames) > MaxFrames
  \/ Cardinality(Folded(r)) > MaxPaths

FramesBefore(s, t) ==
  \E i \in 1..Len(t) :
    /\ \A j \in 1..i - 1 : j <= Len(s) /\ s[j] = t[j]
    /\ IF i > Len(s) THEN TRUE ELSE KeyBefore(s[i], t[i])

MoreSampled(p, q) ==
  p.samples > q.samples \/ (p.samples = q.samples /\ FramesBefore(p.frames, q.frames))

\* The paths of a leaf, most sampled first.
PathTable(r, leaf) ==
  LET paths == {[frames |-> f, samples |-> SamplesOf({g \in r : Frames(g) = f})] :
                  f \in {h \in Folded(r) : h[Len(h)] = <<leaf, 0>>}}
  IN InOrder(paths, {p \in paths \X paths : MoreSampled(p[1], p[2])})
-----------------------------------------------------------------------------
(* The document. *)

NotCollected == [collected |-> FALSE, weight |-> 0, samples |-> 0,
                 truncated |-> FALSE, hotspots |-> <<>>]

\* attach_call_paths: every hotspot of a symbol gets the symbol's paths.
Attached(h, r) ==
  LET paths == PathTable(r, h.key[1])
  IN [key |-> h.key, weight |-> h.weight, samples |-> h.samples,
      paths |-> Cut(paths, MaxPathsPerHotspot),
      pathsTruncated |-> Len(paths) > MaxPathsPerHotspot]

HotspotsOf(r) ==
  LET kept == Cut(HotspotTable(r), MaxHotspots)
  IN [collected |-> TRUE,
      weight |-> WeightOf(r), samples |-> SamplesOf(r),
      truncated |-> Len(HotspotTable(r)) > MaxHotspots,
      hotspots |-> [i \in 1..Len(kept) |-> Attached(kept[i], r)]]
-----------------------------------------------------------------------------
(* What must hold of it, in terms of what was recorded. *)

\* What the document can say of a place: nothing, that there is a line, the path of a file
\* of the scenario, or the name of another.
Said == [unknown |-> 0, above |-> 1, absolute |-> 2, relative |-> 2, outside |-> 3, namesake |-> 3]

\* The samples of a function at a place, however perf names the place.
At(r, h) == {g \in r : LeafOf(g) = h.key[1] /\ Said[g.place] = h.key[2]}

\* Every group is under exactly one hotspot unless hotspots were cut, which is
\* reported; a hotspot's numbers are those of its groups, and none that was cut
\* is heavier than one that was kept.
TableAccountsFor(d, r) ==
  LET kept == ToSet(d.hotspots)
      lost == {g \in r : \A h \in kept : g \notin At(r, h)}
  IN /\ Cardinality(kept) = Len(d.hotspots)
     /\ \A h, i \in kept : h # i => At(r, h) \cap At(r, i) = {}
     /\ \A h \in kept : h.weight = WeightOf(At(r, h)) /\ h.samples = SamplesOf(At(r, h))
     /\ d.samples = SamplesOf(r) /\ d.weight = WeightOf(r)
     /\ d.truncated <=> lost # {}
     /\ \A g \in lost, h \in kept :
          WeightOf({x \in lost : LeafOf(x) = LeafOf(g) /\ Said[x.place] = Said[g.place]})
            <= h.weight

\* The paths of a hotspot are recorded stacks that end in its symbol, with their
\* samples at any place; the ones cut have no more samples than those kept.
PathsAccountFor(d, r) ==
  \A h \in ToSet(d.hotspots) :
    LET ending == {g \in r : LeafOf(g) = h.key[1] /\ Len(g.stack) > 1}
        of(p) == {g \in ending : Frames(g) = p.frames}
        shown == UNION {of(p) : p \in ToSet(h.paths)}
    IN /\ \A p \in ToSet(h.paths) : of(p) # {} /\ p.samples = SamplesOf(of(p))
       /\ h.pathsTruncated <=> shown # ending
       /\ \A g \in ending \ shown, p \in ToSet(h.paths) :
            SamplesOf({x \in ending : x.stack = g.stack}) <= p.samples
=============================================================================
