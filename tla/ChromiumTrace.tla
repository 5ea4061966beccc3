--------------------------- MODULE ChromiumTrace ---------------------------
(***************************************************************************)
(* summarize_complete_events (src/chromium_trace.rs): one pass over the    *)
(* complete events of the renderer's main thread, sorted by start and then *)
(* by falling duration.  A stack of enclosing events decides which events  *)
(* are top-level tasks and which path an event is counted under; the       *)
(* retained long tasks and the distinct paths are bounded while the pass   *)
(* runs, and the reported paths once more at its end.                      *)
(*                                                                         *)
(* Events may overlap without nesting, share endpoints and have no         *)
(* duration.  An event's name stands for its name and category, and so for *)
(* the runtime kind derived from them.  Boundary markers are left out.     *)
(***************************************************************************)
EXTENDS Naturals, Sequences, SequencesExt

CONSTANTS
  Names,           \* event names
  MaxEvents,       \* bounds the number of events in a trace
  MaxTime,         \* bounds their end
  LongTask,        \* LONG_TASK_THRESHOLD_US
  MaxLongTasks,    \* MAX_LONG_TASKS
  MaxDepth,        \* MAX_HOT_PATH_DEPTH
  MaxUniquePaths,  \* MAX_UNIQUE_HOT_PATHS
  MaxPaths         \* MAX_HOT_PATHS

ASSUME TraceAssumption ==
  /\ MaxEvents \in Nat /\ MaxTime \in Nat /\ LongTask \in Nat
  /\ MaxLongTasks \in Nat /\ MaxUniquePaths \in Nat /\ MaxPaths \in Nat
  /\ MaxDepth \in Nat \ {0}

VARIABLES
  events,        \* the sorted complete events
  index,         \* how many of them the loop has handled
  stack,         \* the indices of the events that enclose the next one
  parent,        \* for each handled event, the event it was framed under, or 0
  longTasks,     \* the retained long top-level tasks
  topLevel,      \* the count and total duration of the top-level tasks
  long,          \* the count, total and longest duration of the long ones of them
  runtime,       \* runtime_aggregates
  paths,         \* hot_path_aggregates
  depthTruncated,\* hot_path_depth_truncated
  pathsTruncated,\* hot_paths_truncated
  reported       \* the paths of the finished summary, {} before

tasks == <<longTasks, topLevel, long, runtime>>
vars == <<events, index, stack, parent, tasks, paths, depthTruncated, pathsTruncated, reported>>

Event == {e \in [start : 0..MaxTime, end : 0..MaxTime, name : Names] : e.start <= e.end}
Duration(e) == e.end - e.start

\* The comparator of analyze_chromium_trace_bytes, up to the order of names.
Before(e, f) ==
  e.start < f.start \/ (e.start = f.start /\ Duration(e) >= Duration(f))

Sorted(s) == \A i \in 1..Len(s) - 1 : Before(s[i], s[i + 1])

Traces == {s \in UNION {[1..n -> Event] : n \in 0..MaxEvents} : Sorted(s)}

NoAggregate == [total |-> 0, longest |-> 0, occurrences |-> 0]

Init ==
  /\ events \in Traces
  /\ index = 0 /\ stack = <<>> /\ parent = <<>>
  /\ longTasks = {} /\ topLevel = NoAggregate /\ long = NoAggregate
  /\ runtime = [n \in Names |-> NoAggregate]
  /\ paths = [p \in {} |-> NoAggregate]
  /\ depthTruncated = FALSE /\ pathsTruncated = FALSE
  /\ reported = {}
-----------------------------------------------------------------------------
(* One round of the loop. *)

\* The parent is left on the stack: it has not ended when the event starts, and
\* the event ends with it or before.
Encloses(p, e) == e.start < p.end /\ e.end <= p.end

\* The loop without its second exit: every event that is still running encloses.
EnclosingRunning(e) ==
  SubSeq(stack, 1, Max({0} \cup {k \in 1..Len(stack) : e.start < events[stack[k]].end}))

\* Only the direct parent is kept.
\* The while loop pops from the top up to the first event that encloses e.
Enclosing(e) ==
  SubSeq(stack, 1, Max({0} \cup {k \in 1..Len(stack) : Encloses(events[stack[k]], e)}))

\* retain_long_task: the order of the retained tasks, and the ones kept of them.
Longer(i, j) ==
  \/ Duration(events[i]) > Duration(events[j])
  \/ Duration(events[i]) = Duration(events[j]) /\ i < j

RetainFirst(set) == {i \in set : Cardinality({j \in set : j < i}) < MaxLongTasks}

Retain(set) == {i \in set : Cardinality({j \in set : Longer(j, i)}) < MaxLongTasks}

\* The names of the enclosing events and of the event itself.
FullPath(enclosing, i) == [k \in 1..Len(enclosing) + 1 |->
                             events[IF k <= Len(enclosing) THEN enclosing[k] ELSE i].name]

\* The innermost MaxDepth of them are kept.
Path(full) ==
  SubSeq(full, IF Len(full) > MaxDepth THEN Len(full) - MaxDepth + 1 ELSE 1, Len(full))

Add(a, d) == [a EXCEPT !.total = @ + d, !.occurrences = @ + 1]

\* update_aggregate.
Update(a, d) == [Add(a, d) EXCEPT !.longest = Max({@, d})]

CountPath(path, d) ==
  IF path \in DOMAIN paths \/ Cardinality(DOMAIN paths) < MaxUniquePaths
    THEN /\ paths' = [p \in DOMAIN paths \cup {path} |->
                        LET a == IF p \in DOMAIN paths THEN paths[p] ELSE NoAggregate
                        IN IF p = path THEN Update(a, d) ELSE a]
         /\ UNCHANGED pathsTruncated
    ELSE pathsTruncated' = TRUE /\ UNCHANGED paths

HandleEvent ==
  /\ index < Len(events)
  /\ LET i == index + 1
         e == events[i]
         d == Duration(e)
         enclosing == Enclosing(e)
         full == FullPath(enclosing, i)
         top == enclosing = <<>>
         isLong == top /\ d >= LongTask
     IN /\ index' = i
        /\ stack' = Append(enclosing, i)
        /\ parent' = Append(parent, IF top THEN 0 ELSE enclosing[Len(enclosing)])
        /\ topLevel' = IF top THEN Add(topLevel, d) ELSE topLevel
        /\ long' = IF isLong THEN Update(long, d) ELSE long
        /\ longTasks' = IF isLong THEN Retain(longTasks \cup {i}) ELSE longTasks
        /\ runtime' = [runtime EXCEPT ![e.name] = Add(@, d)]
        /\ depthTruncated' = (depthTruncated \/ Len(full) > MaxDepth)
        /\ CountPath(Path(full), d)
  /\ UNCHANGED <<events, reported>>
-----------------------------------------------------------------------------
(* The end of the pass: the paths are sorted and the first MaxPaths kept. *)

\* The order of hot_paths; paths that tie in both sums are told apart by their
\* frames, here by any fixed order.
Heavier(p, q) ==
  \/ paths[p].total > paths[q].total
  \/ paths[p].total = paths[q].total /\ paths[p].longest > paths[q].longest

Reports(set) ==
  /\ set \subseteq DOMAIN paths
  /\ Cardinality(set) = Min({MaxPaths, Cardinality(DOMAIN paths)})
  /\ \A p \in set, q \in DOMAIN paths \ set : ~Heavier(q, p)

FinishSilently ==
  /\ index = Len(events) /\ reported = {} /\ DOMAIN paths # {}
  /\ reported' \in {set \in SUBSET DOMAIN paths : Reports(set)}
  /\ UNCHANGED <<events, index, stack, parent, tasks, paths, depthTruncated, pathsTruncated>>

Finish ==
  /\ index = Len(events) /\ reported = {} /\ DOMAIN paths # {}
  /\ reported' \in {set \in SUBSET DOMAIN paths : Reports(set)}
  /\ pathsTruncated' = (pathsTruncated \/ Cardinality(DOMAIN paths) > MaxPaths)
  /\ UNCHANGED <<events, index, stack, parent, tasks, paths, depthTruncated>>

Next == HandleEvent \/ Finish

Spec == Init /\ [][Next]_vars
-----------------------------------------------------------------------------
(* What must hold. *)

TopLevel == {i \in 1..index : parent[i] = 0}

\* The stack finds what a search over all earlier events would: an event is
\* framed under the latest of them that encloses it, also after events that
\* overlap without nesting were popped, and it is top-level when none does.
FramedUnderInnermost ==
  \A i \in 1..index :
    parent[i] = Max({0} \cup {j \in 1..i - 1 : Encloses(events[j], events[i])})

\* The bounded list of long tasks, cut while the events go by, holds the longest
\* of all long top-level tasks, and the counters tell when there are more and how
\* long the longest was.
LongTasksAreTheLongest ==
  LET all == {i \in TopLevel : Duration(events[i]) >= LongTask}
  IN /\ longTasks \subseteq all /\ long.occurrences = Cardinality(all)
     /\ Cardinality(longTasks) = Min({MaxLongTasks, long.occurrences})
     /\ \A i \in longTasks, j \in all \ longTasks : Longer(i, j)
     /\ longTasks # {} => long.longest = Max({Duration(events[i]) : i \in longTasks})

\* For each event, the names of the events it was framed under, outermost first, and
\* its own.
Ancestry ==
  LET names[i \in 0..index] ==
        IF i = 0 THEN <<>> ELSE Append(names[parent[i]], events[i].name)
  IN names

Under(ancestry, p) ==
  {i \in 1..index : /\ IsSuffix(p, ancestry[i])
                    /\ Len(p) = Min({Len(ancestry[i]), MaxDepth})}

TimeOf(set) ==
  LET sum[i \in 0..index] ==
        IF i = 0 THEN 0 ELSE sum[i - 1] + (IF i \in set THEN Duration(events[i]) ELSE 0)
  IN sum[index]

\* A summary tells what it lacks.  A reported path has the time of exactly the events
\* whose innermost ancestors are its frames, also when the table was full meanwhile;
\* unless paths are marked truncated every event is under one; and the depth is marked
\* as cut exactly when some event has too many ancestors.
TruncationIsReported ==
  LET ancestry == Ancestry
      under(p) == Under(ancestry, p)
  IN /\ \A p \in reported :
          /\ paths[p].occurrences = Cardinality(under(p))
          /\ paths[p].total = TimeOf(under(p))
     /\ reported # {} /\ ~pathsTruncated => UNION {under(p) : p \in reported} = DOMAIN events
     /\ depthTruncated <=> \E i \in 1..index : Len(ancestry[i]) > MaxDepth
=============================================================================
