---------------------------- MODULE ScoreHistory ----------------------------
(***************************************************************************)
(* The published score history: workflow runs measure a commit of main     *)
(* against its parent, append an entry to history.json and push it to the  *)
(* score-history branch (.github/workflows/score-history.yml and           *)
(* scripts/append-score-history.mjs); the score page charts what the       *)
(* branch holds (site/score/model.ts).                                     *)
(*                                                                         *)
(* Runs are queued by GitHub in one concurrency group: one runs, one       *)
(* waits, and a later request takes the waiting one's place.  A run may    *)
(* end without a result at any step.  A commit's number is its time, no    *)
(* two were made at one; what varies is the time zone it was made in.      *)
(* Scores and metrics are left out.                                        *)
(***************************************************************************)
EXTENDS Integers, SequencesExt

CONSTANTS
  Commits,      \* bounds the repository: its last commit
  Offsets,      \* offsets from UTC of the committers' clocks
  Workloads,    \* digests of the measured workload
  Scenarios,    \* digests of the scenario file
  Retention,    \* SCORE_HISTORY_RETENTION
  MaxRequests,  \* bounds the pushes and the manual runs
  Null          \* a missing digest

ASSUME CommitsAssumption == Commits \in Nat /\ MaxRequests \in Nat
ASSUME RetentionAssumption == Retention \in Nat \ {0}
ASSUME OffsetsAssumption == Offsets \subseteq Nat
ASSUME NullAssumption == Null \notin Workloads /\ Null \notin Scenarios

VARIABLES
  made,       \* for each commit: its committer's offset, and its files
  pushed,     \* the last commit pushed to main
  requests,   \* runs requested so far
  requested,  \* the commit of the last request, 0 before the first
  pending,    \* the commit of the waiting run, or 0
  running,    \* the commit of the running one, or 0
  step,       \* the step it is at
  measured,   \* its steps.measurement.outputs.status, as a BOOLEAN
  local,      \* its copy of history.json
  failed,     \* history: commits whose last run ended without publishing
  branch      \* history.json on the score-history branch, <<>> before the first

source == <<made, pushed>>
queue  == <<requests, requested, pending, failed>>
job    == <<running, step, measured, local>>
vars   == <<source, queue, job, branch>>

Numbers == 1..Commits
Sources == [offset : Offsets, workload : Workloads, scenario : Scenarios]

\* An entry from before digests were recorded.
Legacy == [commit |-> 0, scored |-> TRUE, workload |-> Null, scenario |-> Null]

Init ==
  /\ made \in [Numbers -> Sources]
  /\ pushed = 0
  /\ requests = 0 /\ requested = 0 /\ pending = 0
  /\ running = 0 /\ step = "idle" /\ measured = FALSE /\ local = <<>> /\ failed = {}
  /\ branch \in {<<>>, <<Legacy>>}
-----------------------------------------------------------------------------
(* Requests: a push to main, or a manual run of any branch. *)

\* GitHub drops the new request when one waits already.
EnqueueFirst(c) ==
  /\ pending' = IF pending = 0 THEN c ELSE pending
  /\ requests' = requests + 1 /\ requested' = c /\ failed' = failed \ {c}

\* cancel-in-progress: false; the waiting run is replaced.
Enqueue(c) ==
  /\ pending' = c
  /\ requests' = requests + 1 /\ requested' = c /\ failed' = failed \ {c}

Push ==
  /\ pushed < Commits /\ requests < MaxRequests
  /\ pushed' \in (pushed + 1)..Commits
  /\ Enqueue(pushed')
  /\ UNCHANGED <<made, job, branch>>

\* workflow_dispatch, which also a commit that is not on main, or not yet, can be given.
RunAgain(c) ==
  /\ requests < MaxRequests
  /\ Enqueue(c)
  /\ UNCHANGED <<source, job, branch>>

StartRun ==
  /\ running = 0 /\ pending # 0
  /\ running' = pending /\ pending' = 0
  /\ step' = "measure"
  /\ UNCHANGED <<source, requests, requested, failed, measured, local, branch>>
-----------------------------------------------------------------------------
(* The steps of a run. *)

\* Building, capturing and scoring both revisions; a failure of any is a result.
Measure ==
  /\ step = "measure"
  /\ measured' \in BOOLEAN
  /\ step' = "ensure"
  /\ UNCHANGED <<source, queue, running, local, branch>>

\* A new branch has no history.json.
EnsureFreshBranch ==
  /\ step = "ensure"
  /\ branch' = <<>>
  /\ step' = "checkout"
  /\ UNCHANGED <<source, queue, running, measured, local>>

EnsureBranch ==
  /\ step = "ensure"
  /\ step' = "checkout"
  /\ UNCHANGED <<source, queue, running, measured, local, branch>>

CheckoutBranch ==
  /\ step = "checkout"
  /\ local' = branch
  /\ step' = "append"
  /\ UNCHANGED <<source, queue, running, measured, branch>>

\* localeCompare of two %cI timestamps: by the committer's wall clock, and then by
\* the offset written after it.
Offset(c) == IF c = 0 THEN 0 ELSE made[c].offset
Earlier(x, y) ==
  LET wall(c) == c + Offset(c)
  IN \/ wall(x.commit) < wall(y.commit)
     \/ wall(x.commit) = wall(y.commit) /\ Offset(x.commit) < Offset(y.commit)

LastOf(s, n) == SubSeq(s, IF Len(s) > n THEN Len(s) - n + 1 ELSE 1, Len(s))

\* The sorted sequences of a set of entries: one, unless two are of the same commit.
Chronological(set) ==
  {h \in [1..Cardinality(set) -> set] :
     \A i, j \in DOMAIN h : i < j => h[i] # h[j] /\ ~Earlier(h[j], h[i])}

\* appendRuntimeScoreHistory: filter, concat, sort and slice.
AppendedAgain(history, entry) ==
  {LastOf(h, Retention) : h \in Chronological(ToSet(history) \cup {entry})}

Others(history, entry) == {e \in ToSet(history) : e.commit # entry.commit}

Appended(history, entry) ==
  {LastOf(h, Retention) : h \in Chronological(Others(history, entry) \cup {entry})}

\* The scenario digest comes with the score; the workload digest does not.
Entry(c, ok) ==
  [commit |-> c, scored |-> ok, workload |-> made[c].workload,
   scenario |-> IF ok THEN made[c].scenario ELSE Null]

AppendSnapshot ==
  /\ step = "append"
  /\ local' \in Appended(local, Entry(running, measured))
  /\ step' = "publish"
  /\ UNCHANGED <<source, queue, running, measured, branch>>

\* The next run finds a clean runner.
Leave == running' = 0 /\ step' = "idle" /\ measured' = FALSE /\ local' = <<>>

PublishBranch ==
  /\ step = "publish"
  /\ branch' = local
  /\ Leave
  /\ UNCHANGED <<source, queue>>

JobStep ==
  \/ StartRun \/ Measure \/ EnsureBranch \/ CheckoutBranch \/ AppendSnapshot
  \/ PublishBranch

\* The 20 minutes are over, a step fails, or someone cancels the run.
Abandon ==
  /\ running # 0
  /\ failed' = IF pending = running THEN failed ELSE failed \cup {running}
  /\ Leave
  /\ UNCHANGED <<source, requests, requested, pending, branch>>

Next == Push \/ (\E c \in Numbers : RunAgain(c)) \/ JobStep \/ Abandon

Spec == Init /\ [][Next]_vars

\* GitHub starts waiting runs, and a run goes on or is abandoned.
FairSpec == Spec /\ WF_vars(JobStep)
-----------------------------------------------------------------------------
(* The score page: currentWorkloadEntries and chartPoints, as positions. *)

LatestEntry == Last(branch)

\* The latest entry's scenario, or that of the last entry with its workload that
\* has one.
ScenarioOf(history) ==
  LET latest == Last(history)
      known == {i \in 1..Len(history) :
                  history[i].workload = latest.workload /\ history[i].scenario # Null}
  IN IF latest.scenario # Null THEN latest.scenario
     ELSE IF known = {} THEN Null ELSE history[CHOOSE i \in known : \A j \in known : j <= i].scenario

SameWorkload(history) ==
  LET latest == Last(history)
  IN IF history = <<>> THEN {}
     ELSE IF latest.workload = Null \/ ScenarioOf(history) = Null THEN {Len(history)}
     ELSE {i \in 1..Len(history) : history[i].workload = latest.workload}

CurrentEntries(history) ==
  LET latest == Last(history)
  IN IF history = <<>> THEN {}
     ELSE IF latest.workload = Null \/ ScenarioOf(history) = Null THEN {Len(history)}
     ELSE {i \in 1..Len(history) : /\ history[i].workload = latest.workload
                                   /\ history[i].scenario \in {ScenarioOf(history), Null}}

ChartPoints == {i \in CurrentEntries(branch) : branch[i].scored}
-----------------------------------------------------------------------------
(* What must hold. *)

Published(history) == {history[i].commit : i \in 1..Len(history)}

\* However often a commit is measured again, and whatever order runs of older and
\* newer commits finish in, it has one entry, the entries stay in order, and there
\* are never more than the history keeps.
OneEntryPerCommit ==
  /\ Len(branch) <= Retention
  /\ \A i, j \in 1..Len(branch) : i < j =>
       branch[i].commit # branch[j].commit /\ Earlier(branch[i], branch[j])

\* A run adds or replaces its own commit's entry and touches no other: one only goes
\* when the history is full of later ones.
NothingIsForgotten ==
  [][\A i \in 1..Len(branch) :
       \/ branch[i].commit = running
       \/ branch[i] \in ToSet(branch')
       \/ /\ Len(branch') = Retention
          /\ \A j \in 1..Len(branch') : Earlier(branch[i], branch'[j])]_vars

\* "Pages only joins chart points from the latest matching scenario/workload cohort":
\* no two points of the chart were measured under different files, whatever was
\* unavailable in between.
ChartIsOneCohort ==
  \A i, j \in ChartPoints :
    branch[i].workload = branch[j].workload /\ branch[i].scenario = branch[j].scenario

\* Replacing waiting runs never starves the last request: requests end, so does its run
\* after the last of them, and its commit is published, unless that very run ended early or
\* the history is full of entries that are all later.
NoRoomFor(c) ==
  /\ Len(branch) = Retention
  /\ \A i \in 1..Len(branch) : Earlier([commit |-> c], branch[i])
Served(c) ==
  c \notin {pending, running} /\ (c \in failed \/ c \in Published(branch) \/ NoRoomFor(c))
LastRequestIsServed == []<>(requested = 0 \/ Served(requested))

\* "/score/ shows the latest comparison": the entry shown is that of the newest
\* commit in the history.  The code orders the timestamps as text, and keeps this
\* only while all committers share one time zone.
LatestIsShown ==
  branch # <<>> => \A c \in Published(branch) : c <= LatestEntry.commit
=============================================================================
