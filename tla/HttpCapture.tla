---------------------------- MODULE HttpCapture ----------------------------
(***************************************************************************)
(* capture_http (src/http_workload.rs): one HTTP capture that owns its     *)
(* fixture.  The profiler starts the fixture in a process group of its     *)
(* own, waits for its port and its health endpoint, runs warmup and        *)
(* measured batches, and then, whatever happened, ends the group and runs  *)
(* the declared teardown command.                                          *)
(*                                                                         *)
(* The fixture's leader and a helper it forked exit, leave the group and   *)
(* change their credentials on their own, two clocks bound the startup,    *)
(* and a user may interrupt.  A batch is one curl process run by           *)
(* execute_isolated_command: its result is one of those of                 *)
(* CommandResults, and complete or failed transfers.                       *)
(***************************************************************************)
EXTENDS CommandResults, Naturals

CONSTANTS
  Warmups,            \* run.warmup_iterations
  Measurements,       \* run.measurement_iterations
  TeardownConfigured  \* the scenario declares fixture.teardown

ASSUME CountsAssumption == Warmups \in Nat /\ Measurements \in Nat \ {0}
ASSUME TeardownAssumption == TeardownConfigured \in BOOLEAN

VARIABLES
  pc,           \* where the profiler is in capture_http
  interrupted,  \* the INTERRUPTED flag
  leader,       \* the fixture: "absent", "running", "ended" or "reaped"
  group,        \* members of the leader's group: "leader" until it is reaped, "helper"
  guarded,      \* the processes the profiler has no permission to signal
  spared,       \* those that no signal could reach when stop() ended the group, and
                \* what they fork: a history that no action reads
  refused,      \* the group had members and none of them could be signalled
  foreign,      \* "none", or the state of a group that got the leader's number
  owned,        \* OwnedFixture holds the child
  portFile,     \* "none", "numeric" or "bad": neither a number nor nonzero
  portLate,     \* port()'s own clock has passed the startup timeout
  startupLate,  \* capture_http's clock has passed the startup timeout
  warm,         \* warmup batches whose requests all succeeded
  batches,      \* measured batches recorded
  result,       \* of the workload: "none", "evidence" or "error"
  stopped,      \* of OwnedFixture::stop: "none", "ok" or "failed"
  teardown,     \* of the teardown command: "none", "skipped" or its answer
  outcome       \* what capture_http returns

clocks   == <<portLate, startupLate>>
fixture  == <<leader, group, guarded, foreign, portFile>>
signal   == <<spared, refused>>
progress == <<warm, batches>>
cleanup  == <<stopped, teardown, outcome>>
vars == <<pc, interrupted, fixture, signal, owned, clocks, progress, result, cleanup>>

Members == {"leader", "helper"}

CountersOK == warm \in 0..Warmups /\ batches \in 0..Measurements

TypeOK ==
  /\ pc \in {"probe", "create", "start", "port", "health", "health_check", "warmup",
             "check", "batch", "stop", "reap", "stop_wait", "teardown", "finish",
             "returned", "killed"}
  /\ interrupted \in BOOLEAN /\ refused \in BOOLEAN
  /\ group \subseteq Members /\ guarded \subseteq Members /\ spared \subseteq Members
  /\ owned \in BOOLEAN /\ portLate \in BOOLEAN /\ startupLate \in BOOLEAN
  /\ leader \in {"absent", "running", "ended", "reaped"}
  /\ foreign \in {"none", "running", "signaled"}
  /\ portFile \in {"none", "numeric", "bad"}
  /\ CountersOK
  /\ result \in {"none", "evidence", "error"}
  /\ stopped \in {"none", "ok", "failed"}
  /\ teardown \in Answers \cup {"none", "skipped"}
  /\ outcome \in {"none", "evidence", "unavailable", "cleanup", "teardown", "workload"}

Init ==
  /\ pc = "probe"
  /\ interrupted = FALSE
  /\ leader = "absent" /\ group = {} /\ guarded = {} /\ foreign = "none"
  /\ spared = {} /\ refused = FALSE
  /\ owned = FALSE
  /\ portFile = "none" /\ portLate = FALSE /\ startupLate = FALSE
  /\ warm = 0 /\ batches = 0
  /\ result = "none" /\ stopped = "none" /\ teardown = "none" /\ outcome = "none"

Ended == pc \in {"returned", "killed"}
-----------------------------------------------------------------------------
(* Before there is a fixture: curl_version and OwnedFixture::new. *)

Unavailable ==
  /\ pc \in {"probe", "create"}
  /\ pc' = "returned" /\ outcome' = "unavailable"
  /\ UNCHANGED <<interrupted, fixture, signal, owned, clocks, progress, result, stopped, teardown>>

ProbeCurl ==
  /\ pc = "probe" /\ ~interrupted
  /\ pc' = "create"
  /\ UNCHANGED <<interrupted, fixture, signal, owned, clocks, progress, result, cleanup>>

CreateScope ==
  /\ pc = "create"
  /\ pc' = "start"
  /\ UNCHANGED <<interrupted, fixture, signal, owned, clocks, progress, result, cleanup>>

(* The closure: it ends with a result, and the cleanup follows. *)

Leave(r) == result' = r /\ pc' = "stop"
Stay(place) == pc' = place /\ UNCHANGED result

StartFixture ==
  /\ pc = "start"
  /\ leader' = "running" /\ group' = {"leader"} /\ owned' = TRUE
  /\ Stay("port")
  /\ UNCHANGED <<interrupted, guarded, foreign, signal, portFile, clocks, progress, cleanup>>

StartFails ==
  /\ pc = "start"
  /\ Leave("error")
  /\ UNCHANGED <<interrupted, fixture, signal, owned, clocks, progress, cleanup>>

\* A wait that finds the leader ended reaps it, and its number leaves the group.
Reaped == leader' = "reaped" /\ group' = group \ {"leader"}

TryWait == IF leader = "ended" THEN Reaped ELSE UNCHANGED <<leader, group>>

WaitDespiteInterruption ==
  /\ pc = "port"
  /\ TryWait
  /\ \/ (leader # "running" \/ portFile = "bad") /\ Leave("error")
     \/ leader = "running" /\ portFile = "numeric" /\ Stay("health")
     \/ leader = "running" /\ portFile = "none" /\ portLate /\ Leave("error")
     \/ leader = "running" /\ portFile = "none" /\ ~portLate /\ Stay("port")
  /\ UNCHANGED <<interrupted, guarded, foreign, signal, owned, portFile, clocks, progress, cleanup>>

WaitWithoutClock ==
  /\ pc = "port"
  /\ \/ interrupted /\ Leave("error") /\ UNCHANGED <<leader, group>>
     \/ /\ ~interrupted /\ TryWait
        /\ \/ (leader # "running" \/ portFile = "bad") /\ Leave("error")
           \/ leader = "running" /\ portFile = "numeric" /\ Stay("health")
           \/ leader = "running" /\ portFile = "none" /\ Stay("port")
  /\ UNCHANGED <<interrupted, guarded, foreign, signal, owned, portFile, clocks, progress, cleanup>>

\* One round of OwnedFixture::port.
WaitForPort ==
  /\ pc = "port"
  /\ \/ interrupted /\ Leave("error") /\ UNCHANGED <<leader, group>>
     \/ /\ ~interrupted /\ TryWait
        /\ \/ (leader # "running" \/ portFile = "bad") /\ Leave("error")
           \/ leader = "running" /\ portFile = "numeric" /\ Stay("health")
           \/ leader = "running" /\ portFile = "none" /\ portLate /\ Leave("error")
           \/ leader = "running" /\ portFile = "none" /\ ~portLate /\ Stay("port")
  /\ UNCHANGED <<interrupted, guarded, foreign, signal, owned, portFile, clocks, progress, cleanup>>

\* capture_batch: refused when the flag is set; otherwise every transfer
\* succeeded, some did not, or there are no complete measurements.
BatchResults == IF interrupted THEN {"error"} ELSE {"all", "some", "error"}

ProbeHealth ==
  /\ pc = "health"
  /\ \E b \in BatchResults :
       \/ (startupLate \/ b = "error") /\ Leave("error")
       \/ ~startupLate /\ b = "all" /\ Stay("warmup")
       \/ ~startupLate /\ b = "some" /\ Stay("health_check")
  /\ UNCHANGED <<interrupted, fixture, signal, owned, clocks, progress, cleanup>>

CheckHealth ==
  /\ pc = "health_check"
  /\ IF startupLate
       THEN Leave("error") /\ UNCHANGED <<leader, group>>
       ELSE /\ TryWait
            /\ IF leader = "running" THEN Stay("health") ELSE Leave("error")
  /\ UNCHANGED <<interrupted, guarded, foreign, signal, owned, portFile, clocks, progress, cleanup>>

\* The warmup loop; the fixture is not looked at between its batches.
Warmup ==
  /\ pc = "warmup"
  /\ IF warm = Warmups
       THEN Stay("check") /\ UNCHANGED warm
       ELSE \E b \in BatchResults :
              IF b = "all" THEN Stay("warmup") /\ warm' = warm + 1
                           ELSE Leave("error") /\ UNCHANGED warm
  /\ UNCHANGED <<interrupted, fixture, signal, owned, clocks, batches, cleanup>>

CheckFixtureOnceMore ==
  /\ pc = "check"
  /\ IF batches > Measurements
       THEN Leave("evidence") /\ UNCHANGED <<leader, group>>
       ELSE /\ TryWait
            /\ IF leader = "running" THEN Stay("batch") ELSE Leave("error")
  /\ UNCHANGED <<interrupted, guarded, foreign, signal, owned, portFile, clocks, progress, cleanup>>

\* The measured loop: the fixture is checked before each batch, and a batch with
\* failed transfers is evidence too.
CheckFixture ==
  /\ pc = "check"
  /\ IF batches = Measurements
       THEN Leave("evidence") /\ UNCHANGED <<leader, group>>
       ELSE /\ TryWait
            /\ IF leader = "running" THEN Stay("batch") ELSE Leave("error")
  /\ UNCHANGED <<interrupted, guarded, foreign, signal, owned, portFile, clocks, progress, cleanup>>

MeasureBatch ==
  /\ pc = "batch"
  /\ \E b \in BatchResults :
       IF b = "error" THEN Leave("error") /\ UNCHANGED batches
                      ELSE Stay("check") /\ batches' = batches + 1
  /\ UNCHANGED <<interrupted, fixture, signal, owned, clocks, warm, cleanup>>
-----------------------------------------------------------------------------
(* OwnedFixture::stop and the teardown command. *)

StopNothing ==
  /\ pc = "stop" /\ ~owned
  /\ stopped' = "ok"
  /\ pc' = "teardown"
  /\ UNCHANGED <<interrupted, fixture, signal, owned, clocks, progress, result, teardown, outcome>>

\* The processes of the fixture that run, and those a signal to the group ends.
Running == (group \ {"leader"}) \cup (IF leader = "running" THEN {"leader"} ELSE {})
Reached == group \ guarded

\* kill_process_group fails when the group has members and none may be signalled; it
\* succeeds when one may, and an empty group (ESRCH) counts as success.
Refused == group # {} /\ Reached = {}

\* SIGKILL ends the processes in set; an ended leader stays in its group until it is
\* reaped.  Those that still run were out of reach.
Kill(set) ==
  /\ leader' = IF leader = "running" /\ "leader" \in set THEN "ended" ELSE leader
  /\ group' = group \ (set \ {"leader"})
  /\ spared' = Running \ set

\* terminate_process: only child.kill().
StopLeaderOnly ==
  /\ pc = "stop" /\ owned /\ ~Refused
  /\ owned' = FALSE
  /\ leader' = IF leader = "running" /\ "leader" \in Reached THEN "ended" ELSE leader
  /\ spared' = Running \ Reached
  /\ foreign' = IF foreign = "running" THEN "signaled" ELSE foreign
  /\ pc' = "reap"
  /\ UNCHANGED <<interrupted, group, guarded, refused, portFile, clocks, progress, result, cleanup>>

\* terminate_process: the group is signalled as a whole, also after its leader has
\* exited; a reused number takes the signal to another group.
StopGroup ==
  /\ pc = "stop" /\ owned /\ ~Refused
  /\ owned' = FALSE
  /\ Kill(Reached)
  /\ foreign' = IF foreign = "running" THEN "signaled" ELSE foreign
  /\ pc' = "reap"
  /\ UNCHANGED <<interrupted, guarded, refused, portFile, clocks, progress, result, cleanup>>

\* terminate_process when no member may be signalled: child.kill() is tried on the
\* leader, which may have gone to another group.
StopRefused ==
  /\ pc = "stop" /\ owned /\ Refused
  /\ owned' = FALSE
  /\ refused' = TRUE
  /\ Kill({"leader"} \ guarded)
  /\ pc' = "stop_wait"
  /\ UNCHANGED <<interrupted, guarded, foreign, portFile, clocks, progress, result, cleanup>>

\* child.wait() lasts until the leader has ended, and may fail unless try_wait has
\* reaped it before.
Wait ==
  /\ pc = "reap" /\ leader # "running"
  /\ Reaped
  /\ stopped' \in IF leader = "ended" THEN {"ok", "failed"} ELSE {"ok"}
  /\ pc' = "teardown"
  /\ UNCHANGED <<interrupted, guarded, foreign, signal, portFile, owned, clocks, progress, result,
                 teardown, outcome>>

\* child.wait() inside terminate_process, which then fails.
StopFails ==
  /\ pc = "stop_wait" /\ leader # "running"
  /\ Reaped
  /\ stopped' = "failed"
  /\ pc' = "teardown"
  /\ UNCHANGED <<interrupted, guarded, foreign, signal, portFile, owned, clocks, progress, result,
                 teardown, outcome>>

\* The teardown command runs without looking at the flag.
TeardownAfterSuccessOnly ==
  /\ pc = "teardown"
  /\ \E r \in Allowed(interrupted, FALSE) :
       teardown' = IF TeardownConfigured /\ result = "evidence" THEN r ELSE "skipped"
  /\ pc' = "finish"
  /\ UNCHANGED <<interrupted, fixture, signal, owned, clocks, progress, result, stopped, outcome>>

Teardown ==
  /\ pc = "teardown"
  /\ \E r \in Allowed(interrupted, FALSE) :
       teardown' = IF TeardownConfigured THEN r ELSE "skipped"
  /\ pc' = "finish"
  /\ UNCHANGED <<interrupted, fixture, signal, owned, clocks, progress, result, stopped, outcome>>

\* The cleanup's errors come before the workload's.
FinishWithoutStopResult ==
  /\ pc = "finish"
  /\ outcome' = CASE teardown \notin {"ok", "skipped"} -> "teardown"
                  [] teardown \in {"ok", "skipped"} /\ result = "error" -> "workload"
                  [] OTHER -> "evidence"
  /\ pc' = "returned"
  /\ UNCHANGED <<interrupted, fixture, signal, owned, clocks, progress, result, stopped, teardown>>

Finish ==
  /\ pc = "finish"
  /\ outcome' = CASE stopped = "failed" -> "cleanup"
                  [] stopped = "ok" /\ teardown \notin {"ok", "skipped"} -> "teardown"
                  [] stopped = "ok" /\ teardown \in {"ok", "skipped"} ->
                       IF result = "evidence" THEN "evidence" ELSE "workload"
  /\ pc' = "returned"
  /\ UNCHANGED <<interrupted, fixture, signal, owned, clocks, progress, result, stopped, teardown>>

ProfilerStep ==
  \/ Unavailable \/ ProbeCurl \/ CreateScope
  \/ StartFixture \/ StartFails \/ WaitForPort \/ ProbeHealth \/ CheckHealth
  \/ Warmup \/ CheckFixture \/ MeasureBatch
  \/ StopNothing \/ StopGroup \/ StopRefused \/ Wait \/ StopFails \/ Teardown \/ Finish
-----------------------------------------------------------------------------
(* The fixture, the system, the clocks and the user. *)

LeaderEnds ==
  /\ leader = "running"
  /\ leader' = "ended"
  /\ UNCHANGED <<pc, interrupted, group, guarded, foreign, portFile, signal, owned, clocks,
                 progress, result, cleanup>>

\* The leader joins another group of its session.
LeaderMoves ==
  /\ leader = "running" /\ "leader" \in group
  /\ group' = group \ {"leader"}
  /\ UNCHANGED <<pc, interrupted, leader, guarded, foreign, portFile, signal, owned, clocks,
                 progress, result, cleanup>>

\* A child has its parent's group and credentials.
HelperStarts ==
  /\ leader = "running" /\ "leader" \in group /\ "helper" \notin group
  /\ group' = group \cup {"helper"}
  /\ guarded' = IF "leader" \in guarded THEN Members ELSE {}
  /\ spared' = IF "leader" \in spared THEN Members ELSE spared
  /\ UNCHANGED <<pc, interrupted, leader, foreign, portFile, refused, owned, clocks, progress,
                 result, cleanup>>

\* The helper exits or leaves the group.
HelperGoes ==
  /\ "helper" \in group
  /\ group' = group \ {"helper"} /\ guarded' = guarded \ {"helper"}
  /\ UNCHANGED <<pc, interrupted, leader, foreign, portFile, signal, owned, clocks, progress,
                 result, cleanup>>

\* A process changes its credentials, as one that sudo starts does, or changes back.
ChangeCredentials ==
  /\ \E p \in Running :
       guarded' = IF p \in guarded THEN guarded \ {p} ELSE guarded \cup {p}
  /\ UNCHANGED <<pc, interrupted, leader, group, foreign, portFile, signal, owned, clocks,
                 progress, result, cleanup>>

\* Publishing is not atomic: a number may also be the first digits of the port.
PublishPort ==
  /\ Running # {}
  /\ portFile = "none"
  /\ portFile' \in {"numeric", "bad"}
  /\ UNCHANGED <<pc, interrupted, leader, group, guarded, foreign, signal, owned, clocks,
                 progress, result, cleanup>>

\* The number of a reaped leader whose group is empty is free again.
ReuseNumber ==
  /\ leader = "reaped" /\ group = {} /\ foreign = "none"
  /\ foreign' = "running"
  /\ UNCHANGED <<pc, interrupted, leader, group, guarded, portFile, signal, owned, clocks,
                 progress, result, cleanup>>

StartupClock ==
  /\ pc \in {"start", "port", "health", "health_check"} /\ ~startupLate
  /\ startupLate' = TRUE
  /\ UNCHANGED <<pc, interrupted, fixture, signal, owned, portLate, progress, result, cleanup>>

\* port() starts its own clock after capture_http's.
PortClock ==
  /\ pc = "port" /\ startupLate /\ ~portLate
  /\ portLate' = TRUE
  /\ UNCHANGED <<pc, interrupted, fixture, signal, owned, startupLate, progress, result, cleanup>>

Signal ==
  /\ ~Ended
  /\ IF interrupted
       THEN pc' = "killed" /\ UNCHANGED interrupted
       ELSE interrupted' = TRUE /\ UNCHANGED pc
  /\ UNCHANGED <<fixture, signal, owned, clocks, progress, result, cleanup>>

Next ==
  \/ ProfilerStep
  \/ LeaderEnds \/ LeaderMoves \/ HelperStarts \/ HelperGoes \/ ChangeCredentials
  \/ PublishPort \/ ReuseNumber
  \/ StartupClock \/ PortClock \/ Signal

Spec == Init /\ [][Next]_vars

\* Commands return (IsolatedCommand) and the profiler goes on; the fixture and
\* the user are free.
FairSpec == Spec /\ WF_vars(ProfilerStep)
-----------------------------------------------------------------------------
(* What must hold. *)

\* Evidence is returned only when the group could be signalled, whatever of the fixture
\* that signal could reach is gone, the leader is reaped and the teardown command has
\* succeeded (docs/http-workloads.md: "Cleanup failure prevents bundle creation").
EvidenceOnlyAfterCleanup ==
  outcome = "evidence" =>
    /\ ~refused
    /\ leader = "reaped" /\ group \subseteq spared
    /\ teardown = IF TeardownConfigured THEN "ok" ELSE "skipped"

\* Once there is a fixture scope no return skips the cleanup: stop was called and left
\* no leader running, and the teardown command was run, which the first interruption
\* does not cancel.
EveryReturnCleansUp ==
  pc = "returned" /\ outcome # "unavailable" =>
    /\ stopped # "none" /\ leader # "running"
    /\ TeardownConfigured => teardown \in Answers \ {"interrupted"}

\* The teardown command runs after the leader's end and the end of every member of the
\* group that could be signalled, also when stop() failed, when only a helper was left
\* in the group, or when the leader had gone to another one.
TeardownAfterTermination ==
  teardown # "none" => leader \in {"absent", "reaped"} /\ group \subseteq spared

\* The group that stop() signals is the fixture's.  The code does not keep this:
\* the number of a leader that try_wait reaped may belong to another group.
OnlyTheFixtureIsSignalled == foreign # "signaled"

\* With clocks that go on, a started fixture is cleaned up, however its startup and
\* its batches go, unless its leader was out of reach of the signal.
FixtureIsCleanedUp ==
  WF_vars(StartupClock) /\ WF_vars(PortClock)
    => ((leader = "running") ~> (Ended \/ "leader" \in spared))

\* An interrupted capture ends, also when the startup timeout never comes.
InterruptionEndsTheCapture == interrupted ~> (Ended \/ "leader" \in spared)
=============================================================================
