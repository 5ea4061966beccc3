-------------------------- MODULE IsolatedCommand --------------------------
(***************************************************************************)
(* One call of execute_isolated_command (src/capture.rs): the profiler     *)
(* starts a target as the leader of a process group of its own, polls it   *)
(* every five milliseconds, and ends the whole group when the deadline has *)
(* passed or the CLI was interrupted.                                      *)
(*                                                                         *)
(* Four actors interleave: the profiler, the members of the target's       *)
(* group, the clock, and a user who sends signals.  Members fork, exit,    *)
(* leave the group and change their credentials; signalling a group        *)
(* reaches those that may be signalled and succeeds when there is one.     *)
(***************************************************************************)
EXTENDS CommandResults

CONSTANTS
  Leader,       \* the process the profiler spawns
  Descendants   \* the processes the target may fork; bounds the forks

ASSUME LeaderAssumption == Leader \notin Descendants

VARIABLES
  pc,            \* where the profiler is in execute_isolated_command
  mayInterrupt,  \* the `interruptible` argument
  interrupted,   \* the INTERRUPTED flag
  expired,       \* start.elapsed() >= timeout
  cause,         \* why the group is being ended: "none", "timeout" or "interrupt"
  group,         \* members of the target's process group; an ended leader is one
                 \* until it is reaped
  born,          \* processes started so far
  privileged,    \* processes the profiler has no permission to signal
  spared,        \* those that no signal could reach when the group was ended by
                 \* force, and what they fork: a history that no action reads
  exit,          \* the leader's exit status: "none", "ok", "failed", "signaled"
  autoReap,      \* SIGCHLD was ignored when the profiler started: waits fail
  denied,        \* kill_process_group failed with an error other than ESRCH
  answer         \* the call's result, "none" until it returns

vars == <<pc, mayInterrupt, interrupted, expired, cause, group, born, privileged,
          spared, exit, autoReap, denied, answer>>

profiler == <<pc, cause, denied, answer>>
target   == <<group, born, privileged, spared, exit>>
fixed    == <<mayInterrupt, autoReap>>

Processes == Descendants \cup {Leader}

\* The target's processes that run and are in reach: the leader wherever it went, and
\* the descendants that are in the group.
Running ==
  (group \ {Leader}) \cup (IF Leader \in born /\ exit = "none" THEN {Leader} ELSE {})

\* What the call promises (CommandContract), read off this module's state.  The
\* group counts as ended by force once it was signalled.
Forced == pc \in {"reap", "kill_leader"} \/ (pc = "returned" /\ cause # "none")

Promise == INSTANCE CommandContract WITH
  phase <- IF pc \in {"returned", "killed"} THEN pc
           ELSE IF pc \in {"enter", "spawn"} THEN "called"
           ELSE IF Forced THEN "forced" ELSE "running",
  live  <- Running \ spared

Ended == pc \in {"returned", "killed"}
Started == Leader \in born

TypeOK ==
  /\ pc \in {"enter", "spawn", "watch", "poll", "deadline", "kill", "kill_leader",
             "reap", "returned", "killed"}
  /\ mayInterrupt \in BOOLEAN /\ interrupted \in BOOLEAN /\ expired \in BOOLEAN
  /\ autoReap \in BOOLEAN /\ denied \in BOOLEAN
  /\ cause \in {"none", "timeout", "interrupt"}
  /\ born \subseteq Processes
  /\ group \subseteq born /\ privileged \subseteq born /\ spared \subseteq born
  /\ exit \in {"none", "ok", "failed", "signaled"}
  /\ answer \in Answers \cup {"none"}

Init ==
  /\ pc = "enter"
  /\ mayInterrupt \in BOOLEAN
  /\ autoReap \in BOOLEAN
  /\ interrupted = FALSE /\ expired = FALSE /\ denied = FALSE
  /\ cause = "none"
  /\ group = {} /\ born = {} /\ privileged = {} /\ spared = {}
  /\ exit = "none"
  /\ answer = "none"
-----------------------------------------------------------------------------
(* The profiler. *)

Answer(r) == pc' = "returned" /\ answer' = r

\* ensure_not_interrupted, before anything is started.
Enter ==
  /\ pc = "enter"
  /\ IF mayInterrupt /\ interrupted
       THEN Answer("interrupted")
       ELSE pc' = "spawn" /\ UNCHANGED answer
  /\ UNCHANGED <<cause, denied, target, fixed, interrupted, expired>>

\* command.process_group(0) is forgotten: the group is one that already exists.
SpawnInOldGroup ==
  /\ pc = "spawn"
  /\ pc' = "watch"
  /\ born' = {Leader} /\ group' = Processes
  /\ UNCHANGED <<cause, denied, answer, privileged, spared, exit, fixed, interrupted, expired>>

Spawn ==
  /\ pc = "spawn"
  /\ pc' = "watch"
  /\ born' = {Leader} /\ group' = {Leader}
  /\ UNCHANGED <<cause, denied, answer, privileged, spared, exit, fixed, interrupted, expired>>

SpawnFails ==
  /\ pc = "spawn"
  /\ Answer("error")
  /\ UNCHANGED <<cause, denied, target, fixed, interrupted, expired>>

WatchWithoutFlag ==
  /\ pc = "watch"
  /\ pc' = "poll"
  /\ UNCHANGED <<cause, denied, answer, target, fixed, interrupted, expired>>

\* The head of the loop: the flag is looked at before the child is.
Watch ==
  /\ pc = "watch"
  /\ IF mayInterrupt /\ interrupted
       THEN pc' = "kill" /\ cause' = "interrupt"
       ELSE pc' = "poll" /\ UNCHANGED cause
  /\ UNCHANGED <<denied, answer, target, fixed, interrupted, expired>>

\* sample_from_status: a timed-out sample never counts as a success, whatever
\* status the leader left.
SampleIgnoringTimeout(status, why) ==
  IF status = "ok" THEN "ok" ELSE IF why = "timeout" THEN "timedOut" ELSE "failed"

Sample(status, why) ==
  IF why = "timeout" THEN "timedOut" ELSE IF status = "ok" THEN "ok" ELSE "failed"

\* A wait that finds the leader ended takes it out of its group.
Reaped ==
  /\ group' = group \ {Leader}
  /\ UNCHANGED <<born, privileged, spared, exit>>

\* try_wait: nothing is signalled when the leader has ended by itself, and a
\* wait whose status the system already discarded is an error.
Poll ==
  /\ pc = "poll"
  /\ \/ exit = "none" /\ pc' = "deadline" /\ UNCHANGED <<answer, target>>
     \/ exit # "none" /\ Answer(IF autoReap THEN "error" ELSE Sample(exit, cause)) /\ Reaped
  /\ UNCHANGED <<cause, denied, fixed, interrupted, expired>>

NoDeadline ==
  /\ pc = "deadline"
  /\ pc' = "watch"
  /\ UNCHANGED <<cause, denied, answer, target, fixed, interrupted, expired>>

GiveUpAtDeadline ==
  /\ pc = "deadline"
  /\ IF expired THEN Answer("timedOut") ELSE pc' = "watch" /\ UNCHANGED answer
  /\ UNCHANGED <<cause, denied, target, fixed, interrupted, expired>>

CheckDeadline ==
  /\ pc = "deadline"
  /\ IF expired
       THEN pc' = "kill" /\ cause' = "timeout"
       ELSE pc' = "watch" /\ UNCHANGED cause
  /\ UNCHANGED <<denied, answer, target, fixed, interrupted, expired>>

\* The members that SIGKILL to the group ends.  The signal is refused when there are
\* members and none may be signalled; an empty group (ESRCH) counts as signalled.
Reached == group \ privileged
Refused == group # {} /\ Reached = {}

\* SIGKILL ends the processes in set; an ended leader stays in its group until it is
\* reaped.  Those that still run were out of reach.
Kill(set) ==
  /\ exit' = IF Leader \in Running \cap set THEN "signaled" ELSE exit
  /\ group' = group \ (IF autoReap THEN set ELSE set \ {Leader})
  /\ spared' = Running \ set

\* terminate_process: only child.kill().
LeaderOnlyKilled ==
  /\ pc = "kill" /\ ~Refused
  /\ exit' = IF Leader \in Running \cap Reached THEN "signaled" ELSE exit
  /\ spared' = Running \ Reached
  /\ pc' = "reap"
  /\ UNCHANGED <<cause, denied, answer, group, born, privileged, fixed, interrupted, expired>>

\* terminate_process when the group could be signalled, or is already gone.
KillGroup ==
  /\ pc = "kill" /\ ~Refused
  /\ Kill(Reached)
  /\ pc' = "reap"
  /\ UNCHANGED <<cause, denied, answer, born, privileged, fixed, interrupted, expired>>

\* terminate_process when no member may be signalled: child.kill() is tried on the
\* leader, which may have gone to another group, and then child.wait().
KillGroupDenied ==
  /\ pc = "kill" /\ Refused
  /\ denied' = TRUE
  /\ Kill({Leader} \ privileged)
  /\ pc' = "kill_leader"
  /\ UNCHANGED <<cause, answer, born, privileged, fixed, interrupted, expired>>

FailAfterLeader ==
  /\ pc = "kill_leader" /\ exit # "none"
  /\ Answer("error") /\ Reaped
  /\ UNCHANGED <<cause, denied, fixed, interrupted, expired>>

\* child.wait() after the group was signalled.
Reap ==
  /\ pc = "reap" /\ exit # "none"
  /\ Answer(IF autoReap THEN "error"
            ELSE IF cause = "interrupt" THEN "interrupted" ELSE Sample(exit, cause))
  /\ Reaped
  /\ UNCHANGED <<cause, denied, fixed, interrupted, expired>>

ProfilerStep ==
  \/ Enter \/ Spawn \/ SpawnFails \/ Watch \/ Poll \/ CheckDeadline
  \/ KillGroup \/ KillGroupDenied \/ FailAfterLeader \/ Reap
-----------------------------------------------------------------------------
(* The target's group, the clock and the user. *)

LeaderExits(status) ==
  /\ Leader \in Running
  /\ exit' = status
  /\ group' = IF autoReap THEN group \ {Leader} ELSE group
  /\ UNCHANGED <<profiler, born, privileged, spared, fixed, interrupted, expired>>

\* The leader joins another group of its session, where no signal of the profiler finds it.
LeaderMoves ==
  /\ Leader \in Running \cap group
  /\ group' = group \ {Leader}
  /\ UNCHANGED <<profiler, born, privileged, spared, exit, fixed, interrupted, expired>>

\* A child inherits its parent's group and credentials.
Fork(parent, child) ==
  LET With(set) == IF parent \in set THEN set \cup {child} ELSE set
  IN /\ parent \in Running \cap group
     /\ child \in Descendants \ born
     /\ born' = born \cup {child} /\ group' = group \cup {child}
     /\ privileged' = With(privileged) /\ spared' = With(spared)
     /\ UNCHANGED <<profiler, exit, fixed, interrupted, expired>>

\* A descendant exits, or joins another group or session and is out of reach.
Leave(child) ==
  /\ child \in group \cap Descendants
  /\ group' = group \ {child}
  /\ UNCHANGED <<profiler, born, privileged, spared, exit, fixed, interrupted, expired>>

\* A process takes other credentials, as one that sudo starts does, or changes back.
ChangeCredentials(p) ==
  /\ p \in Running
  /\ privileged' = IF p \in privileged THEN privileged \ {p} ELSE privileged \cup {p}
  /\ UNCHANGED <<profiler, group, born, spared, exit, fixed, interrupted, expired>>

TargetStep ==
  \/ \E status \in {"ok", "failed", "signaled"} : LeaderExits(status)
  \/ LeaderMoves
  \/ \E p \in Processes, d \in Descendants : Fork(p, d)
  \/ \E d \in Descendants : Leave(d)
  \/ \E p \in Processes : ChangeCredentials(p)

DeadlinePasses ==
  /\ Started /\ ~Ended /\ ~expired
  /\ expired' = TRUE
  /\ UNCHANGED <<profiler, target, fixed, interrupted>>

\* register_conditional_default was registered before the flag: the first
\* signal sets the flag, a later one ends the profiler on the spot.
Signal ==
  /\ ~Ended
  /\ IF interrupted
       THEN pc' = "killed" /\ UNCHANGED interrupted
       ELSE interrupted' = TRUE /\ UNCHANGED pc
  /\ UNCHANGED <<cause, denied, answer, target, fixed, expired>>

Next == ProfilerStep \/ TargetStep \/ DeadlinePasses \/ Signal

Spec == Init /\ [][Next]_vars

\* The profiler's thread keeps running; nothing is assumed of the target, the
\* user or the clock.
FairSpec == Spec /\ WF_vars(ProfilerStep)
-----------------------------------------------------------------------------
(* What must hold. *)

\* Once the profiler has signalled the group, because of a timeout or an interruption,
\* every process of the target that still runs was out of the signal's reach, or was
\* forked by one that was, whatever the members did around the signal (README.md: timeout
\* termination "also reaches ordinary descendants in that group").
ForcedEndIsComplete == Forced => Running \subseteq spared

\* A sample tells how the target ended.  It is never one of a group that could not be
\* signalled ("group failure still prevents evidence"), it has timed out exactly when
\* the deadline made the profiler end the group, whatever status the leader left around
\* that, and it is a success only when the leader ended by itself with status zero.
SamplesAreGenuine ==
  answer \in Samples =>
    /\ ~denied
    /\ answer = "timedOut" <=> cause = "timeout"
    /\ answer = "ok" => exit = "ok" /\ cause = "none"

\* The polling loop implements what its callers rely on.
ImplementsContract == Promise!Contract

\* With a clock that goes on, a call that was started ends, whatever the target
\* does, unless its leader was out of the signal's reach.
DeadlineEndsTheCall ==
  WF_vars(DeadlinePasses) => ((pc = "spawn") ~> (Ended \/ Leader \in spared))

\* An interruption ends an interruptible call, also when its deadline never comes.
InterruptionEndsTheCall ==
  (interrupted /\ mayInterrupt /\ Started) ~> (Ended \/ Leader \in spared)
=============================================================================
