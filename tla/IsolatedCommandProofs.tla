----------------------- MODULE IsolatedCommandProofs -----------------------
(***************************************************************************)
(* Proofs about IsolatedCommand for every set of descendants: the safety   *)
(* invariants of the call and that it implements CommandContract.          *)
(***************************************************************************)
EXTENDS IsolatedCommand, TLAPS

(* The strengthening: what each place in the call knows. *)

CauseIsKnown ==
  /\ pc \in {"enter", "spawn"} => born = {} /\ exit = "none"
  /\ pc \in {"enter", "spawn", "watch", "poll", "deadline"} => cause = "none"
  /\ pc \in {"kill", "kill_leader", "reap"} => cause # "none"
  /\ pc # "killed" /\ ~Forced => spared = {}
  /\ cause = "interrupt" => interrupted /\ mayInterrupt
  /\ denied => pc \in {"kill_leader", "returned", "killed"}
  /\ answer # "none" <=> pc = "returned"

\* A timed-out or interrupted call has left nothing behind that it could signal.
ForcedAnswers == answer \in {"timedOut", "interrupted"} => Running \subseteq spared

\* The call does not return while the leader it started is still running, not even when
\* signalling the group was denied or the leader had left it.
LeaderIsOver == pc = "returned" => Leader \notin Running

IInv ==
  /\ TypeOK
  /\ CauseIsKnown
  /\ ForcedAnswers
  /\ ForcedEndIsComplete
  /\ SamplesAreGenuine
  /\ LeaderIsOver

USE LeaderAssumption DEF LeaderAssumption
-----------------------------------------------------------------------------
LEMMA InitIInv == Init => IInv
  BY DEF Init, IInv, TypeOK, CauseIsKnown, ForcedAnswers,
         ForcedEndIsComplete, Forced, SamplesAreGenuine, LeaderIsOver, Samples, Running

\* The profiler's steps before anything is signalled.
LEMMA WatchingSteps ==
  ASSUME IInv,
         Enter \/ Spawn \/ SpawnFails \/ Watch \/ Poll \/ CheckDeadline
  PROVE  IInv'
<1> USE DEF IInv, TypeOK, CauseIsKnown, ForcedAnswers,
            ForcedEndIsComplete, Forced, SamplesAreGenuine, LeaderIsOver, Samples, Answers, target, fixed, Answer, Processes, Running
<1>1. CASE Enter
  BY <1>1 DEF Enter
<1>2. CASE Spawn
  BY <1>2 DEF Spawn
<1>3. CASE SpawnFails
  BY <1>3 DEF SpawnFails
<1>4. CASE Watch
  BY <1>4 DEF Watch
<1>5. CASE Poll
  BY <1>5 DEF Poll, Reaped, Sample
<1>6. CASE CheckDeadline
  BY <1>6 DEF CheckDeadline
<1> QED
  BY <1>1, <1>2, <1>3, <1>4, <1>5, <1>6

\* The profiler's steps from the signal to the return.
LEMMA EndingSteps ==
  ASSUME IInv,
         KillGroup \/ KillGroupDenied \/ FailAfterLeader \/ Reap
  PROVE  IInv'
<1> USE DEF IInv, TypeOK, CauseIsKnown, ForcedAnswers,
            ForcedEndIsComplete, Forced, SamplesAreGenuine, LeaderIsOver, Samples, Answers, target, fixed, Answer, Processes, Running
<1>1. CASE KillGroup
  BY <1>1 DEF KillGroup, Kill, Refused, Reached
<1>2. CASE KillGroupDenied
  BY <1>2 DEF KillGroupDenied, Kill, Refused, Reached
<1>3. CASE FailAfterLeader
  BY <1>3 DEF FailAfterLeader, Reaped
<1>4. CASE Reap
  BY <1>4 DEF Reap, Reaped, Sample
<1> QED
  BY <1>1, <1>2, <1>3, <1>4

\* What the target's processes, the clock and the user do.
LEMMA OtherSteps ==
  ASSUME IInv,
         TargetStep \/ DeadlinePasses \/ Signal
  PROVE  IInv'
<1> USE DEF IInv, TypeOK, CauseIsKnown, ForcedAnswers,
            ForcedEndIsComplete, Forced, SamplesAreGenuine, LeaderIsOver, Samples, Answers, profiler, fixed, Processes, Running
<1>1. ASSUME NEW status \in {"ok", "failed", "signaled"}, LeaderExits(status)
      PROVE  IInv'
  BY <1>1 DEF LeaderExits
<1>2. ASSUME NEW p \in Processes, NEW d \in Descendants, Fork(p, d)
      PROVE  IInv'
  BY <1>2 DEF Fork
<1>3. ASSUME NEW d \in Descendants, Leave(d)
      PROVE  IInv'
  BY <1>3 DEF Leave
<1>4. ASSUME NEW p \in Processes, ChangeCredentials(p)
      PROVE  IInv'
  BY <1>4 DEF ChangeCredentials
<1>5. CASE LeaderMoves
  BY <1>5 DEF LeaderMoves
<1>6. CASE DeadlinePasses
  BY <1>6 DEF DeadlinePasses, target
<1>7. CASE Signal
  BY <1>7 DEF Signal, target, Ended
<1> QED
  BY <1>1, <1>2, <1>3, <1>4, <1>5, <1>6, <1>7 DEF TargetStep

LEMMA NextIInv == IInv /\ [Next]_vars => IInv'
<1> SUFFICES ASSUME IInv, [Next]_vars
             PROVE  IInv'
  OBVIOUS
<1>1. CASE ProfilerStep
  BY <1>1, WatchingSteps, EndingSteps DEF ProfilerStep
<1>2. CASE TargetStep \/ DeadlinePasses \/ Signal
  BY <1>2, OtherSteps
<1>3. CASE UNCHANGED vars
  BY <1>3 DEF vars, IInv, TypeOK, CauseIsKnown, ForcedAnswers,
              ForcedEndIsComplete, Forced, SamplesAreGenuine, LeaderIsOver, Running
<1> QED
  BY <1>1, <1>2, <1>3 DEF Next

LEMMA SpecIInv == Spec => []IInv
  BY InitIInv, NextIInv, PTL DEF Spec
-----------------------------------------------------------------------------
(* The invariants. *)

\* The values of the variables: a group consists of processes that were started.
THEOREM TypeCorrect == Spec => []TypeOK
  BY SpecIInv, PTL DEF IInv

\* After a timeout or an interruption terminate_process has left no process that the
\* signal could reach, however many descendants there are.
THEOREM ForcedEnd == Spec => []ForcedEndIsComplete
  BY SpecIInv, PTL DEF IInv

\* A sample is never one of a group that could not be signalled, has timed out exactly
\* when the deadline ended the group, and is a success only by the leader's own doing.
THEOREM GenuineSamples == Spec => []SamplesAreGenuine
  BY SpecIInv, PTL DEF IInv

\* execute_isolated_command never returns while its leader runs, in its group or not.
THEOREM LeaderIsWaitedFor == Spec => []LeaderIsOver
  BY SpecIInv, PTL DEF IInv
-----------------------------------------------------------------------------
(* The polling loop implements CommandContract. *)

LEMMA InitRefines == Init => Promise!ContractInit
  BY DEF Init, Promise!ContractInit, Forced, Running

\* The steps before the signal: they are hidden, or they start or end the call.
LEMMA WatchingRefines ==
  ASSUME IInv, IInv',
         Enter \/ Spawn \/ SpawnFails \/ Watch \/ Poll \/ CheckDeadline
  PROVE  [Promise!ContractNext]_(Promise!contractVars)
<1> USE DEF IInv, TypeOK, CauseIsKnown, Forced, Samples, Answers, Allowed, target, fixed,
            Answer, Processes, Running, Promise!contractVars,
            Promise!Samples, Promise!Answers, Promise!Allowed
<1>1. CASE Enter
  <2>1. CASE mayInterrupt /\ interrupted
    BY <1>1, <2>1 DEF Enter, Promise!ContractNext, Promise!Return
  <2>2. CASE ~(mayInterrupt /\ interrupted)
    BY <1>1, <2>2 DEF Enter
  <2> QED
    BY <2>1, <2>2
<1>2. CASE Spawn
  BY <1>2 DEF Spawn, Promise!ContractNext, Promise!Start
<1>3. CASE SpawnFails
  BY <1>3 DEF SpawnFails, Promise!ContractNext, Promise!Return
<1>4. CASE Watch
  BY <1>4 DEF Watch
<1>5. CASE Poll
  <2>1. CASE exit = "none"
    BY <1>5, <2>1 DEF Poll
  <2>2. CASE exit # "none"
    BY <1>5, <2>2 DEF Poll, Reaped, Sample, Promise!ContractNext, Promise!Return
  <2> QED
    BY <2>1, <2>2
<1>6. CASE CheckDeadline
  BY <1>6 DEF CheckDeadline
<1> QED
  BY <1>1, <1>2, <1>3, <1>4, <1>5, <1>6

\* The signal is Force, and what follows it returns the call.
LEMMA EndingRefines ==
  ASSUME IInv, IInv',
         KillGroup \/ KillGroupDenied \/ FailAfterLeader \/ Reap
  PROVE  [Promise!ContractNext]_(Promise!contractVars)
<1> USE DEF IInv, TypeOK, CauseIsKnown, ForcedEndIsComplete, Forced, Samples, Answers,
            Allowed, target, fixed, Answer, Processes, Running, Promise!contractVars,
            Promise!Samples, Promise!Answers, Promise!Allowed
<1>1. CASE KillGroup
  BY <1>1 DEF KillGroup, Kill, Refused, Reached, Promise!ContractNext, Promise!Force
<1>2. CASE KillGroupDenied
  BY <1>2 DEF KillGroupDenied, Kill, Refused, Reached, Promise!ContractNext, Promise!Force
<1>3. CASE FailAfterLeader
  BY <1>3 DEF FailAfterLeader, Reaped, Promise!ContractNext, Promise!Return
<1>4. CASE Reap
  BY <1>4 DEF Reap, Reaped, Sample, Promise!ContractNext, Promise!Return
<1> QED
  BY <1>1, <1>2, <1>3, <1>4

\* The processes' own steps are Churn, as long as the contract leaves any alive.
LEMMA OtherRefines ==
  ASSUME IInv, IInv',
         TargetStep \/ DeadlinePasses \/ Signal
  PROVE  [Promise!ContractNext]_(Promise!contractVars)
<1> USE DEF IInv, TypeOK, CauseIsKnown, ForcedEndIsComplete, ForcedAnswers, Forced,
            Samples, Answers, profiler, target, fixed, Processes, Running, Promise!contractVars,
            Promise!Samples, Promise!Answers, Promise!Allowed
<1>1. CASE TargetStep
  <2>1. UNCHANGED <<profiler, mayInterrupt, interrupted>>
    BY <1>1 DEF TargetStep, LeaderExits, LeaderMoves, Fork, Leave, ChangeCredentials
  <2>2. pc \notin {"enter", "spawn"}
    BY <1>1 DEF TargetStep, LeaderExits, LeaderMoves, Fork, Leave, ChangeCredentials
  <2>3. CASE Forced \/ answer \in {"timedOut", "interrupted"}
    BY <2>1, <2>2, <2>3
  <2>4. CASE ~Forced /\ answer \notin {"timedOut", "interrupted"}
    BY <2>1, <2>2, <2>4 DEF Promise!ContractNext, Promise!Churn
  <2> QED
    BY <2>3, <2>4
<1>2. CASE DeadlinePasses
  BY <1>2 DEF DeadlinePasses
<1>3. CASE Signal
  BY <1>3 DEF Signal, Ended, Promise!ContractNext, Promise!Interrupt
<1> QED
  BY <1>1, <1>2, <1>3

\* Every behaviour of the polling loop is one that the callers of
\* execute_isolated_command are promised.
THEOREM ContractImplemented == Spec => ImplementsContract
<1>1. IInv /\ IInv' /\ [Next]_vars => [Promise!ContractNext]_(Promise!contractVars)
  <2> SUFFICES ASSUME IInv, IInv', [Next]_vars
               PROVE  [Promise!ContractNext]_(Promise!contractVars)
    OBVIOUS
  <2>1. CASE ProfilerStep
    BY <2>1, WatchingRefines, EndingRefines DEF ProfilerStep
  <2>2. CASE TargetStep \/ DeadlinePasses \/ Signal
    BY <2>2, OtherRefines
  <2>3. CASE UNCHANGED vars
    BY <2>3 DEF vars, Promise!contractVars, Forced, Running
  <2> QED
    BY <2>1, <2>2, <2>3 DEF Next
<1> QED
  BY <1>1, SpecIInv, InitRefines, PTL
     DEF Spec, ImplementsContract, Promise!Contract
=============================================================================
