------------------------- MODULE HttpCaptureProofs -------------------------
(***************************************************************************)
(* Proofs about HttpCapture for every number of warmup and measured        *)
(* batches, with and without a teardown command.  The batches and the      *)
(* fixture are two invariants, each inductive by itself.                   *)
(***************************************************************************)
EXTENDS HttpCapture, TLAPS

-----------------------------------------------------------------------------
(* The batches. *)

\* Measuring starts when the warmup is complete, and evidence is the result after
\* the last declared batch.
ProgressInv ==
  /\ CountersOK
  /\ batches > 0 => warm = Warmups
  /\ pc \in {"check", "batch"} => warm = Warmups
  /\ pc = "batch" => batches < Measurements
  /\ result = "evidence" => batches = Measurements

LEMMA ProgressInit == Init => ProgressInv
  BY CountsAssumption DEF Init, ProgressInv, CountersOK, CountsAssumption

LEMMA ProgressNext == ProgressInv /\ [Next]_vars => ProgressInv'
<1> SUFFICES ASSUME ProgressInv, [Next]_vars
             PROVE  ProgressInv'
  OBVIOUS
<1> USE CountsAssumption DEF CountsAssumption, ProgressInv, CountersOK
<1>1. CASE Warmup
  BY <1>1 DEF Warmup, Leave, Stay
<1>2. CASE CheckFixture
  BY <1>2 DEF CheckFixture, Leave, Stay, progress
<1>3. CASE MeasureBatch
  BY <1>3 DEF MeasureBatch, Leave, Stay
<1>4. CASE StartFixture \/ StartFails \/ WaitForPort \/ ProbeHealth \/ CheckHealth
  <2>1. UNCHANGED progress
    BY <1>4 DEF StartFixture, StartFails, WaitForPort, ProbeHealth, CheckHealth
  <2>2. pc' \notin {"check", "batch"} /\ result' \in {result, "error"}
    BY <1>4 DEF StartFixture, StartFails, WaitForPort, ProbeHealth, CheckHealth,
                Leave, Stay
  <2> QED
    BY <2>1, <2>2 DEF progress
<1>5. CASE Unavailable \/ ProbeCurl \/ CreateScope
  BY <1>5 DEF Unavailable, ProbeCurl, CreateScope, progress
<1>6. CASE \/ StopNothing \/ StopGroup \/ StopRefused \/ Wait \/ StopFails
           \/ Teardown \/ Finish
  BY <1>6 DEF StopNothing, StopGroup, StopRefused, Wait, StopFails, Teardown, Finish, progress
<1>7. CASE \/ LeaderEnds \/ LeaderMoves \/ HelperStarts \/ HelperGoes \/ ChangeCredentials
           \/ PublishPort \/ ReuseNumber \/ StartupClock \/ PortClock
  BY <1>7 DEF LeaderEnds, LeaderMoves, HelperStarts, HelperGoes, ChangeCredentials,
              PublishPort, ReuseNumber, StartupClock, PortClock, progress
<1>8. CASE Signal
  BY <1>8 DEF Signal, progress
<1>9. CASE UNCHANGED vars
  BY <1>9 DEF vars, progress
<1> QED
  BY <1>1, <1>2, <1>3, <1>4, <1>5, <1>6, <1>7, <1>8, <1>9 DEF Next, ProfilerStep

LEMMA ProgressHolds == Spec => []ProgressInv
  BY ProgressInit, ProgressNext, PTL DEF Spec
-----------------------------------------------------------------------------
(* The fixture and its cleanup. *)

Before == {"probe", "create", "start"}
Working == {"port", "health", "health_check", "warmup", "check", "batch"}
Cleaning == {"stop", "reap", "stop_wait", "teardown", "finish"}

FlagsOK ==
  /\ interrupted \in BOOLEAN /\ refused \in BOOLEAN
  /\ owned \in BOOLEAN /\ portLate \in BOOLEAN /\ startupLate \in BOOLEAN

NamesOK ==
  /\ pc \in Before \cup Working \cup Cleaning \cup {"returned", "killed"}
  /\ group \subseteq Members /\ guarded \subseteq Members /\ spared \subseteq Members
  /\ leader \in {"absent", "running", "ended", "reaped"}
  /\ foreign \in {"none", "running", "signaled"}
  /\ portFile \in {"none", "numeric", "bad"}
  /\ result \in {"none", "evidence", "error"}
  /\ stopped \in {"none", "ok", "failed"}
  /\ teardown \in Answers \cup {"none", "skipped"}
  /\ outcome \in {"none", "evidence", "unavailable", "cleanup", "teardown", "workload"}

KindsOK == FlagsOK /\ NamesOK

\* The child is held from its start to the signal, and nothing of the fixture is there
\* before.
FixtureIsOwned ==
  /\ pc \in Before => leader = "absent" /\ ~owned
  /\ pc \in Working => owned
  /\ owned => leader # "absent" /\ stopped = "none"
  /\ pc = "stop" /\ ~owned => leader = "absent"
  /\ pc \in {"reap", "stop_wait"} => ~owned /\ leader # "absent"
  /\ leader = "absent" => group = {}
  /\ leader = "reaped" => "leader" \notin group
  /\ result = "evidence" => leader # "absent"

\* After the signal every process that is left was out of its reach, or is a child of
\* one that was.  A leader that ended and was not reaped yet is still in the group.
SignalIsComplete ==
  /\ pc \in {"reap", "stop_wait"} \/ stopped # "none" => Running \subseteq spared
  /\ pc = "reap" \/ stopped = "ok" => ~refused

\* The cleanup goes in order, and its results say what it left.
CleanupIsOrdered ==
  /\ pc \in Before \cup Working => result = "none"
  /\ pc \in Cleaning => result # "none"
  /\ pc \in Before \cup Working \cup {"stop"} => ~refused
  /\ pc \in Before \cup Working \cup {"stop", "reap", "stop_wait"} => stopped = "none"
  /\ pc \in {"teardown", "finish"} => stopped # "none"
  /\ pc \notin {"finish", "returned", "killed"} => teardown = "none"
  /\ stopped = "none" => teardown = "none"
  /\ stopped # "none" => leader \in {"absent", "reaped"} /\ ~owned
  /\ stopped = "failed" => leader = "reaped"
  /\ pc = "finish" =>
       /\ TeardownConfigured => teardown \in Answers \ {"interrupted"}
       /\ ~TeardownConfigured => teardown = "skipped"
  /\ outcome # "none" => pc = "returned"
  /\ pc = "returned" => outcome # "none"
  /\ outcome = "evidence" => result = "evidence" /\ stopped = "ok"

FixtureInv ==
  /\ KindsOK
  /\ FixtureIsOwned
  /\ SignalIsComplete
  /\ CleanupIsOrdered
  /\ EvidenceOnlyAfterCleanup
  /\ EveryReturnCleansUp

LEMMA FixtureInit == Init => FixtureInv
  BY DEF Init, FixtureInv, KindsOK, FlagsOK, NamesOK, FixtureIsOwned, SignalIsComplete,
         CleanupIsOrdered, EvidenceOnlyAfterCleanup, EveryReturnCleansUp, Running,
         Before, Working, Cleaning, Answers, Samples, Members

\* A step of the workload stays in it or leaves it for the cleanup; at most it reaps
\* a leader that has ended.
LEMMA WorkloadSteps ==
  ASSUME FixtureInv, pc \in Working,
         \/ pc' \in Working /\ result' = result
         \/ pc' = "stop" /\ result' \in {"evidence", "error"},
         UNCHANGED <<leader, group>> \/ (leader = "ended" /\ Reaped),
         UNCHANGED <<interrupted, guarded, foreign, signal, portFile, owned, clocks, cleanup>>
  PROVE  FixtureInv'
<1> USE DEF FixtureInv, KindsOK, Before, Working, Cleaning, cleanup, signal, Reaped
<1>1. FlagsOK'
  BY Zenon DEF FlagsOK, clocks
<1>2. NamesOK'
  BY DEF NamesOK
<1>3. FixtureIsOwned'
  BY DEF FixtureIsOwned, CleanupIsOrdered
<1>4. CleanupIsOrdered' /\ SignalIsComplete'
  BY DEF CleanupIsOrdered, SignalIsComplete, FixtureIsOwned
<1>5. outcome' = "none" /\ teardown' = "none" /\ pc' # "returned"
  BY DEF CleanupIsOrdered, NamesOK
<1>6. EvidenceOnlyAfterCleanup' /\ EveryReturnCleansUp'
  BY <1>5 DEF EvidenceOnlyAfterCleanup, EveryReturnCleansUp
<1> QED
  BY <1>1, <1>2, <1>3, <1>4, <1>6

\* The steps of the workload are of this kind.
LEMMA WorkloadEffects ==
  ASSUME WaitForPort \/ ProbeHealth \/ CheckHealth \/ Warmup \/ CheckFixture \/ MeasureBatch
  PROVE  /\ pc \in Working
         /\ \/ pc' \in Working /\ result' = result
            \/ pc' = "stop" /\ result' \in {"evidence", "error"}
         /\ UNCHANGED <<leader, group>> \/ (leader = "ended" /\ Reaped)
         /\ UNCHANGED <<interrupted, guarded, foreign, signal, portFile, owned, clocks, cleanup>>
<1> USE DEF Working, Leave, Stay, TryWait
<1>1. CASE WaitForPort
  BY <1>1 DEF WaitForPort
<1>2. CASE ProbeHealth
  BY <1>2 DEF ProbeHealth, fixture
<1>3. CASE CheckHealth
  BY <1>3 DEF CheckHealth
<1>4. CASE Warmup
  BY <1>4 DEF Warmup, fixture
<1>5. CASE CheckFixture
  BY <1>5 DEF CheckFixture
<1>6. CASE MeasureBatch
  BY <1>6 DEF MeasureBatch, fixture
<1> QED
  BY <1>1, <1>2, <1>3, <1>4, <1>5, <1>6

\* The steps that come before the fixture, or run its workload.
LEMMA WorkingSteps ==
  ASSUME FixtureInv,
         \/ Unavailable \/ ProbeCurl \/ CreateScope
         \/ StartFixture \/ StartFails \/ WaitForPort \/ ProbeHealth \/ CheckHealth
         \/ Warmup \/ CheckFixture \/ MeasureBatch
  PROVE  FixtureInv'
<1>1. CASE \/ WaitForPort \/ ProbeHealth \/ CheckHealth
           \/ Warmup \/ CheckFixture \/ MeasureBatch
  BY <1>1, WorkloadEffects, WorkloadSteps
<1> USE DEF FixtureInv, KindsOK, FlagsOK, NamesOK, FixtureIsOwned, SignalIsComplete,
            CleanupIsOrdered, EvidenceOnlyAfterCleanup, EveryReturnCleansUp, Running, Members,
            Before, Working, Cleaning, clocks, fixture, signal, cleanup, Leave, Stay
<1>2. CASE Unavailable
  BY <1>2 DEF Unavailable
<1>3. CASE ProbeCurl
  BY <1>3 DEF ProbeCurl
<1>4. CASE CreateScope
  BY <1>4 DEF CreateScope
<1>5. CASE StartFixture
  BY <1>5 DEF StartFixture
<1>6. CASE StartFails
  BY <1>6 DEF StartFails
<1> QED
  BY <1>1, <1>2, <1>3, <1>4, <1>5, <1>6

\* OwnedFixture::stop, the teardown command and the return.
LEMMA CleaningSteps ==
  ASSUME FixtureInv,
         \/ StopNothing \/ StopGroup \/ StopRefused \/ Wait \/ StopFails \/ Teardown \/ Finish
  PROVE  FixtureInv'
<1> USE TeardownAssumption DEF TeardownAssumption, FixtureInv, KindsOK, FlagsOK, NamesOK,
            FixtureIsOwned, SignalIsComplete, CleanupIsOrdered, EvidenceOnlyAfterCleanup,
            EveryReturnCleansUp, Running, Reached, Members,
            Before, Working, Cleaning, clocks, fixture, signal, cleanup
<1>1. CASE StopNothing
  BY <1>1 DEF StopNothing
<1>2. CASE StopGroup
  BY <1>2 DEF StopGroup, Kill
<1>3. CASE StopRefused
  <2>1. FlagsOK'
    BY <1>3, Zenon DEF StopRefused
  <2>2. NamesOK'
    BY <1>3 DEF StopRefused, Kill
  <2>3. Running' \subseteq spared'
    BY <1>3 DEF StopRefused, Kill, Refused
  <2>4. FixtureIsOwned'
    BY <1>3 DEF StopRefused, Kill
  <2>5. CleanupIsOrdered'
    BY <1>3 DEF StopRefused, Kill
  <2>6. SignalIsComplete'
    BY <1>3, <2>3 DEF StopRefused
  <2>7. EvidenceOnlyAfterCleanup' /\ EveryReturnCleansUp'
    BY <1>3 DEF StopRefused
  <2> QED
    BY <2>1, <2>2, <2>4, <2>5, <2>6, <2>7
<1>4. CASE Wait
  BY <1>4 DEF Wait, Reaped
<1>5. CASE StopFails
  BY <1>5 DEF StopFails, Reaped
<1>6. CASE Teardown
  BY <1>6 DEF Teardown, Allowed, Answers, Samples
<1>7. CASE Finish
  BY <1>7 DEF Finish, Answers, Samples
<1> QED
  BY <1>1, <1>2, <1>3, <1>4, <1>5, <1>6, <1>7

\* What the invariant says of the processes and the cleanup needs only these variables.
LEMMA Elsewhere ==
  ASSUME FixtureInv, KindsOK',
         UNCHANGED <<leader, group, signal, owned, result, stopped, teardown, outcome>>,
         pc' = pc \/ pc' = "killed", pc = "returned" => pc' = pc
  PROVE  FixtureInv'
<1> USE DEF FixtureInv, Before, Working, Cleaning, signal
<1>1. FixtureIsOwned'
  BY DEF FixtureIsOwned, CleanupIsOrdered
<1>2. CleanupIsOrdered' /\ SignalIsComplete'
  BY DEF CleanupIsOrdered, SignalIsComplete, Running
<1>3. EvidenceOnlyAfterCleanup' /\ EveryReturnCleansUp'
  BY DEF EvidenceOnlyAfterCleanup, EveryReturnCleansUp
<1> QED
  BY <1>1, <1>2, <1>3

\* What the processes of the fixture do: none of them starts out of another that the
\* signal reached.
LEMMA FixtureSteps ==
  ASSUME FixtureInv, LeaderEnds \/ LeaderMoves \/ HelperStarts \/ HelperGoes
  PROVE  FixtureInv'
<1> USE DEF FixtureInv, KindsOK, FlagsOK, NamesOK, FixtureIsOwned, SignalIsComplete,
            CleanupIsOrdered, EvidenceOnlyAfterCleanup, EveryReturnCleansUp, Running, Members,
            Before, Working, Cleaning, clocks, signal, cleanup
<1>1. CASE LeaderEnds
  BY <1>1 DEF LeaderEnds
<1>2. CASE LeaderMoves
  BY <1>2 DEF LeaderMoves
<1>3. CASE HelperStarts
  BY <1>3 DEF HelperStarts
<1>4. CASE HelperGoes
  BY <1>4 DEF HelperGoes
<1> QED
  BY <1>1, <1>2, <1>3, <1>4

\* Credentials, the port file, the system, the clocks and the user.
LEMMA OtherSteps ==
  ASSUME FixtureInv,
         \/ ChangeCredentials \/ PublishPort \/ ReuseNumber
         \/ StartupClock \/ PortClock \/ Signal
  PROVE  FixtureInv'
<1> USE DEF FixtureInv, Before, Working, Cleaning, clocks, fixture, cleanup
<1>1. CASE ChangeCredentials
  <2>1. KindsOK'
    BY <1>1 DEF ChangeCredentials, KindsOK, FlagsOK, NamesOK, Running, Members, signal
  <2> QED
    BY <1>1, <2>1, Elsewhere DEF ChangeCredentials
<1>2. CASE PublishPort \/ ReuseNumber
  <2>1. KindsOK'
    BY <1>2 DEF PublishPort, ReuseNumber, KindsOK, FlagsOK, NamesOK, signal
  <2> QED
    BY <1>2, <2>1, Elsewhere DEF PublishPort, ReuseNumber
<1>3. CASE StartupClock \/ PortClock
  <2>1. FlagsOK'
    BY <1>3, Zenon DEF StartupClock, PortClock, KindsOK, FlagsOK, signal
  <2>2. KindsOK'
    BY <1>3, <2>1 DEF StartupClock, PortClock, KindsOK, NamesOK, signal
  <2> QED
    BY <1>3, <2>2, Elsewhere DEF StartupClock, PortClock
<1>4. CASE Signal
  <2>1. FlagsOK'
    BY <1>4, Zenon DEF Signal, KindsOK, FlagsOK, signal
  <2>2. NamesOK'
    BY <1>4 DEF Signal, KindsOK, FlagsOK, NamesOK, signal
  <2> QED
    BY <1>4, <2>1, <2>2, Elsewhere DEF Signal, Ended, KindsOK
<1> QED
  BY <1>1, <1>2, <1>3, <1>4

LEMMA FixtureNext == FixtureInv /\ [Next]_vars => FixtureInv'
<1> SUFFICES ASSUME FixtureInv, [Next]_vars
             PROVE  FixtureInv'
  OBVIOUS
<1>1. CASE ProfilerStep
  BY <1>1, WorkingSteps, CleaningSteps DEF ProfilerStep
<1>2. CASE LeaderEnds \/ LeaderMoves \/ HelperStarts \/ HelperGoes
  BY <1>2, FixtureSteps
<1>3. CASE \/ ChangeCredentials \/ PublishPort \/ ReuseNumber
           \/ StartupClock \/ PortClock \/ Signal
  BY <1>3, OtherSteps
<1>4. CASE UNCHANGED vars
  BY <1>4 DEF vars, fixture, signal, clocks, cleanup, FixtureInv, KindsOK, FlagsOK, NamesOK,
              FixtureIsOwned, SignalIsComplete, Running, CleanupIsOrdered,
              EvidenceOnlyAfterCleanup, EveryReturnCleansUp
<1> QED
  BY <1>1, <1>2, <1>3, <1>4 DEF Next

LEMMA FixtureHolds == Spec => []FixtureInv
  BY FixtureInit, FixtureNext, PTL DEF Spec
-----------------------------------------------------------------------------
(* The invariants. *)

\* The values of the variables; no batch is counted that was not declared.
THEOREM TypeCorrect == Spec => []TypeOK
<1>1. ProgressInv /\ FixtureInv => TypeOK
  BY DEF ProgressInv, FixtureInv, KindsOK, FlagsOK, NamesOK, Before, Working, Cleaning, TypeOK
<1> QED
  BY <1>1, ProgressHolds, FixtureHolds, PTL

\* capture_http returns evidence only when the signal to the fixture's group was not
\* refused, what it could reach of the group is gone, the leader is reaped and the
\* declared teardown command has succeeded.
THEOREM EvidenceAfterCleanup == Spec => []EvidenceOnlyAfterCleanup
  BY FixtureHolds, PTL DEF FixtureInv

\* Evidence holds every declared batch, and none was measured after a warmup batch
\* that failed ("A failed warmup prevents measurement").
EvidenceIsComplete ==
  /\ batches > 0 => warm = Warmups
  /\ outcome = "evidence" => batches = Measurements

\* capture_http measures after a complete warmup only, and returns evidence of all the
\* batches that were declared, however many.
THEOREM CompleteEvidence == Spec => []EvidenceIsComplete
<1>1. ProgressInv /\ FixtureInv => EvidenceIsComplete
  BY DEF ProgressInv, FixtureInv, CleanupIsOrdered, EvidenceIsComplete
<1> QED
  BY <1>1, ProgressHolds, FixtureHolds, PTL

\* No return of capture_http, whatever failed before it, skips OwnedFixture::stop
\* or the declared teardown command.
THEOREM CleanupIsUnconditional == Spec => []EveryReturnCleansUp
  BY FixtureHolds, PTL DEF FixtureInv

\* The teardown command never runs while the leader does, nor while a member of its group
\* is left that the signal could have reached, whatever credentials the members had
\* and whether or not stop() failed.
THEOREM TeardownComesLast == Spec => []TeardownAfterTermination
<1>1. FixtureInv => TeardownAfterTermination
  BY DEF FixtureInv, FixtureIsOwned, SignalIsComplete, CleanupIsOrdered, Running,
         TeardownAfterTermination
<1> QED
  BY <1>1, FixtureHolds, PTL
=============================================================================
