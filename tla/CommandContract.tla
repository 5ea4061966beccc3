-------------------------- MODULE CommandContract --------------------------
(***************************************************************************)
(* What execute_isolated_command (src/capture.rs) promises its callers:    *)
(* the target, the browser driver, curl and the fixture's teardown command *)
(* are all run through it.  The polling loop, the clock and the two        *)
(* system calls behind terminate_process are hidden; what is left is when  *)
(* the call may return which result, and what is still running then.       *)
(***************************************************************************)

EXTENDS CommandResults

CONSTANT Processes   \* every process the target's group can hold

VARIABLES
  phase,        \* "called", "running", "forced" (ended by force), "returned" or "killed"
  mayInterrupt, \* the `interruptible` argument
  interrupted,  \* the INTERRUPTED flag
  live,         \* the target's processes that run, but for those that no signal could
                \* reach when the call was ended by force, and what they fork
  answer        \* the call's result, "none" until it returns

contractVars == <<phase, mayInterrupt, interrupted, live, answer>>

ContractInit ==
  /\ phase = "called"
  /\ mayInterrupt \in BOOLEAN
  /\ interrupted \in BOOLEAN
  /\ live = {}
  /\ answer = "none"

\* The target starts.
Start ==
  /\ phase = "called"
  /\ phase' = "running"
  /\ live' \subseteq Processes
  /\ UNCHANGED <<mayInterrupt, interrupted, answer>>

\* The target's processes fork, exit and leave the group as they like, until
\* they are ended by force, and again once the call has returned a result that
\* did not end them.
Churn ==
  /\ phase \in {"running", "returned", "killed"}
  /\ phase = "returned" => answer \in {"ok", "failed", "error"}
  /\ live' \subseteq Processes
  /\ UNCHANGED <<phase, mayInterrupt, interrupted, answer>>

\* At its deadline, or when the flag is set and the caller allows it, the call
\* leaves nothing of the target that it could signal.
Force ==
  /\ phase = "running"
  /\ phase' = "forced"
  /\ live' = {}
  /\ UNCHANGED <<mayInterrupt, interrupted, answer>>

\* A timed-out sample is only returned for a group that was ended by force, and
\* an interruption only before the start or after the forced end.
Return(r) ==
  /\ phase \in {"called", "running", "forced"}
  /\ r \in Allowed(interrupted, mayInterrupt)
  /\ r = "timedOut" => phase = "forced"
  /\ r = "interrupted" => phase \in {"called", "forced"}
  /\ r \in {"ok", "failed"} => phase = "running"
  /\ phase' = "returned"
  /\ answer' = r
  /\ UNCHANGED <<mayInterrupt, interrupted, live>>

\* The first signal is only recorded; the next one ends the profiler itself.
Interrupt ==
  /\ phase # "killed"
  /\ IF interrupted
       THEN phase' = "killed" /\ UNCHANGED interrupted
       ELSE interrupted' = TRUE /\ UNCHANGED phase
  /\ UNCHANGED <<mayInterrupt, live, answer>>

ContractNext ==
  \/ Start \/ Churn \/ Force \/ Interrupt
  \/ \E r \in Answers : Return(r)

Contract == ContractInit /\ [][ContractNext]_contractVars
=============================================================================
