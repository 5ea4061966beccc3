--------------------------- MODULE CommandResults ---------------------------
(***************************************************************************)
(* The results of execute_isolated_command (src/capture.rs), shared by the *)
(* call's own module and by the modules of its callers.                    *)
(***************************************************************************)

\* "ok", "failed" and "timedOut" are the samples sample_from_status builds;
\* "interrupted" and "error" are its Err returns.
Samples == {"ok", "failed", "timedOut"}
Answers == Samples \cup {"interrupted", "error"}

\* The results a call may end with, given the flag and the argument.
Allowed(flag, interruptible) ==
  Samples \cup {"error"} \cup (IF flag /\ interruptible THEN {"interrupted"} ELSE {})
=============================================================================
