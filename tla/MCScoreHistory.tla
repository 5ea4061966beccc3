--------------------------- MODULE MCScoreHistory ---------------------------
(***************************************************************************)
(* ScoreHistory for TLC.  Which digest a file has makes no difference to   *)
(* the history, so those of the first commit are fixed.                    *)
(***************************************************************************)
EXTENDS ScoreHistory

FirstDigests ==
  Commits > 0 => /\ made[1].workload = CHOOSE w \in Workloads : TRUE
                 /\ made[1].scenario = CHOOSE s \in Scenarios : TRUE
=============================================================================
