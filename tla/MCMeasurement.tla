--------------------------- MODULE MCMeasurement ---------------------------
(***************************************************************************)
(* Measurement for TLC.                                                    *)
(***************************************************************************)
EXTENDS Measurement

\* The group with more samples is the one with less weight.
UnequalCosts == {<<1, 2>>, <<2, 1>>}

\* What is recorded does not depend on how often the target ran before.
RecordOnce ==
  Requests(scenario, "native-perf") => scenario.warmups <= 1 /\ scenario.measured <= 1
=============================================================================
