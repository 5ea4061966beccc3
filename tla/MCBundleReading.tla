-------------------------- MODULE MCBundleReading --------------------------
(***************************************************************************)
(* BundleReading for TLC: a capture of an HTTP scenario, and another that  *)
(* is alike, differs in one thing, or is of another workload.              *)
(*                                                                         *)
(* Captures and directories are treated alike and no liveness is checked,  *)
(* so both are symmetry sets.  Orders that make no difference are explored *)
(* once: a capture at a path the command is not given steps before it      *)
(* starts, none steps between two steps of the command of which the second *)
(* looks at no file, or after its answer, and an interrupted capture       *)
(* leaves what one leaves that fails at the same step.  A capture that has *)
(* ended is not looked at any more.                                        *)
(***************************************************************************)
EXTENDS BundleReading, TLC

Http == [workload |-> "http", kind |-> 1, tool |-> 1, metrics |-> 1, late |-> FALSE]

OtherMetrics == [Http EXCEPT !.metrics = 2]

MCProfiles ==
  {Http, [Http EXCEPT !.tool = 2], [Http EXCEPT !.kind = 2], OtherMetrics,
   [Http EXCEPT !.late = TRUE],
   [workload |-> "browser", kind |-> 3, tool |-> 3, metrics |-> 0, late |-> FALSE],
   [workload |-> "other", kind |-> 4, tool |-> 3, metrics |-> 1, late |-> FALSE]}

\* Captures at one path differ in their metrics or in nothing.
Instance ==
  /\ \E c \in Captures : profile[c] = Http
  /\ \A c, e \in Captures : c # e /\ output[c] = output[e] => profile[c] \in {Http, OtherMetrics}

\* Nothing is promised any more of a command that was given other bundles than its
\* captures', or changed ones, and was then disturbed.
Promised == sound \/ ~stale

LooksAtNoFile ==
  \/ step = "hash" /\ checked = Files
  \/ step = "parse" /\ checked = Parsed(seen)
  \/ step = "read" /\ Len(got) = Len(reads)

Explored ==
  /\ step \notin {"answered", "refused"} /\ interrupted' = interrupted
  /\ LooksAtNoFile => vars' = vars
  /\ step # "idle" => \A c \in Captures :
       (pc'[c] = pc[c] /\ done'[c] = done[c]) \/ \E i \in 1..Len(targets) : targets[i] = output[c]

Rest(c) == IF Finished(c) THEN "ended" ELSE <<pc[c], done[c], digests[c]>>
View == <<output, [c \in Captures |-> Rest(c)], shared, disk, profile, reader, changes, sound, stale>>

Symmetry == Permutations(Captures) \cup Permutations(Dirs)
=============================================================================
