---------------------------- MODULE Publication ----------------------------
(***************************************************************************)
(* What docs/architecture.md promises of bundles: a directory holds no     *)
(* bundle until a capture publishes all of one at once, and a bundle is    *)
(* never changed.  The code keeps this promise unless two captures have    *)
(* one output path at once, which only happens while it holds no bundle.   *)
(***************************************************************************)

CONSTANTS Captures, Dirs, NoOne

VARIABLES
  bundle,      \* for each directory: NoOne, or the capture whose bundle it holds
  contested    \* the directories that two captures had at once

PublicationInit == bundle = [d \in Dirs |-> NoOne] /\ contested = {}

Publish(c, d) ==
  /\ d \notin contested /\ bundle[d] = NoOne
  /\ bundle' = [bundle EXCEPT ![d] = c]
  /\ UNCHANGED contested

Contest(d) ==
  /\ bundle[d] = NoOne
  /\ contested' = contested \cup {d}
  /\ UNCHANGED bundle

\* Nothing is said of a contested directory.
Rewrite(d) ==
  /\ d \in contested
  /\ \E c \in Captures \cup {NoOne} : bundle' = [bundle EXCEPT ![d] = c]
  /\ UNCHANGED contested

PublicationNext ==
  \E d \in Dirs : Contest(d) \/ Rewrite(d) \/ \E c \in Captures : Publish(c, d)

Atomic == PublicationInit /\ [][PublicationNext]_<<bundle, contested>>
=============================================================================
