------------------------ MODULE CaptureBundleProofs ------------------------
(***************************************************************************)
(* Proofs about CaptureBundle for every number of captures, directories    *)
(* and artifacts.  Captures may have one output path at the same time; the *)
(* history shared names the paths where they had, and what cannot be said  *)
(* of those is said of all others.                                         *)
(***************************************************************************)
EXTENDS CaptureBundle, TLAPS

-----------------------------------------------------------------------------
(* Types. *)

LEMMA InitTypes == Init => TypeOK
  BY FilesAssumption DEF Init, TypeOK, Steps, NoDigests, NoManifest, Manifests, Contents,
                         Missing, Artifacts, FilesAssumption

LEMMA NextTypes == TypeOK /\ [Next]_vars => TypeOK'
<1> SUFFICES ASSUME TypeOK, [Next]_vars
             PROVE  TypeOK'
  OBVIOUS
<1> USE FilesAssumption DEF FilesAssumption
<1>1. ASSUME NEW c \in Captures, CaptureStep(c)
      PROVE  TypeOK'
  <2>1. CASE CheckOutput(c)
    BY <2>1 DEF CheckOutput, Share, TypeOK, Goto, Steps, disk
  <2>2. CASE Measure(c)
    BY <2>2 DEF Measure, TypeOK, Goto, Steps, disk
  <2>3. CASE CreateDirectory(c)
    BY <2>3 DEF CreateDirectory, TypeOK, Goto, Steps
  <2>4. CASE BeginArtifacts(c)
    BY <2>4 DEF BeginArtifacts, Proceed, TypeOK, Goto, Steps, disk
  <2>5. CASE Truncate(c)
    <3> DEFINE d == output[c]
               torn == [by |-> c, whole |-> FALSE]
    <3>1. d \in Dirs /\ done[c] + 1 \in Artifacts /\ torn \in Contents
      BY <2>5 DEF Truncate, TypeOK, Artifacts, Contents
    <3>2. file' = [file EXCEPT ![d][done[c] + 1] = torn]
      BY <2>5 DEF Truncate
    <3>3. file' \in [Dirs -> [Artifacts -> Contents]]
      BY <3>1, <3>2 DEF TypeOK
    <3> QED
      BY <2>5, <3>3 DEF Truncate, TypeOK, Goto, Steps
  <2>6. CASE Fill(c)
    <3> PICK whole \in BOOLEAN :
          file' = [file EXCEPT ![output[c]][done[c] + 1] = [by |-> c, whole |-> whole]]
      BY <2>6 DEF Fill
    <3>1. output[c] \in Dirs /\ done[c] + 1 \in Artifacts /\ done[c] \in Nat
      BY <2>6 DEF Fill, TypeOK, Artifacts
    <3>2. file' \in [Dirs -> [Artifacts -> Contents]]
      BY <3>1 DEF TypeOK, Contents
    <3>3. done' \in [Captures -> 0..Files]
      BY <2>6, <3>1 DEF Fill, TypeOK, Artifacts
    <3> QED
      BY <2>6, <3>2, <3>3 DEF Fill, TypeOK, Goto, Steps
  <2>7. CASE BeginDigests(c)
    BY <2>7 DEF BeginDigests, Proceed, TypeOK, Goto, Steps, disk
  <2>8. CASE Hash(c)
    <3>1. done[c] + 1 \in Artifacts /\ output[c] \in Dirs /\ done[c] \in Nat
      BY <2>8 DEF Hash, TypeOK, Artifacts
    <3> DEFINE n == done[c] + 1
    <3>2. \/ UNCHANGED <<done, digests>>
          \/ /\ digests' = [digests EXCEPT ![c][n] = file[output[c]][n]]
             /\ done' = [done EXCEPT ![c] = n]
      BY <2>8 DEF Hash
    <3>3. n \in 0..Files /\ file[output[c]][n] \in Contents
      BY <3>1 DEF TypeOK, Artifacts
    <3>4. done' \in [Captures -> 0..Files]
      BY <3>2, <3>3 DEF TypeOK
    <3>5. digests' \in [Captures -> [Artifacts -> Contents]]
      <4>1. CASE UNCHANGED digests
        BY <4>1 DEF TypeOK
      <4>2. CASE digests' = [digests EXCEPT ![c][n] = file[output[c]][n]]
        <5>1. digests[c] \in [Artifacts -> Contents]
          BY DEF TypeOK
        <5>2. [digests[c] EXCEPT ![n] = file[output[c]][n]] \in [Artifacts -> Contents]
          BY <3>3, <5>1
        <5> QED
          BY <4>2, <5>2 DEF TypeOK
      <4> QED
        BY <3>2, <4>1, <4>2
    <3> QED
      BY <2>8, <3>4, <3>5 DEF Hash, TypeOK, Goto, Steps, disk
  <2>9. CASE BeginManifest(c)
    BY <2>9 DEF BeginManifest, Proceed, TypeOK, Goto, Steps, disk
  <2>10. CASE TruncateManifest(c)
    BY <2>10 DEF TruncateManifest, TypeOK, Goto, Steps, Manifests
  <2>11. CASE FillManifest(c)
    <3> PICK whole \in BOOLEAN :
          manifest' = [manifest EXCEPT ![output[c]] =
                         [@ EXCEPT !.by = c, !.whole = whole, !.digests = digests[c]]]
      BY <2>11 DEF FillManifest
    <3>1. manifest[output[c]] \in Manifests /\ digests[c] \in [Artifacts -> Contents]
      BY DEF TypeOK
    <3>2. [manifest[output[c]] EXCEPT !.by = c, !.whole = whole, !.digests = digests[c]]
            \in Manifests
      BY <3>1 DEF Manifests
    <3>3. manifest' \in [Dirs -> Manifests]
      BY <3>2 DEF TypeOK
    <3> QED
      BY <2>11, <3>3 DEF FillManifest, TypeOK, Goto, Steps
  <2>12. CASE Confirm(c)
    BY <2>12 DEF Confirm, Proceed, TypeOK, Goto, Steps, disk
  <2> QED
    BY <1>1, <2>1, <2>2, <2>3, <2>4, <2>5, <2>6, <2>7, <2>8, <2>9, <2>10, <2>11, <2>12
       DEF CaptureStep
<1>2. ASSUME NEW c \in Captures, FileError(c) \/ Signal(c) \/ Kill(c)
      PROVE  TypeOK'
  <2>1. CASE FileError(c) \/ Kill(c)
    BY <1>2, <2>1 DEF FileError, Kill, TypeOK, Goto, Steps, disk
  <2>2. CASE Signal(c)
    <3>1. interrupted' \in [Captures -> BOOLEAN]
      BY <2>2, Zenon DEF Signal, TypeOK
    <3>2. (pc[c] \in {"check", "measure"}) \in BOOLEAN
      OBVIOUS
    <3>3. early' \in [Captures -> BOOLEAN]
      BY <2>2, <3>2, Zenon DEF Signal, TypeOK
    <3> QED
      BY <2>2, <3>1, <3>3 DEF Signal, TypeOK, capture, disk
  <2> QED
    BY <1>2, <2>1, <2>2
<1>3. CASE UNCHANGED vars
  BY <1>3 DEF vars, TypeOK, capture, disk
<1> QED
  BY <1>1, <1>2, <1>3 DEF Next

\* The variables keep their kinds (TypeOK), for any number of captures, directories
\* and artifacts.
THEOREM TypeCorrect == Spec => []TypeOK
  BY InitTypes, NextTypes, PTL DEF Spec
-----------------------------------------------------------------------------
(* The invariant. *)

\* One capture at a time is between the check of a path and its last step, unless the
\* path is shared.
Exclusive ==
  \A c, o \in Captures :
    c # o /\ output[c] = output[o] /\ output[c] \notin shared /\ Active(c) => ~Active(o)

Own(c) == [by |-> c, whole |-> TRUE]

\* What a capture has done so far is in its directory as it left it.
Written(c) ==
  /\ pc[c] \in {"check", "measure", "create", "created"} => done[c] = 0
  /\ pc[c] \in {"write", "fill"} => \A n \in 1..done[c] : file[output[c]][n] = Own(c)
  /\ pc[c] = "fill" => file[output[c]][done[c] + 1].by = c
  /\ pc[c] \in {"hash", "seal", "fill_manifest", "confirm"} =>
       \A n \in Artifacts : file[output[c]][n] = Own(c)

Digested(c) ==
  /\ pc[c] = "hash" => \A n \in 1..done[c] : digests[c][n] = Own(c)
  /\ pc[c] \in {"seal", "fill_manifest", "confirm"} => \A n \in Artifacts : digests[c][n] = Own(c)

\* A complete manifest is there from the end of its writing on, and not before.
Sealed(c) ==
  /\ Held(c) => ~exists[output[c]]
  /\ Writing(c) => exists[output[c]]
  /\ Writing(c) /\ pc[c] # "confirm" => ~manifest[output[c]].whole
  /\ pc[c] = "fill_manifest" => manifest[output[c]].by = c
  /\ pc[c] = "confirm" => manifest[output[c]].whole /\ manifest[output[c]].by = c

NothingIn(d) == ~exists[d] => manifest[d].by = NoOne /\ ~manifest[d].whole

\* The digests of a complete manifest are those of whole files of its capture.
Recorded(d) ==
  manifest[d].whole => \A n \in Artifacts : manifest[d].digests[n] = Own(manifest[d].by)

There(c) == Writing(c) => exists[output[c]]

\* This holds also when someone changes bundles to which no capture writes.
WritingInv ==
  /\ Exclusive
  /\ \A d \in Dirs : NothingIn(d)
  /\ \A d \in Dirs \ shared : Recorded(d)
  /\ \A c \in Captures : There(c)
  /\ \A c \in Captures : output[c] \notin shared => Written(c) /\ Digested(c) /\ Sealed(c)

\* And this when nobody does.
Committed(d) ==
  manifest[d].whole =>
    \A n \in Artifacts : /\ file[d][n] = [by |-> manifest[d].by, whole |-> TRUE]
                        /\ manifest[d].digests[n] = file[d][n]

Kept(c) == pc[c] = "captured" => manifest[output[c]].whole /\ manifest[output[c]].by = c

PublicationInv ==
  /\ WritingInv
  /\ \A d \in Dirs \ shared : Committed(d)
  /\ \A c \in Captures : output[c] \notin shared => Kept(c)

LEMMA InitInv == Init => WritingInv /\ PublicationInv
  BY DEF Init, WritingInv, PublicationInv, Exclusive, NothingIn, Recorded, Committed, Kept, Written,
         Digested, Sealed, There, Active, Held, Writing, NoManifest

Step(c) == CaptureStep(c) \/ FileError(c) \/ Signal(c) \/ Kill(c)

\* A capture becomes active only at its check, at a path where there is nothing yet, and
\* alone unless that is noted.
Begins(c) ==
  /\ pc[c] = "check" /\ pc'[c] = "measure" /\ ~exists[output[c]]
  /\ shared' = IF \E o \in Captures \ {c} : output[o] = output[c] /\ Active(o)
                 THEN shared \cup {output[c]} ELSE shared
  /\ UNCHANGED disk

LEMMA CapturesBegin ==
  ASSUME TypeOK, NEW c \in Captures, Step(c)
  PROVE  Begins(c) \/ (shared' = shared /\ (Active(c)' => Active(c)))
<1>1. CASE CheckOutput(c)
  <2>1. UNCHANGED disk /\ pc[c] = "check" /\ pc'[c] \in {"refused", "failed", "measure"}
        /\ (pc'[c] = "measure" => ~exists[output[c]])
    BY <1>1 DEF CheckOutput, Goto, TypeOK
  <2> QED
    BY <1>1, <2>1 DEF CheckOutput, Share, Begins, Active, Held, Writing
<1>2. CASE ~CheckOutput(c)
  <2>1. shared' = shared
    BY <1>2 DEF Step, CaptureStep, Measure, CreateDirectory, BeginArtifacts, Truncate, Fill,
                BeginDigests, Hash, BeginManifest, TruncateManifest, FillManifest, Confirm,
                FileError, Signal, Kill
  <2>2. pc'[c] \in {pc[c], "failed", "killed", "captured"} \/ Active(c)
    BY <1>2 DEF Step, CaptureStep, Measure, CreateDirectory, BeginArtifacts, Truncate, Fill,
                BeginDigests, Hash, BeginManifest, TruncateManifest, FillManifest, Confirm,
                FileError, Signal, Kill, Proceed, Goto, capture, TypeOK, Active, Held, Writing
  <2> QED
    BY <2>1, <2>2 DEF Active, Held, Writing
<1> QED
  BY <1>1, <1>2

\* What a step of one capture leaves alone: the other captures, the other directories,
\* and its own directory unless it is active there and, but for a shared path, the
\* manifest is not complete.
Local(c) ==
  /\ output' = output
  /\ \A o \in Captures \ {c} : pc'[o] = pc[o] /\ done'[o] = done[o] /\ digests'[o] = digests[o]
  /\ \A d \in Dirs \ {output[c]} :
       exists'[d] = exists[d] /\ file'[d] = file[d] /\ manifest'[d] = manifest[d]
  /\ exists[output[c]] => exists'[output[c]]
  /\ \/ UNCHANGED disk
     \/ /\ Active(c) /\ Writing(c)' /\ shared' = shared
        /\ output[c] \in shared \/ ~manifest[output[c]].whole

LEMMA StepsAreLocal ==
  ASSUME TypeOK, WritingInv, NEW c \in Captures, Step(c)
  PROVE  Local(c)
<1>1. CASE \/ CheckOutput(c) \/ Measure(c) \/ BeginArtifacts(c) \/ BeginDigests(c) \/ Hash(c)
          \/ BeginManifest(c) \/ Confirm(c) \/ FileError(c) \/ Signal(c) \/ Kill(c)
  <2>1. UNCHANGED <<output, disk>>
    BY <1>1 DEF CheckOutput, Measure, BeginArtifacts, BeginDigests, Hash, BeginManifest, Confirm,
                FileError, Signal, Kill
  <2>2. \A o \in Captures \ {c} :
          pc'[o] = pc[o] /\ done'[o] = done[o] /\ digests'[o] = digests[o]
    BY <1>1 DEF CheckOutput, Measure, BeginArtifacts, BeginDigests, Hash, BeginManifest, Confirm,
                FileError, Signal, Kill, Proceed, Goto, capture, TypeOK
  <2> QED
    BY <2>1, <2>2 DEF Local, disk
<1>2. CASE CreateDirectory(c)
  BY <1>2 DEF CreateDirectory, Goto, Local, TypeOK, Active, Held, WritingInv, NothingIn,
              Sealed, Writing
<1>3. CASE Truncate(c)
  BY <1>3 DEF Truncate, Goto, Local, TypeOK, Active, Writing, WritingInv, Sealed
<1>4. CASE Fill(c)
  BY <1>4 DEF Fill, Goto, Local, TypeOK, Active, Writing, WritingInv, Sealed
<1>5. CASE TruncateManifest(c)
  BY <1>5 DEF TruncateManifest, Goto, Local, TypeOK, Active, Writing, WritingInv, Sealed
<1>6. CASE FillManifest(c)
  BY <1>6 DEF FillManifest, Goto, Local, TypeOK, Active, Writing, WritingInv, Sealed
<1> QED
  BY <1>1, <1>2, <1>3, <1>4, <1>5, <1>6 DEF Step, CaptureStep

\* Nothing is in a directory that no capture created, shared or not.
LEMMA DirectoriesComeFirst ==
  ASSUME TypeOK, WritingInv, NEW c \in Captures, Step(c)
  PROVE  (\A o \in Captures : There(o))' /\ (\A d \in Dirs : NothingIn(d))'
<1>1. Local(c) /\ output[c] \in Dirs
  BY StepsAreLocal DEF TypeOK
<1>2. Writing(c)' => exists'[output[c]]
  <2>1. CASE CreateDirectory(c)
    BY <1>1, <2>1 DEF CreateDirectory, TypeOK
  <2>2. CASE ~CreateDirectory(c)
    <3>1. pc'[c] \in {"measure", "create", "captured", "failed", "refused", "killed", pc[c]} \/ Writing(c)
      BY <2>2 DEF Step, CaptureStep, CheckOutput, Measure, BeginArtifacts, Truncate, Fill,
                  BeginDigests, Hash, BeginManifest, TruncateManifest, FillManifest, Confirm,
                  FileError, Signal, Kill, Proceed, Goto, capture, TypeOK, Writing
    <3> QED
      BY <1>1, <3>1 DEF Writing, WritingInv, There, Local
  <2> QED
    BY <2>1, <2>2
<1>3. ASSUME NEW o \in Captures PROVE There(o)'
  <2>1. CASE o = c
    BY <1>1, <1>2, <2>1 DEF There, Local
  <2>2. CASE o # c
    <3>1. output[o] \in Dirs /\ output'[o] = output[o] /\ pc'[o] = pc[o] /\ There(o)
      BY <1>1, <2>2 DEF Local, TypeOK, WritingInv
    <3>2. exists[output[o]] => exists'[output[o]]
      BY <1>1, <3>1 DEF Local
    <3> QED
      BY <3>1, <3>2 DEF There, Writing
  <2> QED
    BY <2>1, <2>2
<1>4. ASSUME NEW d \in Dirs PROVE NothingIn(d)'
  <2>1. NothingIn(d)
    BY DEF WritingInv
  <2>2. CASE d # output[c] \/ UNCHANGED disk
    BY <1>1, <2>1, <2>2 DEF Local, disk, NothingIn
  <2>3. CASE d = output[c] /\ Writing(c)'
    BY <1>2, <2>3 DEF NothingIn
  <2> QED
    BY <1>1, <2>2, <2>3 DEF Local
<1> QED
  BY <1>3, <1>4

\* Nothing the invariant says of other captures and other directories is disturbed.
LEMMA OthersKeepTheirs ==
  ASSUME TypeOK, WritingInv, NEW c \in Captures, Local(c), shared \subseteq shared'
  PROVE  /\ \A o \in Captures \ {c} :
              output[o] \notin shared' => (Written(o) /\ Digested(o) /\ Sealed(o))'
         /\ \A d \in Dirs \ {output[c]} : d \notin shared' => Recorded(d)'
<1>1. ASSUME NEW o \in Captures \ {c}, output[o] \notin shared'
      PROVE  (Written(o) /\ Digested(o) /\ Sealed(o))'
  <2>1. Written(o) /\ Digested(o) /\ Sealed(o) /\ output[o] \in Dirs /\ output[o] \notin shared
    BY <1>1 DEF WritingInv, TypeOK
  <2>2. output'[o] = output[o] /\ pc'[o] = pc[o] /\ done'[o] = done[o] /\ digests'[o] = digests[o]
    BY DEF Local
  <2>3. CASE output[o] # output[c] \/ UNCHANGED disk
    <3>1. /\ exists'[output[o]] = exists[output[o]] /\ file'[output[o]] = file[output[o]]
          /\ manifest'[output[o]] = manifest[output[o]]
      <4>1. CASE output[o] # output[c]
        BY <2>1, <4>1 DEF Local
      <4>2. CASE UNCHANGED disk
        BY <4>2 DEF disk
      <4> QED
        BY <2>3, <4>1, <4>2
    <3>2. Written(o)'
      BY <2>1, <2>2, <3>1 DEF Written, Own
    <3>3. Digested(o)'
      BY <2>1, <2>2 DEF Digested, Own
    <3>4. Sealed(o)'
      BY <2>1, <2>2, <3>1 DEF Sealed, Held, Writing
    <3> QED
      BY <3>2, <3>3, <3>4
  <2>4. CASE output[o] = output[c] /\ Active(c)
    <3>1. ~Active(o)
      BY <2>1, <2>4 DEF WritingInv, Exclusive
    <3> QED
      BY <2>1, <2>2, <3>1 DEF Written, Digested, Sealed, Active, Held, Writing
  <2> QED
    BY <2>3, <2>4 DEF Local
<1>2. \A d \in Dirs \ {output[c]} : d \notin shared' => Recorded(d)'
  BY DEF Local, Recorded, WritingInv, Own
<1> QED
  BY <1>1, <1>2

\* What a step does to the capture's own obligations and to its directory, if that is
\* not shared.
OwnPart(c) ==
  /\ Written(c) /\ Digested(c) /\ Sealed(c)
  /\ NothingIn(output[c]) /\ Recorded(output[c])

LEMMA OwnPartIsKept ==
  ASSUME TypeOK, WritingInv, NEW c \in Captures, Step(c), output[c] \notin shared
  PROVE  OwnPart(c)'
<1> DEFINE d == output[c]
<1>1. d \in Dirs /\ done[c] \in Nat /\ OwnPart(c)
  BY FilesAssumption DEF WritingInv, OwnPart, TypeOK, FilesAssumption
<1>0. \A step \in Steps : Goto(c, step) => pc'[c] = step
  BY DEF Goto, TypeOK
<1>t. file[d] \in [Artifacts -> Contents] /\ manifest[d] \in Manifests
      /\ digests[c] \in [Artifacts -> Contents]
  BY <1>1 DEF TypeOK
<1> USE DEF OwnPart
<1>2. CASE CheckOutput(c)
  <2>1. UNCHANGED <<output, done, digests, disk>> /\ pc[c] = "check"
        /\ pc'[c] \in {"refused", "failed", "measure"} /\ (pc'[c] = "measure" => ~exists[d])
    BY <1>0, <1>1, <1>2 DEF CheckOutput, Steps
  <2> QED
    BY <1>1, <2>1 DEF Written, Digested, Sealed, Held, Writing, NothingIn, Recorded, Own, disk
<1>3. CASE Measure(c) \/ FileError(c) \/ Kill(c)
  <2>1. /\ UNCHANGED <<output, done, digests, disk>>
        /\ (pc'[c] \in {"failed", "killed"}) \/ (pc[c] = "measure" /\ pc'[c] = "create")
    BY <1>0, <1>3 DEF Measure, FileError, Kill, Steps
  <2> QED
    BY <1>1, <2>1 DEF Written, Digested, Sealed, Held, Writing, NothingIn, Recorded, Own, disk
<1>4. CASE Signal(c)
  BY <1>1, <1>4 DEF Signal, Written, Digested, Sealed, Held, Writing, NothingIn, Recorded, Own, disk, capture
<1>5. CASE CreateDirectory(c)
  <2>1. /\ UNCHANGED <<output, done, digests, file, manifest>> /\ pc[c] = "create"
        /\ pc'[c] = "created" /\ exists'[d] /\ ~manifest[d].whole
    BY <1>0, <1>1, <1>5 DEF CreateDirectory, TypeOK, Steps, Sealed, Held, WritingInv, NothingIn
  <2> QED
    BY <1>1, <2>1 DEF Written, Digested, Sealed, Held, Writing, NothingIn, Recorded, Own
<1>6. CASE BeginArtifacts(c)
  <2>1. UNCHANGED <<output, done, digests, disk>> /\ pc[c] = "created" /\ done[c] = 0
        /\ pc'[c] \in {"write", "failed"}
    BY <1>0, <1>1, <1>6 DEF BeginArtifacts, Proceed, Steps, Written
  <2> QED
    BY <1>1, <2>1 DEF Written, Digested, Sealed, Held, Writing, NothingIn, Recorded, Own, disk
<1>7. CASE Truncate(c)
  <2>1. /\ UNCHANGED <<output, done, digests, exists, manifest>> /\ pc[c] = "write"
        /\ pc'[c] = "fill" /\ ~manifest[d].whole /\ done[c] + 1 \in Artifacts
        /\ file'[d] = [file[d] EXCEPT ![done[c] + 1] = [by |-> c, whole |-> FALSE]]
    BY <1>0, <1>1, <1>7, FilesAssumption DEF Truncate, Steps, Sealed, Writing, Artifacts, TypeOK, FilesAssumption
  <2>2. /\ file'[d][done[c] + 1].by = c
        /\ \A n \in 1..done[c] : file'[d][n] = file[d][n]
    <3>1. 1..done[c] \subseteq Artifacts \ {done[c] + 1}
      BY <1>1, <2>1, FilesAssumption DEF Artifacts, FilesAssumption
    <3> QED
      BY <1>t, <2>1, <3>1 DEF Contents
  <2> QED
    BY <1>1, <2>1, <2>2 DEF Written, Digested, Sealed, Held, Writing, NothingIn, Recorded, Own
<1>8. CASE Fill(c)
  <2>1. /\ UNCHANGED <<output, digests, exists, manifest>> /\ pc[c] = "fill"
        /\ pc'[c] = "write" /\ ~manifest[d].whole /\ done'[c] = done[c] + 1
        /\ done[c] + 1 \in Artifacts
    BY <1>0, <1>1, <1>8, FilesAssumption DEF Fill, Steps, Sealed, Writing, Artifacts, TypeOK, FilesAssumption
  <2>2. file'[d] = [file[d] EXCEPT ![done[c] + 1] = Own(c)]
    <3> PICK whole \in BOOLEAN :
          /\ file' = [file EXCEPT ![output[c]][done[c] + 1] = [by |-> c, whole |-> whole]]
          /\ file[output[c]][done[c] + 1].by = c => whole
      BY <1>8 DEF Fill
    <3>1. whole = TRUE
      BY <1>1, <1>8 DEF Fill, Written
    <3> QED
      BY <1>1, <3>1 DEF TypeOK, Own
  <2>3. \A n \in 1..done'[c] : file'[d][n] = Own(c)
    <3>1. 1..done'[c] = 1..done[c] \cup {done[c] + 1} /\ 1..done[c] \subseteq Artifacts
      BY <1>1, <2>1, FilesAssumption DEF Artifacts, FilesAssumption
    <3>2. \A n \in 1..done[c] : n # done[c] + 1 /\ file[d][n] = Own(c)
      BY <1>1, <2>1 DEF Written
    <3> QED
      BY <1>t, <2>1, <2>2, <3>1, <3>2
  <2> QED
    BY <1>1, <2>1, <2>3 DEF Written, Digested, Sealed, Held, Writing, NothingIn, Recorded, Own
<1>9. CASE BeginDigests(c)
  <2>1. /\ UNCHANGED <<output, digests, disk>> /\ pc[c] = "write" /\ done'[c] = 0
        /\ done[c] = Files /\ pc'[c] \in {"hash", "failed"}
    BY <1>0, <1>1, <1>9 DEF BeginDigests, Proceed, Steps, TypeOK
  <2>2. \A n \in Artifacts : file[d][n] = Own(c)
    BY <1>1, <2>1 DEF Written, Artifacts
  <2>3. Written(c)'
    BY <1>1, <2>1, <2>2 DEF Written, Own, disk
  <2>4. Digested(c)'
    <3>1. 1..done'[c] = {}
      BY <2>1
    <3> QED
      BY <1>1, <2>1, <3>1 DEF Digested, Own
  <2>5. Sealed(c)'
    BY <1>1, <2>1 DEF Sealed, Held, Writing, disk
  <2> QED
    BY <1>1, <2>1, <2>3, <2>4, <2>5 DEF NothingIn, Recorded, Own, disk
<1>10. CASE Hash(c)
  <2>1. UNCHANGED <<output, disk>> /\ pc[c] = "hash" /\ done[c] + 1 \in Artifacts
    BY <1>1, <1>10, FilesAssumption DEF Hash, Artifacts, FilesAssumption, disk
  <2>2. CASE pc'[c] = "failed"
    BY <1>1, <2>1, <2>2 DEF Written, Digested, Sealed, Held, Writing, NothingIn, Recorded, Own, disk
  <2>3. CASE /\ pc'[c] = "hash" /\ done'[c] = done[c] + 1
             /\ digests'[c] = [digests[c] EXCEPT ![done[c] + 1] = file[d][done[c] + 1]]
    <3>1. \A n \in 1..done'[c] : digests'[c][n] = Own(c)
      <4>1. 1..done'[c] = 1..done[c] \cup {done[c] + 1} /\ 1..done[c] \subseteq Artifacts
        BY <1>1, <2>1, <2>3, FilesAssumption DEF Artifacts, FilesAssumption
      <4>2. \A n \in 1..done[c] : n # done[c] + 1 /\ digests[c][n] = Own(c)
        BY <1>1, <2>1 DEF Digested
      <4>3. file[d][done[c] + 1] = Own(c)
        BY <1>1, <2>1 DEF Written
      <4> QED
        BY <1>t, <2>1, <2>3, <4>1, <4>2, <4>3
    <3> QED
      BY <1>1, <2>1, <2>3, <3>1 DEF Written, Digested, Sealed, Held, Writing, NothingIn, Recorded, Own, disk
  <2> QED
    <3>1. CASE done[c] + 1 \in 1..Required /\ interrupted[c]
      BY <1>0, <1>10, <2>2, <3>1 DEF Hash, Steps
    <3>2. CASE ~(done[c] + 1 \in 1..Required /\ interrupted[c])
      <4>1. /\ digests' = [digests EXCEPT ![c][done[c] + 1] = file[d][done[c] + 1]]
            /\ done' = [done EXCEPT ![c] = done[c] + 1]
            /\ pc' = pc
        BY <1>10, <3>2 DEF Hash
      <4> QED
        BY <2>1, <2>3, <4>1 DEF TypeOK
    <3> QED
      BY <3>1, <3>2
<1>11. CASE BeginManifest(c)
  <2>1. /\ UNCHANGED <<output, done, digests, disk>> /\ pc[c] = "hash"
        /\ done[c] = Files /\ pc'[c] \in {"seal", "failed"}
    BY <1>0, <1>1, <1>11 DEF BeginManifest, Proceed, Steps
  <2> QED
    BY <1>1, <2>1 DEF Written, Digested, Sealed, Held, Writing, NothingIn, Recorded, Own, disk, Artifacts
<1>12. CASE TruncateManifest(c)
  <2>1. /\ UNCHANGED <<output, done, digests, exists, file>> /\ pc[c] = "seal"
        /\ pc'[c] = "fill_manifest"
        /\ manifest'[d] = [by |-> c, whole |-> FALSE, digests |-> digests[c]]
    BY <1>0, <1>1, <1>12 DEF TruncateManifest, TypeOK, Steps
  <2>2. Written(c)'
    BY <1>1, <2>1 DEF Written, Own
  <2>3. Digested(c)'
    BY <1>1, <2>1 DEF Digested, Own
  <2>4. Sealed(c)'
    BY <1>1, <2>1 DEF Sealed, Held, Writing
  <2>5. exists[d]
    BY <1>1, <2>1 DEF Sealed, Held, Writing
  <2> QED
    BY <1>1, <2>1, <2>2, <2>3, <2>4, <2>5 DEF NothingIn, Recorded, Own
<1>13. CASE FillManifest(c)
  <2>1. /\ UNCHANGED <<output, done, digests, exists, file>> /\ pc[c] = "fill_manifest"
        /\ pc'[c] = "confirm" /\ manifest[d].by = c
    BY <1>0, <1>1, <1>13 DEF FillManifest, Steps, Sealed
  <2>2. manifest'[d].by = c /\ manifest'[d].whole /\ manifest'[d].digests = digests[c]
    BY <1>1, <1>13, <2>1 DEF FillManifest, TypeOK, Manifests
  <2> QED
    BY <1>1, <2>1, <2>2 DEF Written, Digested, Sealed, Held, Writing, NothingIn, Recorded, Own
<1>14. CASE Confirm(c)
  <2>1. UNCHANGED <<output, done, digests, disk>> /\ pc[c] = "confirm"
        /\ pc'[c] \in {"captured", "failed"}
    BY <1>0, <1>1, <1>14 DEF Confirm, Proceed, Steps
  <2> QED
    BY <1>1, <2>1 DEF Written, Digested, Sealed, Held, Writing, NothingIn, Recorded, Own, disk
<1> QED
  BY <1>2, <1>3, <1>4, <1>5, <1>6, <1>7, <1>8, <1>9, <1>10, <1>11, <1>12, <1>13, <1>14
     DEF Step, CaptureStep

LEMMA StepKeepsExclusive ==
  ASSUME TypeOK, WritingInv, NEW c \in Captures, Step(c)
  PROVE  Exclusive'
<1>1. output' = output /\ \A o \in Captures \ {c} : pc'[o] = pc[o]
  BY StepsAreLocal DEF Local
<1>2. \A o \in Captures \ {c} : Active(o)' <=> Active(o)
  BY <1>1 DEF Active, Held, Writing
<1>3. shared \subseteq shared'
  BY CapturesBegin DEF Begins
<1>4. CASE Begins(c)
  BY <1>1, <1>2, <1>3, <1>4 DEF Begins, Exclusive, WritingInv
<1>5. CASE shared' = shared /\ (Active(c)' => Active(c))
  BY <1>1, <1>2, <1>5 DEF Exclusive, WritingInv
<1> QED
  BY <1>4, <1>5, CapturesBegin

LEMMA StepKeepsWriting ==
  ASSUME TypeOK, WritingInv, NEW c \in Captures, Step(c)
  PROVE  WritingInv'
<1>1. Local(c) /\ Exclusive' /\ shared \subseteq shared'
  BY StepsAreLocal, StepKeepsExclusive, CapturesBegin DEF Begins
<1>2. output[c] \notin shared' => OwnPart(c)'
  BY <1>1, OwnPartIsKept
<1>3. \A o \in Captures : output[o] \notin shared' => (Written(o) /\ Digested(o) /\ Sealed(o))'
  BY <1>1, <1>2, OthersKeepTheirs DEF OwnPart
<1>4. \A d \in Dirs : d \notin shared' => Recorded(d)'
  BY <1>1, <1>2, OthersKeepTheirs DEF OwnPart, Local
<1>5. output' = output
  BY <1>1 DEF Local
<1> QED
  BY <1>1, <1>3, <1>4, <1>5, DirectoriesComeFirst DEF WritingInv

LEMMA WritingNext ==
  ASSUME TypeOK, WritingInv, [Next]_vars
  PROVE  WritingInv'
<1>1. CASE UNCHANGED vars
  BY <1>1 DEF vars, capture, disk, WritingInv, Exclusive, NothingIn, Recorded, Written,
              Digested, Sealed, There, Active, Held, Writing, Own
<1> QED
  BY <1>1, StepKeepsWriting DEF Next, Step

\* A step changes a directory that is not shared only when there is no complete manifest.
LEMMA CompleteIsKept ==
  ASSUME TypeOK, WritingInv, [Next]_vars, NEW d \in Dirs, d \notin shared, manifest[d].whole
  PROVE  manifest'[d] = manifest[d] /\ file'[d] = file[d]
<1>1. ASSUME NEW c \in Captures, Step(c)
      PROVE  manifest'[d] = manifest[d] /\ file'[d] = file[d]
  BY <1>1, StepsAreLocal DEF Local, disk
<1>2. CASE UNCHANGED vars
  BY <1>2 DEF vars, disk
<1> QED
  BY <1>1, <1>2 DEF Next, Step

\* A bundle stays final: no capture becomes active where there is one.
LEMMA FinalIsKept ==
  ASSUME TypeOK, WritingInv, [Next]_vars, NEW d \in Dirs, Final(d)
  PROVE  Final(d)' /\ manifest'[d] = manifest[d] /\ file'[d] = file[d]
<1>1. manifest[d].whole /\ exists[d]
  BY DEF Final, WritingInv, NothingIn
<1>2. ASSUME NEW c \in Captures, Step(c)
      PROVE  Final(d)' /\ manifest'[d] = manifest[d] /\ file'[d] = file[d]
  <2>1. Local(c)
    BY <1>2, StepsAreLocal
  <2>2. \/ output[c] = d /\ shared' = shared /\ (Active(c)' => Active(c))
        \/ output[c] # d /\ (d \in shared' <=> d \in shared)
    BY <1>1, <1>2, CapturesBegin DEF Begins
  <2>3. manifest'[d] = manifest[d] /\ file'[d] = file[d]
    BY <1>1, <2>1 DEF Local, disk, Final
  <2>4. \A o \in Captures : output'[o] = d /\ Active(o)' => output[o] = d /\ Active(o)
    BY <2>1, <2>2 DEF Local, Active, Held, Writing
  <2> QED
    BY <2>2, <2>3, <2>4 DEF Final
<1>3. CASE UNCHANGED vars
  BY <1>3 DEF vars, capture, disk, Final, Active, Held, Writing
<1> QED
  BY <1>2, <1>3 DEF Next, Step

\* A manifest that becomes complete is that of a capture whose files are all written.
LEMMA StepKeepsCommitted ==
  ASSUME TypeOK, PublicationInv, NEW c \in Captures, Step(c)
  PROVE  PublicationInv'
<1>1. WritingInv /\ WritingInv' /\ Local(c) /\ output[c] \in Dirs
  BY StepKeepsWriting, StepsAreLocal DEF PublicationInv, TypeOK
<1>2. Next /\ shared \subseteq shared'
  BY CapturesBegin DEF Next, Step, Begins
<1>3. ASSUME NEW d \in Dirs, d \notin shared'
      PROVE  Committed(d)'
  <2>1. CASE manifest[d].whole
    <3>1. manifest'[d] = manifest[d] /\ file'[d] = file[d]
      BY <1>1, <1>2, <1>3, <2>1, CompleteIsKept
    <3> QED
      BY <1>2, <1>3, <3>1 DEF PublicationInv, Committed
  <2>2. CASE ~manifest[d].whole /\ manifest'[d].whole
    <3>1. d = output[c] /\ output' = output /\ Writing(c)'
      BY <1>1, <2>2 DEF Local, disk
    <3>2. pc'[c] = "confirm" /\ manifest'[d].by = c
      BY <1>1, <1>3, <2>2, <3>1 DEF WritingInv, Sealed
    <3>3. \A n \in Artifacts : file'[d][n] = Own(c)
      BY <1>1, <1>3, <3>1, <3>2 DEF WritingInv, Written, Own
    <3>4. \A n \in Artifacts : manifest'[d].digests[n] = Own(c)
      BY <1>1, <1>3, <2>2, <3>2 DEF WritingInv, Recorded, Own
    <3> QED
      BY <3>2, <3>3, <3>4 DEF Committed, Own
  <2>3. CASE ~manifest'[d].whole
    BY <2>3 DEF Committed
  <2> QED
    BY <2>1, <2>2, <2>3
<1>4. ASSUME NEW o \in Captures, output[o] \notin shared'
      PROVE  Kept(o)'
  <2>0. output'[o] = output[o] /\ output[o] \in Dirs /\ output[o] \notin shared
    BY <1>1, <1>2, <1>4 DEF Local, TypeOK
  <2>1. CASE pc[o] \in {"confirm", "captured"}
    <3>1. manifest[output[o]].whole /\ manifest[output[o]].by = o
      BY <1>1, <2>0, <2>1 DEF WritingInv, Sealed, PublicationInv, Kept
    <3> QED
      BY <1>1, <1>2, <2>0, <3>1, CompleteIsKept DEF Kept
  <2>2. CASE pc[o] \notin {"confirm", "captured"}
    <3>1. pc'[o] # "captured"
      <4>1. CASE o # c
        BY <1>1, <2>2, <4>1 DEF Local
      <4>2. CASE o = c
        BY <2>2, <4>2 DEF Step, CaptureStep, CheckOutput, Measure, CreateDirectory, BeginArtifacts,
             Truncate, Fill, BeginDigests, Hash, BeginManifest, TruncateManifest, FillManifest,
             Confirm, FileError, Signal, Kill, Proceed, Goto, capture, TypeOK
      <4> QED
        BY <4>1, <4>2
    <3> QED
      BY <3>1 DEF Kept
  <2> QED
    BY <2>1, <2>2
<1>5. output' = output
  BY <1>1 DEF Local
<1> QED
  BY <1>1, <1>3, <1>4, <1>5 DEF PublicationInv

LEMMA NextInv ==
  ASSUME TypeOK, PublicationInv, [Next]_vars
  PROVE  PublicationInv'
<1>1. CASE UNCHANGED vars
  <2>1. WritingInv'
    BY WritingNext DEF PublicationInv
  <2> QED
    BY <1>1, <2>1 DEF vars, capture, disk, PublicationInv, Committed, Kept
<1> QED
  BY <1>1, StepKeepsCommitted DEF Next, Step

LEMMA PublicationHolds == Spec => [](TypeOK /\ PublicationInv)
  BY InitTypes, NextTypes, InitInv, NextInv, PTL DEF Spec
-----------------------------------------------------------------------------
(* What must hold. *)

\* A complete manifest commits to the directory it is in (ManifestCommits): whole files
\* of one capture, with the digests it records, unless two captures had the path at once.
THEOREM CompleteManifests == Spec => []ManifestCommits
<1>1. PublicationInv => ManifestCommits
  BY DEF PublicationInv, Committed, ManifestCommits
<1> QED
  BY <1>1, PublicationHolds, PTL

\* Success is reported only for a bundle that is there (CapturedIsPublished), also long
\* after the capture, whatever captures are started later; not where another one had
\* passed the check of the path at the same time.
THEOREM SuccessIsPublished == Spec => []CapturedIsPublished
<1>1. PublicationInv => CapturedIsPublished
  BY DEF PublicationInv, Kept, CapturedIsPublished
<1> QED
  BY <1>1, PublicationHolds, PTL

\* A published bundle is final (PublishedIsFinal): no step of any capture changes a
\* complete bundle, nor, where two captures had the path at once, one that both have left.
THEOREM EvidenceIsImmutable == Spec => PublishedIsFinal
<1>1. TypeOK /\ PublicationInv /\ [Next]_vars =>
        [\A d \in Dirs : Final(d) =>
           Final(d)' /\ manifest'[d] = manifest[d] /\ file'[d] = file[d]]_vars
  BY FinalIsKept DEF PublicationInv
<1> QED
  BY <1>1, PublicationHolds, PTL DEF Spec, PublishedIsFinal

\* The bundles on disk implement atomic, immutable publication (ImplementsPublication):
\* a directory's bundle appears in one step and stays, unless two captures have the path
\* at once, which begins only while there is no bundle.
THEOREM PublicationImplemented == Spec => ImplementsPublication
<1> DEFINE bundle == [d \in Dirs |-> Visible(d)]
<1>1. Init => Store!PublicationInit
  BY DEF Init, Store!PublicationInit, Visible, NoManifest
<1>2. ASSUME TypeOK, TypeOK', PublicationInv, [Next]_vars
      PROVE  [Store!PublicationNext]_<<bundle, shared>>
  <2>1. ASSUME NEW c \in Captures, Step(c)
        PROVE  \/ UNCHANGED <<bundle, shared>>
               \/ Store!Contest(output[c]) \/ Store!Rewrite(output[c]) \/ Store!Publish(c, output[c])
    <3>1. Local(c) /\ output[c] \in Dirs
      BY <1>2, <2>1, StepsAreLocal DEF TypeOK, PublicationInv
    <3> PICK e \in Dirs : e = output[c]
      BY <3>1
    <3>2. \A d \in Dirs \ {e} : Visible(d)' = Visible(d)
      BY <3>1 DEF Local, Visible
    <3>0. CASE shared' # shared
      <4>1. shared' = shared \cup {e} /\ ~exists[e] /\ UNCHANGED disk
        BY <1>2, <2>1, <3>0, CapturesBegin DEF Begins
      <4>2. bundle[e] = NoOne /\ bundle' = bundle
        BY <1>2, <4>1 DEF PublicationInv, WritingInv, NothingIn, Visible, disk
      <4> QED
        BY <4>1, <4>2 DEF Store!Contest
    <3>3. CASE shared' = shared /\ Visible(e)' = Visible(e)
      BY <3>2, <3>3
    <3>5. CASE shared' = shared /\ e \in shared
      <4>1. Visible(e)' \in Captures \cup {NoOne}
        BY <1>2 DEF TypeOK, Manifests, Visible
      <4>2. bundle' = [bundle EXCEPT ![e] = Visible(e)']
        BY <3>2
      <4> QED
        BY <3>5, <4>1, <4>2 DEF Store!Rewrite
    <3>4. CASE shared' = shared /\ e \notin shared /\ Visible(e)' # Visible(e)
      <4>1. ~manifest[e].whole
        BY <3>1, <3>4 DEF Local, disk, Visible
      <4>2. manifest'[e].whole
        BY <3>4, <4>1 DEF Visible
      <4>3. FillManifest(c)
        <5>1. CASE CreateDirectory(c) \/ Truncate(c) \/ Fill(c)
          BY <4>1, <4>2, <5>1 DEF CreateDirectory, Truncate, Fill
        <5>2. CASE TruncateManifest(c)
          BY <1>2, <4>2, <5>2 DEF TruncateManifest, TypeOK
        <5>3. CASE UNCHANGED disk
          BY <4>1, <4>2, <5>3 DEF disk
        <5> QED
          BY <2>1, <5>1, <5>2, <5>3
             DEF Step, CaptureStep, CheckOutput, Measure, BeginArtifacts, BeginDigests, Hash,
                 BeginManifest, Confirm, FileError, Signal, Kill
      <4>4. manifest'[e].by = c
        BY <1>2, <4>3 DEF FillManifest, TypeOK, Manifests
      <4>5. Visible(e) = NoOne /\ Visible(e)' = c
        BY <4>1, <4>2, <4>4 DEF Visible
      <4>6. bundle[e] = NoOne /\ bundle' = [bundle EXCEPT ![e] = c]
        BY <3>2, <4>5
      <4> QED
        BY <3>4, <4>6 DEF Store!Publish
    <3> QED
      BY <3>0, <3>3, <3>4, <3>5
  <2>2. CASE UNCHANGED vars
    BY <2>2 DEF vars, disk, Visible
  <2>3. \A c \in Captures : output[c] \in Dirs
    BY <1>2 DEF TypeOK
  <2> QED
    BY <1>2, <2>1, <2>2, <2>3 DEF Next, Step, Store!PublicationNext
<1> QED
  BY <1>1, <1>2, PublicationHolds, PTL DEF Spec, ImplementsPublication, Store!Atomic
-----------------------------------------------------------------------------
(* Early interruptions. *)

\* A capture that was interrupted while it measured still has the flag set and is not
\* past the next look at it; before that it has written nothing.
EarlyInv ==
  \A c \in Captures :
    /\ early[c] => /\ interrupted[c]
                   /\ pc[c] \in {"check", "measure", "failed", "refused", "killed"}
    /\ early[c] \/ pc[c] \in {"check", "measure"} =>
         \A d \in Dirs, n \in Artifacts : file[d][n].by # c

LEMMA EarlyInit == Init => EarlyInv
<1> SUFFICES ASSUME Init
             PROVE  EarlyInv
  OBVIOUS
<1>1. \A d \in Dirs, n \in Artifacts : file[d][n].by = NoOne
  BY DEF Init, NoDigests, Missing
<1>2. \A c \in Captures : ~early[c] /\ c # NoOne
  BY NoOneAssumption DEF Init, NoOneAssumption
<1> QED
  BY <1>1, <1>2 DEF EarlyInv

LEMMA EarlyNext == TypeOK /\ EarlyInv /\ [Next]_vars => EarlyInv'
<1> SUFFICES ASSUME TypeOK, EarlyInv, [Next]_vars
             PROVE  EarlyInv'
  OBVIOUS
<1>1. ASSUME NEW c \in Captures, Truncate(c) \/ Fill(c)
      PROVE  EarlyInv'
  <2>1. /\ UNCHANGED <<early, interrupted>> /\ ~early[c]
        /\ pc[c] \notin {"check", "measure"} /\ pc'[c] \notin {"check", "measure"}
        /\ \A o \in Captures \ {c} : pc'[o] = pc[o]
    BY <1>1 DEF Truncate, Fill, Goto, EarlyInv, TypeOK
  <2>2. \A d \in Dirs, n \in Artifacts : file'[d][n] = file[d][n] \/ file'[d][n].by = c
    <3> PICK whole \in BOOLEAN :
          file' = [file EXCEPT ![output[c]][done[c] + 1] = [by |-> c, whole |-> whole]]
      BY <1>1 DEF Truncate, Fill
    <3>1. \A d \in Dirs : file[d] \in [Artifacts -> Contents]
      BY DEF TypeOK
    <3> QED
      BY <3>1 DEF TypeOK
  <2> QED
    BY <2>1, <2>2 DEF EarlyInv
<1>2. ASSUME NEW c \in Captures, Signal(c)
      PROVE  EarlyInv'
  BY <1>2 DEF Signal, EarlyInv, capture, disk, TypeOK
<1>3. ASSUME NEW c \in Captures,
             \/ CheckOutput(c) \/ Measure(c) \/ CreateDirectory(c) \/ BeginArtifacts(c)
             \/ BeginDigests(c) \/ Hash(c) \/ BeginManifest(c) \/ TruncateManifest(c)
             \/ FillManifest(c) \/ Confirm(c) \/ FileError(c) \/ Kill(c)
      PROVE  EarlyInv'
  <2>1. UNCHANGED <<early, interrupted, file>> /\ \A o \in Captures \ {c} : pc'[o] = pc[o]
    BY <1>3 DEF CheckOutput, Measure, CreateDirectory, BeginArtifacts, BeginDigests, Hash,
                BeginManifest, TruncateManifest, FillManifest, Confirm, FileError, Kill,
                Proceed, Goto, disk, TypeOK
  <2>2. early[c] => pc'[c] \in {"check", "measure", "failed", "refused", "killed"}
    BY <1>3 DEF CheckOutput, Measure, CreateDirectory, BeginArtifacts, BeginDigests, Hash,
                BeginManifest, TruncateManifest, FillManifest, Confirm, FileError, Kill,
                Proceed, Goto, EarlyInv, TypeOK
  <2>3. pc'[c] \in {"check", "measure"} => pc[c] \in {"check", "measure"}
    BY <1>3 DEF CheckOutput, Measure, CreateDirectory, BeginArtifacts, BeginDigests, Hash,
                BeginManifest, TruncateManifest, FillManifest, Confirm, FileError, Kill,
                Proceed, Goto, TypeOK
  <2> QED
    BY <2>1, <2>2, <2>3 DEF EarlyInv
<1>4. CASE UNCHANGED vars
  BY <1>4 DEF vars, capture, disk, EarlyInv
<1> QED
  BY <1>1, <1>2, <1>3, <1>4 DEF Next, CaptureStep

\* A capture interrupted while it measured leaves no trace at its output path
\* (EarlyInterruptionWritesNothing).
THEOREM EarlyInterruption == Spec => []EarlyInterruptionWritesNothing
<1>1. TypeOK /\ EarlyInv => EarlyInterruptionWritesNothing
  BY DEF TypeOK, EarlyInv, EarlyInterruptionWritesNothing
<1> QED
  BY <1>1, InitTypes, NextTypes, EarlyInit, EarlyNext, PTL DEF Spec
=============================================================================
