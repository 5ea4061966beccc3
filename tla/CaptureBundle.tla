--------------------------- MODULE CaptureBundle ---------------------------
(***************************************************************************)
(* capture_bundle (src/bundle.rs): captures, each a process of its own,    *)
(* that measure a scenario and then write a bundle: the directory, the     *)
(* artifacts, their digests read back from the files, and last the         *)
(* manifest.                                                               *)
(*                                                                         *)
(* A file is written by truncating it and filling it (fs::write), so a     *)
(* capture that dies in between leaves a torn file.  Captures interleave   *)
(* at every file operation, may be interrupted and killed, and any file    *)
(* operation may fail.  Contents are abstracted to who wrote them and      *)
(* whether they are whole; a digest stands for the content it was taken    *)
(* of.                                                                     *)
(***************************************************************************)
EXTENDS Naturals

CONSTANTS
  Captures,      \* runs of the capture command, at once or one after another
  Dirs,          \* output paths
  Files,         \* number of artifacts, in the order they are written
  Required,      \* the first of them are REQUIRED_ARTIFACTS
  NoOne          \* no capture

ASSUME NoOneAssumption == NoOne \notin Captures
ASSUME FilesAssumption == Files \in Nat /\ Required \in 0..Files

VARIABLES
  output,       \* the output argument of each capture
  pc,           \* where each capture is in capture_bundle
  done,         \* artifacts written, and then artifacts hashed
  digests,      \* the digests a capture has taken so far
  interrupted,  \* the INTERRUPTED flag of each capture's process
  early,        \* history: it was set before the capture reached create_dir_all
  shared,       \* history: paths that two captures had at once, each past its check
  exists,       \* which output paths exist
  file,         \* the artifacts of each directory
  manifest      \* the manifest of each directory

capture == <<pc, done, digests>>
disk    == <<exists, file, manifest>>
vars == <<output, capture, interrupted, early, shared, disk>>

Artifacts == 1..Files
Contents == [by : Captures \cup {NoOne}, whole : BOOLEAN]
Missing == [by |-> NoOne, whole |-> FALSE]
NoDigests == [n \in Artifacts |-> Missing]
Manifests == [by : Captures \cup {NoOne}, whole : BOOLEAN,
              digests : [Artifacts -> Contents]]
NoManifest == [by |-> NoOne, whole |-> FALSE, digests |-> NoDigests]

Steps == {"check", "measure", "create", "created", "write", "fill", "hash", "seal",
          "fill_manifest", "confirm", "captured", "failed", "refused", "killed"}
Finished(c) == pc[c] \in {"captured", "failed", "refused", "killed"}

\* Past the check of its output path; and past create_dir_all.
Held(c) == pc[c] \in {"measure", "create"}
Writing(c) == pc[c] \in {"created", "write", "fill", "hash", "seal", "fill_manifest", "confirm"}
Active(c) == Held(c) \/ Writing(c)

TypeOK ==
  /\ output \in [Captures -> Dirs]
  /\ pc \in [Captures -> Steps]
  /\ done \in [Captures -> 0..Files]
  /\ digests \in [Captures -> [Artifacts -> Contents]]
  /\ interrupted \in [Captures -> BOOLEAN] /\ early \in [Captures -> BOOLEAN]
  /\ shared \subseteq Dirs
  /\ exists \in [Dirs -> BOOLEAN]
  /\ file \in [Dirs -> [Artifacts -> Contents]]
  /\ manifest \in [Dirs -> Manifests]
  /\ \A c \in Captures : pc[c] = "fill" => done[c] < Files

Init ==
  /\ output \in [Captures -> Dirs]
  /\ pc = [c \in Captures |-> "check"]
  /\ done = [c \in Captures |-> 0]
  /\ digests = [c \in Captures |-> NoDigests]
  /\ interrupted = [c \in Captures |-> FALSE]
  /\ early = [c \in Captures |-> FALSE]
  /\ shared = {}
  /\ exists = [d \in Dirs |-> FALSE]
  /\ file = [d \in Dirs |-> NoDigests]
  /\ manifest = [d \in Dirs |-> NoManifest]

Goto(c, step) == pc' = [pc EXCEPT ![c] = step]
-----------------------------------------------------------------------------
(* Before anything is written. *)

\* Nothing in the code keeps a second capture from passing the check of a path before
\* the first one creates it; the history notes the paths where it happened.
Share(c) ==
  shared' = IF pc'[c] = "measure" /\ \E o \in Captures \ {c} : output[o] = output[c] /\ Active(o)
              THEN shared \cup {output[c]} ELSE shared

\* output.exists(), and the first ensure_not_interrupted.
CheckNothing(c) ==
  /\ pc[c] = "check"
  /\ Goto(c, IF interrupted[c] THEN "failed" ELSE "measure")
  /\ Share(c)
  /\ UNCHANGED <<output, done, digests, interrupted, early, disk>>

CheckOutput(c) ==
  /\ pc[c] = "check"
  /\ Goto(c, IF exists[output[c]] THEN "refused"
             ELSE IF interrupted[c] THEN "failed" ELSE "measure")
  /\ Share(c)
  /\ UNCHANGED <<output, done, digests, interrupted, early, disk>>

\* The scenario, the environment and the collectors, which may fail; the flag is
\* looked at between and after them.
MeasureIgnoringInterruption(c) ==
  /\ pc[c] = "measure"
  /\ \E ok \in BOOLEAN : Goto(c, IF ok THEN "create" ELSE "failed")
  /\ UNCHANGED <<output, done, digests, interrupted, early, shared, disk>>

Measure(c) ==
  /\ pc[c] = "measure"
  /\ \E ok \in BOOLEAN : Goto(c, IF ok /\ ~interrupted[c] THEN "create" ELSE "failed")
  /\ UNCHANGED <<output, done, digests, interrupted, early, shared, disk>>

\* create_dir_all succeeds also for a directory that is there by now.
CreateDirectory(c) ==
  /\ pc[c] = "create"
  /\ exists' = [exists EXCEPT ![output[c]] = TRUE]
  /\ Goto(c, "created")
  /\ UNCHANGED <<output, done, digests, interrupted, early, shared, file, manifest>>

\* ensure_not_interrupted.
Proceed(c, from, to) ==
  /\ pc[c] = from
  /\ Goto(c, IF interrupted[c] THEN "failed" ELSE to)
-----------------------------------------------------------------------------
(* The artifacts and the manifest. *)

BeginArtifacts(c) ==
  /\ Proceed(c, "created", "write")
  /\ UNCHANGED <<output, done, digests, interrupted, early, shared, disk>>

Truncate(c) ==
  /\ pc[c] = "write" /\ done[c] < Files
  /\ file' = [file EXCEPT ![output[c]][done[c] + 1] = [by |-> c, whole |-> FALSE]]
  /\ Goto(c, "fill")
  /\ UNCHANGED <<output, done, digests, interrupted, early, shared, exists, manifest>>

\* A file another capture has opened since may end up as a mixture.
Fill(c) ==
  /\ pc[c] = "fill"
  /\ \E whole \in (IF file[output[c]][done[c] + 1].by = c THEN {TRUE} ELSE BOOLEAN) :
       file' = [file EXCEPT ![output[c]][done[c] + 1] = [by |-> c, whole |-> whole]]
  /\ done' = [done EXCEPT ![c] = @ + 1]
  /\ Goto(c, "write")
  /\ UNCHANGED <<output, digests, interrupted, early, shared, exists, manifest>>

BeginDigests(c) ==
  /\ done[c] = Files
  /\ Proceed(c, "write", "hash")
  /\ done' = [done EXCEPT ![c] = 0]
  /\ UNCHANGED <<output, digests, interrupted, early, shared, disk>>

\* sha256_file reads back what the directory holds now; the flag is looked at
\* before each required artifact.
HashSkippingLast(c) ==
  LET n == done[c] + 1
  IN /\ pc[c] = "hash" /\ done[c] < Files
     /\ IF n \in 1..Required /\ interrupted[c]
          THEN Goto(c, "failed") /\ UNCHANGED <<done, digests>>
          ELSE /\ digests' = [digests EXCEPT ![c][n] =
                                IF n = Files THEN Missing ELSE file[output[c]][n]]
               /\ done' = [done EXCEPT ![c] = n]
               /\ UNCHANGED pc
     /\ UNCHANGED <<output, interrupted, early, shared, disk>>

Hash(c) ==
  LET n == done[c] + 1
  IN /\ pc[c] = "hash" /\ done[c] < Files
     /\ IF n \in 1..Required /\ interrupted[c]
          THEN Goto(c, "failed") /\ UNCHANGED <<done, digests>>
          ELSE /\ digests' = [digests EXCEPT ![c][n] = file[output[c]][n]]
               /\ done' = [done EXCEPT ![c] = n]
               /\ UNCHANGED pc
     /\ UNCHANGED <<output, interrupted, early, shared, disk>>

BeginManifest(c) ==
  /\ done[c] = Files
  /\ Proceed(c, "hash", "seal")
  /\ UNCHANGED <<output, done, digests, interrupted, early, shared, disk>>

\* write_json truncates manifest.json; the bundle's id and time are left out.
TruncateManifest(c) ==
  /\ pc[c] = "seal"
  /\ manifest' = [manifest EXCEPT ![output[c]] =
                    [by |-> c, whole |-> FALSE, digests |-> digests[c]]]
  /\ Goto(c, "fill_manifest")
  /\ UNCHANGED <<output, done, digests, interrupted, early, shared, exists, file>>

FillManifestIgnoringErrors(c) ==
  /\ pc[c] = "fill_manifest"
  /\ \E whole \in BOOLEAN :
       manifest' = [manifest EXCEPT ![output[c]] =
                      [@ EXCEPT !.by = c, !.whole = whole, !.digests = digests[c]]]
  /\ Goto(c, "confirm")
  /\ UNCHANGED <<output, done, digests, interrupted, early, shared, exists, file>>

FillManifest(c) ==
  /\ pc[c] = "fill_manifest"
  /\ \E whole \in (IF manifest[output[c]].by = c THEN {TRUE} ELSE BOOLEAN) :
       manifest' = [manifest EXCEPT ![output[c]] =
                      [@ EXCEPT !.by = c, !.whole = whole, !.digests = digests[c]]]
  /\ Goto(c, "confirm")
  /\ UNCHANGED <<output, done, digests, interrupted, early, shared, exists, file>>

\* The last ensure_not_interrupted comes after the manifest: a capture interrupted
\* here fails and leaves a complete bundle behind.
Confirm(c) ==
  /\ Proceed(c, "confirm", "captured")
  /\ UNCHANGED <<output, done, digests, interrupted, early, shared, disk>>

\* Any file operation may fail; what was written so far stays.
FileError(c) ==
  /\ pc[c] \in {"create", "write", "fill", "hash", "seal", "fill_manifest"}
  /\ Goto(c, "failed")
  /\ UNCHANGED <<output, done, digests, interrupted, early, shared, disk>>

CaptureStep(c) ==
  \/ CheckOutput(c) \/ Measure(c) \/ CreateDirectory(c)
  \/ BeginArtifacts(c) \/ Truncate(c) \/ Fill(c)
  \/ BeginDigests(c) \/ Hash(c) \/ BeginManifest(c)
  \/ TruncateManifest(c) \/ FillManifest(c) \/ Confirm(c)
-----------------------------------------------------------------------------
(* Users and the operating system. *)

Signal(c) ==
  /\ ~Finished(c) /\ ~interrupted[c]
  /\ interrupted' = [interrupted EXCEPT ![c] = TRUE]
  /\ early' = [early EXCEPT ![c] = pc[c] \in {"check", "measure"}]
  /\ UNCHANGED <<output, shared, capture, disk>>

\* A second signal or SIGKILL.  Nothing is synced to the disk, so that this is the
\* death of the process and not a power failure.
Kill(c) ==
  /\ ~Finished(c)
  /\ Goto(c, "killed")
  /\ UNCHANGED <<output, done, digests, interrupted, early, shared, disk>>

Next == \E c \in Captures : CaptureStep(c) \/ FileError(c) \/ Signal(c) \/ Kill(c)

Spec == Init /\ [][Next]_vars
-----------------------------------------------------------------------------
(* What must hold. *)

\* A complete manifest commits to the directory it is in, unless two captures had the
\* path at once: every artifact it names is there, whole, written by the same capture,
\* and has the digest it records.
ManifestCommits ==
  \A d \in Dirs \ shared : manifest[d].whole =>
    \A n \in Artifacts :
      /\ file[d][n] = [by |-> manifest[d].by, whole |-> TRUE]
      /\ manifest[d].digests[n] = file[d][n]

\* Evidence is never updated in place: once there is a complete manifest, no step
\* of any capture changes it or an artifact beside it.
NeverUpdatedInPlace ==
  [][\A d \in Dirs : manifest[d].whole =>
       manifest'[d] = manifest[d] /\ file'[d] = file[d]]_vars

\* What holds of it: a complete bundle is final, where two captures had the path at
\* once from when both have ended, and stays so whatever captures are started.
Final(d) ==
  manifest[d].whole /\ (d \in shared => \A c \in Captures : output[c] = d => ~Active(c))

PublishedIsFinal ==
  [][\A d \in Dirs : Final(d) =>
       Final(d)' /\ manifest'[d] = manifest[d] /\ file'[d] = file[d]]_vars

\* Success is reported only for a bundle that is there, then and ever after, unless
\* another capture had the path at the same time.
CapturedIsPublished ==
  \A c \in Captures : pc[c] = "captured" /\ output[c] \notin shared =>
    manifest[output[c]].whole /\ manifest[output[c]].by = c

\* A capture interrupted while it measured leaves no trace at its output path,
\* however many steps it was from noticing the flag.
EarlyInterruptionWritesNothing ==
  \A c \in Captures : early[c] =>
    /\ pc[c] \in {"check", "measure", "failed", "refused", "killed"}
    /\ \A n \in Artifacts : file[output[c]][n].by # c

\* The bundles on disk implement atomic, immutable publication; nothing is promised of
\* a path from when two captures have it at once.
Visible(d) == IF manifest[d].whole THEN manifest[d].by ELSE NoOne
Store == INSTANCE Publication
  WITH bundle <- [d \in Dirs |-> Visible(d)], contested <- shared
ImplementsPublication == Store!Atomic
=============================================================================
