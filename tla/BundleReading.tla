--------------------------- MODULE BundleReading ---------------------------
(***************************************************************************)
(* The commands that read bundles: validate_bundle, summarize_bundle and   *)
(* render_agent_guidance (src/bundle.rs), build_agent_evidence_reference   *)
(* (src/evidence.rs), and the comparisons of two bundles (src/score.rs,    *)
(* src/hotspot_compare.rs, src/browser_compare_v1.rs).  Each validates its *)
(* bundles file by file and then reads what it needs of them again.        *)
(*                                                                         *)
(* One such command runs while captures write (CaptureBundle) and while    *)
(* someone removes files of published bundles or copies files between      *)
(* them.  Of the required artifacts the first stands for the one that is   *)
(* read again; the next one is what the workload adds: HTTP evidence, the  *)
(* two browser documents, or a raw report, which is not parsed.  A path is *)
(* used for captures of one workload.                                      *)
(***************************************************************************)
EXTENDS CaptureBundle, Sequences

CONSTANTS
  Profiles,    \* what captures can be of: their workload, scenario and findings
  NoMetrics,   \* the metrics of a capture that has none to score
  MaxChanges   \* bounds the changes to published bundles

Workloads == {"http", "browser", "other"}

ASSUME ChangesAssumption == MaxChanges \in Nat /\ Required > 0 /\ Required < Files
ASSUME ProfilesAssumption ==
  \A p \in Profiles : p.workload \in Workloads /\ (p.late => p.workload = "http")

VARIABLES
  profile,    \* of each capture: workload, kind (scenario digest and environment
              \* fingerprint), tool (collector identity), metrics (ids, units and
              \* directions), and whether a batch of requests ended late
  step,       \* where the reading command is
  use,        \* what it reads for
  targets,    \* the bundles it was given
  accepted,   \* the manifests of those found valid
  seen,       \* the manifest read for the target being validated
  checked,    \* artifacts of that target hashed, and then parsed
  diagnosed,  \* the diagnostics are not empty
  reads,      \* what it reads again
  got,        \* what it found there
  changes,    \* changes to published bundles so far
  sound,      \* history: the targets were its own captures' when it started, and still are
  stale       \* history: something was changed after the command had checked it

reader   == <<step, use, targets, accepted, seen, checked, diagnosed, reads, got>>
readVars == <<vars, profile, reader, changes, sound, stale>>

Document == Required + 1

\* Part 0 of a bundle is its manifest.
Part(d, n) == IF n = 0 THEN [by |-> manifest[d].by, whole |-> manifest[d].whole]
              ELSE file[d][n]

\* Every artifact is there with the digest that the manifest records.
Intact(d) ==
  manifest[d].whole /\ \A n \in Artifacts : file[d][n] # Missing /\ file[d][n] = manifest[d].digests[n]

\* The digests are of one capture's whole files.
Pure(m) == \A n \in Artifacts : m.digests[n] = [by |-> m.by, whole |-> TRUE]

ReadingInit ==
  /\ Init
  /\ profile \in [Captures -> Profiles]
  /\ \A c, e \in Captures : output[c] = output[e] => profile[c].workload = profile[e].workload
  /\ step = "idle" /\ use = "none" /\ targets = <<>> /\ accepted = <<>>
  /\ seen = NoManifest /\ checked = 0 /\ diagnosed = FALSE /\ reads = <<>> /\ got = <<>>
  /\ changes = 0 /\ sound = FALSE /\ stale = FALSE
-----------------------------------------------------------------------------
(* validate_bundle, once for each target. *)

Comparisons == {"score", "hotspots", "browser"}

Target == targets[Len(accepted) + 1]

\* A command is given its bundles.
Ask ==
  /\ step = "idle"
  /\ \/ use' \in {"show", "refer"} /\ targets' \in {<<d>> : d \in Dirs}
     \/ use' \in Comparisons /\ targets' \in {<<d, e>> : d, e \in Dirs}
  /\ sound' = \A i \in 1..Len(targets') : Intact(targets'[i]) /\ Pure(manifest[targets'[i]])
  /\ step' = "manifest"
  /\ UNCHANGED <<vars, profile, accepted, seen, checked, diagnosed, reads, got, changes, stale>>

Refuse == step' = "refused"

\* A torn manifest does not parse.
ReadManifest ==
  /\ step = "manifest"
  /\ \/ /\ manifest[Target].whole
        /\ seen' = manifest[Target]
        /\ checked' = 0 /\ diagnosed' = FALSE
        /\ step' = "hash"
     \/ ~manifest[Target].whole /\ Refuse /\ UNCHANGED <<seen, checked, diagnosed>>
  /\ UNCHANGED <<vars, profile, use, targets, accepted, reads, got, changes, sound, stale>>

HashIfPresent ==
  /\ step = "hash" /\ checked < Files
  /\ checked' = checked + 1
  /\ diagnosed' = (diagnosed \/ file[Target][checked'] = Missing)
  /\ UNCHANGED <<vars, profile, step, use, targets, accepted, seen, reads, got, changes, sound,
                 stale>>

\* A missing file and a digest that differs are diagnostics; the loop goes on.
HashArtifact ==
  /\ step = "hash" /\ checked < Files
  /\ checked' = checked + 1
  /\ diagnosed' = \/ diagnosed
                  \/ file[Target][checked'] = Missing
                  \/ file[Target][checked'] # seen.digests[checked']
  /\ UNCHANGED <<vars, profile, step, use, targets, accepted, seen, reads, got, changes, sound,
                 stale>>

BeginParsing ==
  /\ step = "hash" /\ checked = Files
  /\ step' = "parse" /\ checked' = 0
  /\ UNCHANGED <<vars, profile, use, targets, accepted, seen, diagnosed, reads, got, changes,
                 sound, stale>>

\* The required documents and those of the workload; raw reports are not parsed.
Parsed(m) == IF profile[m.by].workload = "other" THEN Required ELSE Document

\* Each document is read once more: a torn or missing one is an error, one that is not
\* the manifest's may disagree with it, and HTTP evidence with a late batch is invalid.
ParseArtifact ==
  /\ step = "parse" /\ checked < Parsed(seen)
  /\ LET document == file[Target][checked + 1]
         late == checked + 1 = Document /\ profile[document.by].late
     IN \/ /\ document.whole
           /\ diagnosed' \in IF document.by = seen.by THEN {diagnosed \/ late}
                             ELSE {diagnosed, TRUE}
           /\ checked' = checked + 1
           /\ UNCHANGED step
        \/ ~document.whole /\ Refuse /\ UNCHANGED <<checked, diagnosed>>
  /\ UNCHANGED <<vars, profile, use, targets, accepted, seen, reads, got, changes, sound, stale>>

\* The report; every command but validate requires it to be valid.
Report ==
  /\ step = "parse" /\ checked = Parsed(seen)
  /\ \/ diagnosed /\ Refuse /\ UNCHANGED accepted
     \/ /\ ~diagnosed
        /\ accepted' = Append(accepted, seen)
        /\ step' = IF Len(accepted') = Len(targets) THEN "validated" ELSE "manifest"
  /\ UNCHANGED <<vars, profile, use, targets, seen, checked, diagnosed, reads, got, changes,
                 sound, stale>>
-----------------------------------------------------------------------------
(* What the commands read after the validation. *)

Both(n) == <<[of |-> 1, part |-> n], [of |-> 2, part |-> n]>>

\* The workload's document of a bundle, when the file has the name asked for.
DocumentOf(d, workload) ==
  LET document == file[d][Document]
  IN IF document # Missing /\ profile[document.by].workload = workload THEN document ELSE Missing

\* A summary and guidance are one document; a reference takes the time from the
\* manifest and then its digest.  A score first looks for HTTP evidence beside either
\* bundle; browser documents may be missing.
BeginReading ==
  /\ step = "validated"
  /\ step' = "read"
  /\ reads' = CASE use = "show"     -> <<[of |-> 1, part |-> 1]>>
                [] use = "refer"    -> <<[of |-> 1, part |-> 0], [of |-> 1, part |-> 0]>>
                [] use = "hotspots" -> Both(0) \o Both(1)
                [] use = "browser"  -> Both(0) \o Both(Document)
                [] use = "score"    ->
                     IF \E i \in 1..2 : DocumentOf(targets[i], "http") # Missing
                       THEN Both(Document) \o Both(0) \o Both(1) ELSE Both(0) \o Both(1)
  /\ UNCHANGED <<vars, profile, use, targets, accepted, seen, checked, diagnosed, got, changes,
                 sound, stale>>

Found(r) ==
  LET d == targets[r.of]
  IN IF r.part = Document THEN DocumentOf(d, IF use = "score" THEN "http" ELSE "browser")
     ELSE Part(d, r.part)

\* A document that parses, or one that may be missing and is.
Readable(r, part) ==
  part.whole \/ (use = "browser" /\ r.part = Document /\ part = Missing)

\* What score_bundles requires of two documents: one collector identity, one scenario
\* and environment, and one set of metrics that is not empty.
Agree(n, x, y) ==
  CASE n = Document -> profile[x.by].tool = profile[y.by].tool
    [] n = 0        -> profile[x.by].kind = profile[y.by].kind
    [] OTHER        -> /\ profile[x.by].metrics = profile[y.by].metrics
                       /\ profile[x.by].metrics # NoMetrics

\* They come in pairs; the second one of a pair is compared with the first.
Agreed(part) ==
  LET r == reads[Len(got) + 1] IN r.of = 2 => Agree(r.part, got[Len(got)], part)

ReadAnything ==
  /\ step = "read" /\ Len(got) < Len(reads)
  /\ LET r == reads[Len(got) + 1]
     IN \/ Readable(r, Found(r)) /\ got' = Append(got, Found(r)) /\ UNCHANGED step
        \/ ~Readable(r, Found(r)) /\ Refuse /\ UNCHANGED got
  /\ UNCHANGED <<vars, profile, use, targets, accepted, seen, checked, diagnosed, reads, changes,
                 sound, stale>>

ReadAgreeing ==
  /\ step = "read" /\ Len(got) < Len(reads)
  /\ LET r == reads[Len(got) + 1]
         good == Readable(r, Found(r)) /\ (Found(r) # Missing => Agreed(Found(r)))
     IN \/ good /\ got' = Append(got, Found(r)) /\ UNCHANGED step
        \/ ~good /\ Refuse /\ UNCHANGED got
  /\ UNCHANGED <<vars, profile, use, targets, accepted, seen, checked, diagnosed, reads, changes,
                 sound, stale>>

\* The comparisons of hotspots and of browser captures answer with a status whatever
\* they read; only score_bundles refuses what it cannot compare.
ReadAgain ==
  /\ step = "read" /\ Len(got) < Len(reads)
  /\ LET r == reads[Len(got) + 1]
         good == Readable(r, Found(r)) /\ (use = "score" => Agreed(Found(r)))
     IN \/ good /\ got' = Append(got, Found(r)) /\ UNCHANGED step
        \/ ~good /\ Refuse /\ UNCHANGED got
  /\ UNCHANGED <<vars, profile, use, targets, accepted, seen, checked, diagnosed, reads, changes,
                 sound, stale>>

AnswerRead ==
  /\ step = "read" /\ Len(got) = Len(reads)
  /\ step' = "answered"
  /\ UNCHANGED <<vars, profile, use, targets, accepted, seen, checked, diagnosed, reads, got,
                 changes, sound, stale>>

ReaderStep ==
  \/ Ask \/ ReadManifest \/ HashArtifact \/ BeginParsing \/ ParseArtifact \/ Report
  \/ BeginReading \/ ReadAgain \/ AnswerRead
-----------------------------------------------------------------------------
(* Captures write, and someone changes a published bundle, one file at a time. *)

Change(d) ==
  /\ changes < MaxChanges /\ \E n \in 0..Files : Part(d, n).whole
  /\ manifest[d].by # NoOne
  /\ \A c \in Captures : output[c] = d => Finished(c) \/ pc[c] = "check"
  /\ changes' = changes + 1
  /\ UNCHANGED <<output, capture, interrupted, early, shared, exists>>

RemoveFile(d) ==
  /\ Change(d)
  /\ \/ \E n \in Artifacts : file' = [file EXCEPT ![d][n] = Missing] /\ UNCHANGED manifest
     \/ manifest' = [manifest EXCEPT ![d] = NoManifest] /\ UNCHANGED file

\* What is not a required artifact takes the place of another only where there are
\* captures of the same workload.
SameName(from, d, n) ==
  n \in 1..Required \/ \E c \in Captures :
    output[c] = d /\ profile[c].workload = profile[file[from][n].by].workload

CopyFile(from, d) ==
  /\ Change(d)
  /\ Intact(from)
  /\ \/ \E n \in Artifacts : /\ SameName(from, d, n)
                             /\ file' = [file EXCEPT ![d][n] = file[from][n]]
                             /\ UNCHANGED manifest
     \/ manifest' = [manifest EXCEPT ![d] = manifest[from]] /\ UNCHANGED file

\* What the command has checked of its i-th target so far.
Checked(i, n) ==
  \/ i <= Len(accepted)
  \/ i = Len(accepted) + 1 /\ ((step = "hash" /\ n <= checked) \/ step = "parse")

Untouched(d, n) == IF n = 0 THEN manifest'[d] = manifest[d] ELSE file'[d][n] = file[d][n]

WriterStep ==
  /\ \/ \E d \in Dirs : RemoveFile(d) \/ \E from \in Dirs \ {d} : CopyFile(from, d)
     \/ Next /\ UNCHANGED changes
  /\ sound' = (sound /\ \A i \in 1..Len(targets), n \in 0..Files : Untouched(targets[i], n))
  /\ stale' = (stale \/ \E i \in 1..Len(targets), n \in 0..Files :
                          Checked(i, n) /\ ~Untouched(targets[i], n))
  /\ UNCHANGED <<profile, reader>>

ReadingNext == ReaderStep \/ WriterStep

ReadingSpec == ReadingInit /\ [][ReadingNext]_readVars
-----------------------------------------------------------------------------
(* What must hold. *)

\* "Any mutation is detected through artifact SHA-256 validation": whatever captures
\* and people do to the bundles before and while a command reads them, it answers only
\* from such as are intact when it does, unless a part was changed after the command had
\* checked that part.
OnlyIntactIsAnswered ==
  step = "answered" /\ ~stale => \A i \in 1..Len(targets) : Intact(targets[i])

\* What was validated of a part that is read again.
Validated(r) ==
  IF r.part = 0 THEN [by |-> accepted[r.of].by, whole |-> TRUE]
  ELSE IF r.part = 1 \/ profile[accepted[r.of].digests[r.part].by].workload =
                          (IF use = "score" THEN "http" ELSE "browser")
    THEN accepted[r.of].digests[r.part] ELSE Missing

\* What score_bundles refuses to compare.
Unscorable(x, y) ==
  \/ ~Agree(0, x, y) \/ ~Agree(1, x, y)
  \/ (profile[x.by].workload = "http") # (profile[y.by].workload = "http")
  \/ (profile[x.by].workload = "http" /\ ~Agree(Document, x, y))

\* Two bundles have a score only if they agree in everything: the collector, the
\* scenario, the environment and the metrics, although these are read from three files
\* of each at different times, and after validation.  Not so if two captures had mixed
\* their files in one bundle, or if a checked part was changed.
AnswerIsTheValidated ==
  step = "answered" /\ ~stale =>
    /\ Len(accepted) = Len(targets)
    /\ \A i \in 1..Len(got) : got[i] = Validated(reads[i])
    /\ use = "score" /\ Pure(accepted[1]) /\ Pure(accepted[2]) =>
         ~Unscorable(accepted[1], accepted[2])

\* No false alarm: a command refuses bundles that are their captures' from its start to
\* its end only for a late batch of requests, or when a score is asked for and the two
\* differ in collector, scenario, environment or metrics, or have no metrics.
IntactIsNotRefused ==
  step = "refused" /\ sound =>
    \/ \E i \in 1..Len(targets) : profile[manifest[targets[i]].by].late
    \/ use = "score" /\ Unscorable(manifest[targets[1]], manifest[targets[2]])
=============================================================================
