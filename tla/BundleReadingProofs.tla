------------------------ MODULE BundleReadingProofs ------------------------
(***************************************************************************)
(* Proofs about BundleReading for every number of captures, directories    *)
(* and artifacts, all profiles, and any number of changes to published     *)
(* bundles.  Nothing is assumed of the captures: they may have one path at *)
(* once and rewrite what the command has read.                             *)
(***************************************************************************)
EXTENDS BundleReading, CaptureBundleProofs, SequenceTheorems

-----------------------------------------------------------------------------
(* What reading and writing steps leave alone. *)

LEMMA ReadersOnlyRead ==
  ASSUME ReaderStep
  PROVE  UNCHANGED <<output, capture, interrupted, early, shared, disk, profile, changes>>
<1>1. Ask => UNCHANGED <<vars, profile, changes>>
  BY DEF Ask
<1>2. ReadManifest => UNCHANGED <<vars, profile, changes>>
  BY DEF ReadManifest
<1>3. HashArtifact => UNCHANGED <<vars, profile, changes>>
  BY DEF HashArtifact
<1>4. BeginParsing => UNCHANGED <<vars, profile, changes>>
  BY DEF BeginParsing
<1>5. ParseArtifact => UNCHANGED <<vars, profile, changes>>
  BY DEF ParseArtifact
<1>6. Report => UNCHANGED <<vars, profile, changes>>
  BY DEF Report
<1>7. BeginReading => UNCHANGED <<vars, profile, changes>>
  BY DEF BeginReading
<1>8. ReadAgain => UNCHANGED <<vars, profile, changes>>
  BY DEF ReadAgain
<1>9. AnswerRead => UNCHANGED <<vars, profile, changes>>
  BY DEF AnswerRead
<1> QED
  BY <1>1, <1>2, <1>3, <1>4, <1>5, <1>6, <1>7, <1>8, <1>9 DEF ReaderStep, vars

\* Whoever writes, the disk keeps its type.
LEMMA DiskTypes ==
  ASSUME TypeOK, [ReadingNext]_readVars
  PROVE  TypeOK'
<1>1. CASE ReaderStep
  BY <1>1, ReadersOnlyRead DEF TypeOK, disk, capture
<1>2. CASE UNCHANGED readVars
  BY <1>2 DEF readVars, vars, TypeOK, disk, capture
<1>3. CASE Next
  BY <1>3, NextTypes
<1>4. ASSUME NEW d \in Dirs, RemoveFile(d) \/ \E from \in Dirs \ {d} : CopyFile(from, d)
      PROVE  TypeOK'
  <2>1. UNCHANGED <<output, pc, done, digests, interrupted, early, shared, exists>>
    BY <1>4 DEF RemoveFile, CopyFile, Change, capture
  <2>2. Missing \in Contents /\ NoManifest \in Manifests
    BY DEF Missing, Contents, NoManifest, NoDigests, Manifests
  <2>3. file' \in [Dirs -> [Artifacts -> Contents]] /\ manifest' \in [Dirs -> Manifests]
    <3>1. CASE \E n \in Artifacts : file' = [file EXCEPT ![d][n] = Missing] /\ UNCHANGED manifest
      <4> PICK n \in Artifacts : file' = [file EXCEPT ![d][n] = Missing] /\ UNCHANGED manifest
        BY <3>1
      <4> QED
        BY <2>2 DEF TypeOK
    <3>2. CASE manifest' = [manifest EXCEPT ![d] = NoManifest] /\ UNCHANGED file
      BY <2>2, <3>2 DEF TypeOK
    <3>3. ASSUME NEW from \in Dirs, NEW n \in Artifacts,
                 file' = [file EXCEPT ![d][n] = file[from][n]], UNCHANGED manifest
          PROVE  file' \in [Dirs -> [Artifacts -> Contents]] /\ manifest' \in [Dirs -> Manifests]
      <4>1. file[from][n] \in Contents
        BY DEF TypeOK
      <4> QED
        BY <3>3, <4>1 DEF TypeOK
    <3>4. ASSUME NEW from \in Dirs,
                 manifest' = [manifest EXCEPT ![d] = manifest[from]], UNCHANGED file
          PROVE  file' \in [Dirs -> [Artifacts -> Contents]] /\ manifest' \in [Dirs -> Manifests]
      BY <3>4 DEF TypeOK
    <3> QED
      BY <1>4, <3>1, <3>2, <3>3, <3>4 DEF RemoveFile, CopyFile
  <2> QED
    BY <2>1, <2>3 DEF TypeOK
<1> QED
  BY <1>1, <1>2, <1>3, <1>4, Zenon DEF ReadingNext, WriterStep

\* What writers leave alone: the command, and what it has checked unless it is stale.
LEMMA WritersStep ==
  ASSUME WriterStep
  PROVE  /\ UNCHANGED <<profile, step, use, targets, accepted, seen, checked, diagnosed, reads, got>>
         /\ sound' = (sound /\ \A i \in 1..Len(targets), n \in 0..Files : Untouched(targets[i], n))
         /\ stale' = (stale \/ \E i \in 1..Len(targets), n \in 0..Files :
                                 Checked(i, n) /\ ~Untouched(targets[i], n))
  BY DEF WriterStep, reader
-----------------------------------------------------------------------------
(* Where the command is. *)

Items == [of : {1, 2}, part : {0, 1, Document}]
Uses == {"show", "refer"} \cup Comparisons

Placed ==
  /\ step \in {"idle", "manifest", "hash", "parse", "validated", "read", "answered", "refused"}
  /\ targets \in Seq(Dirs) /\ accepted \in Seq(Manifests) /\ got \in Seq(Contents)
  /\ seen \in Manifests /\ checked \in 0..Files /\ diagnosed \in BOOLEAN
  /\ sound \in BOOLEAN /\ stale \in BOOLEAN
  /\ Len(accepted) <= Len(targets)
  /\ step = "idle" => targets = <<>> /\ accepted = <<>>
  /\ step # "idle" => use \in Uses /\ Len(targets) = IF use \in Comparisons THEN 2 ELSE 1
  /\ step \in {"manifest", "hash", "parse"} => Len(accepted) < Len(targets)
  /\ step \in {"validated", "read", "answered"} => Len(accepted) = Len(targets)
  /\ step \in {"idle", "manifest", "hash", "parse", "validated"} => got = <<>>
  /\ reads \in Seq(Items)
  /\ step \in {"read", "answered"} => Len(got) <= Len(reads)
  /\ step = "answered" => Len(got) = Len(reads)

\* The list of what is read; that of a score consists of pairs.
Paired(r) ==
  /\ \A i \in 1..Len(r) : r[i].of = 2 => i > 1 /\ r[i - 1] = [of |-> 1, part |-> r[i].part]
  /\ \A n \in {0, 1} : \E i \in 1..Len(r) : r[i] = [of |-> 2, part |-> n]
  /\ (\E i \in 1..Len(r) : r[i].part = Document) =>
       \E i \in 1..Len(r) : r[i] = [of |-> 2, part |-> Document]

Planned ==
  step \in {"read", "answered"} =>
    /\ \A i \in 1..Len(reads) : reads[i].of <= Len(targets)
    /\ use = "score" => Paired(reads)
    /\ use \notin {"score", "browser"} => \A i \in 1..Len(reads) : reads[i].part # Document

LEMMA Numbers ==
  /\ Document \in Artifacts /\ Document # 0 /\ Document # 1 /\ 1 \in Artifacts
  /\ Required \in Nat /\ Files \in Nat
  BY FilesAssumption, ChangesAssumption DEF Document, Artifacts

\* The pairs that are read.
LEMMA Pair ==
  ASSUME NEW n \in {0, 1, Document}
  PROVE  /\ Both(n) \in Seq(Items) /\ Len(Both(n)) = 2
         /\ Both(n)[1] = [of |-> 1, part |-> n] /\ Both(n)[2] = [of |-> 2, part |-> n]
<1>1. [of |-> 1, part |-> n] \in Items /\ [of |-> 2, part |-> n] \in Items
  BY DEF Items
<1> QED
  BY <1>1 DEF Both

\* The elements of two sequences one after the other.
LEMMA Joined ==
  ASSUME NEW x \in Seq(Items), NEW y \in Seq(Items), NEW s, s = x \o y
  PROVE  /\ s \in Seq(Items) /\ Len(s) = Len(x) + Len(y)
         /\ \A i \in 1..Len(x) + Len(y) : s[i] = IF i <= Len(x) THEN x[i] ELSE y[i - Len(x)]
  BY ConcatProperties, Zenon

LEMMA TwoPairs ==
  ASSUME NEW m \in {0, 1, Document}, NEW n \in {0, 1, Document},
         NEW s, s = Both(m) \o Both(n)
  PROVE  /\ s \in Seq(Items) /\ Len(s) = 4
         /\ s[1] = [of |-> 1, part |-> m] /\ s[2] = [of |-> 2, part |-> m]
         /\ s[3] = [of |-> 1, part |-> n] /\ s[4] = [of |-> 2, part |-> n]
<1>1. DEFINE x == Both(m)
<1>2. DEFINE y == Both(n)
<1>3. /\ x \in Seq(Items) /\ y \in Seq(Items) /\ Len(x) = 2 /\ Len(y) = 2
      /\ x[1] = [of |-> 1, part |-> m] /\ x[2] = [of |-> 2, part |-> m]
      /\ y[1] = [of |-> 1, part |-> n] /\ y[2] = [of |-> 2, part |-> n]
  BY Pair
<1>4. s = x \o y
  OBVIOUS
<1> HIDE DEF x, y
<1>5. /\ s \in Seq(Items) /\ Len(s) = 4
      /\ \A i \in 1..4 : s[i] = IF i <= 2 THEN x[i] ELSE y[i - 2]
  <2>1. /\ s \in Seq(Items) /\ Len(s) = Len(x) + Len(y)
        /\ \A i \in 1..Len(x) + Len(y) : s[i] = IF i <= Len(x) THEN x[i] ELSE y[i - Len(x)]
    BY <1>3, <1>4, Joined, Zenon
  <2> QED
    BY <1>3, <2>1
<1>6. s[1] = x[1] /\ s[2] = x[2] /\ s[3] = y[1] /\ s[4] = y[2]
  BY <1>5
<1> QED
  BY <1>3, <1>5, <1>6

LEMMA ThreePairs ==
  ASSUME NEW s, s = Both(Document) \o Both(0) \o Both(1)
  PROVE  /\ s \in Seq(Items) /\ Len(s) = 6
         /\ s[1] = [of |-> 1, part |-> Document] /\ s[2] = [of |-> 2, part |-> Document]
         /\ s[3] = [of |-> 1, part |-> 0] /\ s[4] = [of |-> 2, part |-> 0]
         /\ s[5] = [of |-> 1, part |-> 1] /\ s[6] = [of |-> 2, part |-> 1]
<1>1. DEFINE x == Both(Document) \o Both(0)
<1>2. DEFINE y == Both(1)
<1>3. /\ x \in Seq(Items) /\ Len(x) = 4
      /\ x[1] = [of |-> 1, part |-> Document] /\ x[2] = [of |-> 2, part |-> Document]
      /\ x[3] = [of |-> 1, part |-> 0] /\ x[4] = [of |-> 2, part |-> 0]
  BY TwoPairs
<1>4. /\ y \in Seq(Items) /\ Len(y) = 2
      /\ y[1] = [of |-> 1, part |-> 1] /\ y[2] = [of |-> 2, part |-> 1]
  BY Pair
<1>5. s = x \o y
  OBVIOUS
<1> HIDE DEF x, y
<1>6. /\ s \in Seq(Items) /\ Len(s) = Len(x) + Len(y)
      /\ \A i \in 1..Len(x) + Len(y) : s[i] = IF i <= Len(x) THEN x[i] ELSE y[i - Len(x)]
  BY <1>3, <1>4, <1>5, Joined, Zenon
<1>7. Len(s) = 6 /\ \A i \in 1..6 : s[i] = IF i <= 4 THEN x[i] ELSE y[i - 4]
  <2>1. Len(x) = 4 /\ Len(y) = 2 /\ 4 + 2 = 6
    BY <1>3, <1>4
  <2> QED
    BY <1>6, <2>1, Zenon
<1>8. s[1] = x[1] /\ s[2] = x[2] /\ s[3] = x[3] /\ s[4] = x[4]
  BY <1>7
<1>9. s[5] = y[1] /\ s[6] = y[2]
  BY <1>7
<1> QED
  BY <1>3, <1>4, <1>6, <1>7, <1>8, <1>9, Zenon

\* Every list of reads is one of pairs where two bundles are compared.
LEMMA ReadsArePlanned ==
  ASSUME Placed, BeginReading
  PROVE  reads' \in Seq(Items) /\ Planned'
<1>1. /\ use \in Uses /\ Len(targets) = (IF use \in Comparisons THEN 2 ELSE 1)
      /\ use' = use /\ targets' = targets /\ step = "validated"
  BY DEF BeginReading, Placed
<1>2. [of |-> 1, part |-> 0] \in Items /\ [of |-> 1, part |-> 1] \in Items
  BY DEF Items
<1>3. CASE use = "show"
  <2>1. reads' = <<[of |-> 1, part |-> 1]>>
    BY <1>3 DEF BeginReading
  <2>2. reads' \in Seq(Items) /\ \A i \in 1..Len(reads') : reads'[i].of = 1 /\ reads'[i].part # Document
    BY <1>2, <2>1, Numbers
  <2>3. Len(targets') = 1 /\ use' # "score"
    BY <1>1, <1>3 DEF Comparisons
  <2> QED
    BY <2>2, <2>3 DEF Planned
<1>4. CASE use = "refer"
  <2>1. reads' = <<[of |-> 1, part |-> 0], [of |-> 1, part |-> 0]>>
    BY <1>4 DEF BeginReading
  <2>2. reads' \in Seq(Items) /\ \A i \in 1..Len(reads') : reads'[i].of = 1 /\ reads'[i].part # Document
    BY <1>2, <2>1, Numbers
  <2>3. Len(targets') = 1 /\ use' # "score"
    BY <1>1, <1>4 DEF Comparisons
  <2> QED
    BY <2>2, <2>3 DEF Planned
<1>5. CASE use \in {"hotspots", "browser"}
  <2>1. \E n \in {0, 1, Document} :
          reads' = Both(0) \o Both(n) /\ (use # "browser" => n = 1)
    BY <1>5 DEF BeginReading
  <2>2. PICK n \in {0, 1, Document} :
          reads' = Both(0) \o Both(n) /\ (use # "browser" => n = 1)
    BY <2>1
  <2>3. /\ reads' \in Seq(Items) /\ Len(reads') = 4
        /\ reads'[1].part = 0 /\ reads'[2].part = 0 /\ reads'[3].part = n /\ reads'[4].part = n
    <3>1. 0 \in {0, 1, Document}
      OBVIOUS
    <3>2. ASSUME NEW s, s = reads'
          PROVE  /\ s \in Seq(Items) /\ Len(s) = 4
                 /\ s[1] = [of |-> 1, part |-> 0] /\ s[2] = [of |-> 2, part |-> 0]
                 /\ s[3] = [of |-> 1, part |-> n] /\ s[4] = [of |-> 2, part |-> n]
      <4>1. s = Both(0) \o Both(n)
        BY <2>2, <3>2
      <4>2. n \in {0, 1, Document}
        OBVIOUS
      <4> QED
        BY <3>1, <4>1, <4>2, TwoPairs, Zenon
    <3> QED
      BY <3>2
  <2>4. \A i \in 1..Len(reads') : reads'[i].of <= 2
    <3>1. \A r \in Items : r.of <= 2
      BY DEF Items
    <3>2. \A i \in 1..Len(reads') : reads'[i] \in Items
      BY <2>3, ElementOfSeq
    <3> QED
      BY <3>1, <3>2
  <2>5. Len(targets') = 2 /\ use' # "score"
    BY <1>1, <1>5 DEF Comparisons
  <2>6. use' # "browser" => \A i \in 1..Len(reads') : reads'[i].part # Document
    <3>1. \A i \in 1..4 : i = 1 \/ i = 2 \/ i = 3 \/ i = 4
      OBVIOUS
    <3> QED
      BY <1>1, <2>2, <2>3, <3>1, Numbers
  <2> QED
    BY <2>3, <2>4, <2>5, <2>6 DEF Planned
<1>6. CASE use = "score"
  <2>1. Len(targets') = 2
    BY <1>1, <1>6 DEF Comparisons
  <2>2. ASSUME NEW s, s = reads', s = Both(Document) \o Both(0) \o Both(1)
        PROVE  s \in Seq(Items) /\ (\A i \in 1..Len(s) : s[i].of <= 2) /\ Paired(s)
    <3>1. /\ s \in Seq(Items) /\ Len(s) = 6
          /\ s[1] = [of |-> 1, part |-> Document] /\ s[2] = [of |-> 2, part |-> Document]
          /\ s[3] = [of |-> 1, part |-> 0] /\ s[4] = [of |-> 2, part |-> 0]
          /\ s[5] = [of |-> 1, part |-> 1] /\ s[6] = [of |-> 2, part |-> 1]
      BY <2>2, ThreePairs, Zenon
    <3>2. \A i \in 1..6 : i = 1 \/ i = 2 \/ i = 3 \/ i = 4 \/ i = 5 \/ i = 6
      OBVIOUS
    <3>3. \A i \in 1..6 : s[i].of <= 2
      BY <3>1, <3>2
    <3>4. \A i \in 1..6 : s[i].of = 2 => i > 1 /\ s[i - 1] = [of |-> 1, part |-> s[i].part]
      BY <3>1, <3>2
    <3>5. 2 \in 1..6 /\ 4 \in 1..6 /\ 6 \in 1..6
      OBVIOUS
    <3>6. \A n \in {0, 1} : \E i \in 1..6 : s[i] = [of |-> 2, part |-> n]
      BY <3>1, <3>5
    <3>7. \E i \in 1..6 : s[i] = [of |-> 2, part |-> Document]
      BY <3>1, <3>5
    <3> QED
      BY <3>1, <3>3, <3>4, <3>6, <3>7 DEF Paired
  <2>3. ASSUME NEW s, s = reads', s = Both(0) \o Both(1)
        PROVE  s \in Seq(Items) /\ (\A i \in 1..Len(s) : s[i].of <= 2) /\ Paired(s)
    <3>1. /\ s \in Seq(Items) /\ Len(s) = 4
          /\ s[1] = [of |-> 1, part |-> 0] /\ s[2] = [of |-> 2, part |-> 0]
          /\ s[3] = [of |-> 1, part |-> 1] /\ s[4] = [of |-> 2, part |-> 1]
      <4>1. 0 \in {0, 1, Document} /\ 1 \in {0, 1, Document}
        OBVIOUS
      <4> QED
        BY <2>3, <4>1, TwoPairs, Zenon
    <3>2. \A i \in 1..4 : i = 1 \/ i = 2 \/ i = 3 \/ i = 4
      OBVIOUS
    <3>3. \A i \in 1..4 : s[i].of <= 2 /\ s[i].part # Document
      BY <3>1, <3>2, Numbers
    <3>4. \A i \in 1..4 : s[i].of = 2 => i > 1 /\ s[i - 1] = [of |-> 1, part |-> s[i].part]
      BY <3>1, <3>2
    <3>5. 2 \in 1..4 /\ 4 \in 1..4
      OBVIOUS
    <3>6. \A n \in {0, 1} : \E i \in 1..4 : s[i] = [of |-> 2, part |-> n]
      BY <3>1, <3>5
    <3> QED
      BY <3>1, <3>3, <3>4, <3>6 DEF Paired
  <2>4. \/ reads' = Both(Document) \o Both(0) \o Both(1)
        \/ reads' = Both(0) \o Both(1)
    BY <1>6 DEF BeginReading
  <2>5. reads' \in Seq(Items) /\ (\A i \in 1..Len(reads') : reads'[i].of <= 2) /\ Paired(reads')
    BY <2>2, <2>3, <2>4, Zenon
  <2>6. Paired(reads)'
    BY <2>5 DEF Paired
  <2> QED
    BY <1>1, <1>6, <2>1, <2>5, <2>6 DEF Planned
<1> QED
  BY <1>1, <1>3, <1>4, <1>5, <1>6 DEF Uses, Comparisons

LEMMA PlacedInit == ReadingInit => TypeOK /\ Placed /\ Planned
<1> SUFFICES ASSUME ReadingInit
             PROVE  TypeOK /\ Placed /\ Planned
  OBVIOUS
<1>1. TypeOK
  BY InitTypes DEF ReadingInit
<1>2. NoManifest \in Manifests /\ 0 \in 0..Files
  BY FilesAssumption DEF NoManifest, NoDigests, Missing, Manifests, Contents
<1>3. /\ step = "idle" /\ targets = <<>> /\ accepted = <<>> /\ reads = <<>> /\ got = <<>>
      /\ seen = NoManifest /\ checked = 0 /\ diagnosed = FALSE /\ sound = FALSE /\ stale = FALSE
  BY DEF ReadingInit
<1> QED
  <2>1. Placed
    <3>1. /\ targets \in Seq(Dirs) /\ accepted \in Seq(Manifests) /\ got \in Seq(Contents)
          /\ reads \in Seq(Items)
      BY <1>3
    <3>2. Len(accepted) <= Len(targets)
      BY <1>3
    <3>3. diagnosed \in BOOLEAN /\ sound \in BOOLEAN /\ stale \in BOOLEAN
      BY <1>3
    <3> QED
      BY <1>2, <1>3, <3>1, <3>2, <3>3, Zenon DEF Placed
  <2>2. Planned
    BY <1>3 DEF Planned
  <2> QED
    BY <1>1, <2>1, <2>2

\* What is found in a bundle is a content.
LEMMA FoundIsContent ==
  ASSUME TypeOK, Placed, NEW r \in Items, r.of <= Len(targets)
  PROVE  Found(r) \in Contents
<1>1. r.of \in 1..Len(targets) /\ r.part \in {0, 1, Document}
  BY DEF Items
<1>2. targets[r.of] \in Dirs
  BY <1>1 DEF Placed
<1>3. /\ file[targets[r.of]][1] \in Contents /\ file[targets[r.of]][Document] \in Contents
      /\ manifest[targets[r.of]] \in Manifests
  BY <1>2, Numbers DEF TypeOK
<1>4. [by |-> manifest[targets[r.of]].by, whole |-> manifest[targets[r.of]].whole] \in Contents
  BY <1>3 DEF Manifests, Contents
<1>5. Missing \in Contents
  BY DEF Missing, Contents
<1> QED
  BY <1>1, <1>3, <1>4, <1>5, Numbers DEF Found, DocumentOf, Part

LEMMA PlacedNext ==
  ASSUME TypeOK, Placed, Planned, [ReadingNext]_readVars
  PROVE  Placed' /\ Planned'
<1>1. CASE Ask
  <2>1. /\ use' \in Uses /\ targets' \in Seq(Dirs)
        /\ Len(targets') = IF use' \in Comparisons THEN 2 ELSE 1
    <3>1. CASE use' \in {"show", "refer"} /\ targets' \in {<<d>> : d \in Dirs}
      <4> PICK d \in Dirs : targets' = <<d>>
        BY <3>1
      <4> QED
        BY <3>1 DEF Uses, Comparisons
    <3>2. CASE use' \in Comparisons /\ targets' \in {<<d, e>> : d, e \in Dirs}
      <4> PICK d \in Dirs, e \in Dirs : targets' = <<d, e>>
        BY <3>2
      <4> QED
        BY <3>2 DEF Uses
    <3> QED
      BY <1>1, <3>1, <3>2 DEF Ask
  <2>2. sound' \in BOOLEAN
    BY <1>1 DEF Ask
  <2>3. /\ step = "idle" /\ step' = "manifest"
        /\ UNCHANGED <<accepted, seen, checked, diagnosed, reads, got, stale>>
    BY <1>1 DEF Ask
  <2>4. accepted' = <<>> /\ Len(accepted') = 0
    BY <2>3 DEF Placed
  <2> QED
    BY <2>1, <2>2, <2>3, <2>4 DEF Placed, Planned
<1>2. CASE ReadManifest
  <2>1. Target \in Dirs
    BY <1>2 DEF ReadManifest, Target, Placed
  <2>2. manifest[Target] \in Manifests /\ 0 \in 0..Files
    BY <2>1, FilesAssumption DEF TypeOK
  <2> QED
    BY <1>2, <2>2 DEF ReadManifest, Refuse, Placed, Planned
<1>3. CASE HashArtifact
  <2>1. diagnosed' \in BOOLEAN /\ checked' \in 0..Files
    BY <1>3, FilesAssumption DEF HashArtifact, Placed
  <2> QED
    BY <1>3, <2>1 DEF HashArtifact, Placed, Planned
<1>4. CASE BeginParsing
  <2>1. 0 \in 0..Files
    BY FilesAssumption
  <2> QED
    BY <1>4, <2>1 DEF BeginParsing, Placed, Planned
<1>5. CASE ParseArtifact
  <2>1. Parsed(seen) \in 0..Files
    BY FilesAssumption, ChangesAssumption DEF Parsed, Document
  <2>2. diagnosed' \in BOOLEAN /\ checked' \in 0..Files /\ step' \in {"parse", "refused"}
    <3> DEFINE document == file[Target][checked + 1]
               late == checked + 1 = Document /\ profile[document.by].late
    <3>1. \/ /\ diagnosed' \in IF document.by = seen.by THEN {diagnosed \/ late}
                              ELSE {diagnosed, TRUE}
             /\ checked' = checked + 1 /\ step' = step
          \/ step' = "refused" /\ UNCHANGED <<checked, diagnosed>>
      BY <1>5 DEF ParseArtifact, Refuse
    <3>2. diagnosed \in BOOLEAN /\ late \in BOOLEAN
      BY DEF Placed
    <3>3. checked < Parsed(seen) /\ step = "parse" /\ checked \in 0..Files
      BY <1>5 DEF ParseArtifact, Placed
    <3> HIDE DEF late
    <3>4. diagnosed' \in BOOLEAN
      BY <3>1, <3>2
    <3>5. /\ checked' = checked + 1 \/ checked' = checked
          /\ step' = step \/ step' = "refused"
      BY <3>1, Zenon
    <3>6. checked' \in 0..Files
      BY <2>1, <3>3, <3>5, FilesAssumption
    <3> QED
      BY <3>3, <3>4, <3>5, <3>6
  <2>3. UNCHANGED <<use, targets, accepted, seen, reads, got, sound, stale>> /\ step = "parse"
    BY <1>5 DEF ParseArtifact
  <2> QED
    BY <2>2, <2>3 DEF Placed, Planned
<1>6. CASE Report
  <2>1. /\ UNCHANGED <<use, targets, seen, checked, diagnosed, reads, got, sound, stale>>
        /\ step = "parse"
    BY <1>6 DEF Report
  <2>2. CASE diagnosed /\ Refuse /\ UNCHANGED accepted
    BY <2>1, <2>2 DEF Refuse, Placed, Planned
  <2>3. CASE /\ accepted' = Append(accepted, seen)
             /\ step' = IF Len(accepted') = Len(targets) THEN "validated" ELSE "manifest"
    <3>1. accepted' \in Seq(Manifests) /\ Len(accepted') = Len(accepted) + 1
      BY <2>3 DEF Placed
    <3>2. Len(accepted') <= Len(targets)
      BY <2>1, <3>1 DEF Placed
    <3>3. step' \in {"validated", "manifest"}
      BY <2>3
    <3> QED
      BY <2>1, <2>3, <3>1, <3>2, <3>3 DEF Placed, Planned
  <2> QED
    BY <1>6, <2>2, <2>3 DEF Report
<1>7. CASE BeginReading
  <2>1. reads' \in Seq(Items) /\ Planned'
    BY <1>7, ReadsArePlanned
  <2>2. /\ UNCHANGED <<use, targets, accepted, seen, checked, diagnosed, got, sound, stale>>
        /\ step = "validated" /\ step' = "read"
    BY <1>7 DEF BeginReading
  <2>3. got' = <<>> /\ Len(got') <= Len(reads')
    BY <2>1, <2>2 DEF Placed
  <2> QED
    BY <2>1, <2>2, <2>3 DEF Placed
<1>8. CASE ReadAgain
  <2> DEFINE r == reads[Len(got) + 1]
  <2>1. /\ UNCHANGED <<use, targets, accepted, seen, checked, diagnosed, reads, sound, stale>>
        /\ step = "read" /\ Len(got) < Len(reads)
    BY <1>8 DEF ReadAgain
  <2>2. r \in Items /\ r.of <= Len(targets)
    BY <2>1 DEF Placed, Planned
  <2>3. Found(r) \in Contents
    BY <2>2, FoundIsContent
  <2>4. \/ got' = Append(got, Found(r)) /\ step' = step
        \/ step' = "refused" /\ got' = got
    BY <1>8 DEF ReadAgain, Refuse
  <2>5. got' \in Seq(Contents) /\ (step' = "read" => Len(got') <= Len(reads))
    <3>1. got \in Seq(Contents) /\ Len(got) \in Nat /\ reads \in Seq(Items)
      BY DEF Placed
    <3> HIDE DEF r
    <3>2. CASE got' = Append(got, Found(r))
      <4>1. got' \in Seq(Contents) /\ Len(got') = Len(got) + 1
        BY <2>3, <3>1, <3>2, AppendProperties, Zenon
      <4> QED
        BY <2>1, <3>1, <4>1
    <3> QED
      BY <2>4, <3>1, <3>2
  <2> QED
    BY <2>1, <2>4, <2>5 DEF Placed, Planned
<1>9. CASE AnswerRead
  BY <1>9 DEF AnswerRead, Placed, Planned
<1>10. CASE WriterStep
  <2>1. UNCHANGED <<step, use, targets, accepted, seen, checked, diagnosed, reads, got>>
    BY <1>10, WritersStep
  <2>2. sound' \in BOOLEAN /\ stale' \in BOOLEAN
    BY <1>10, WritersStep
  <2> QED
    BY <2>1, <2>2 DEF Placed, Planned
<1>11. CASE UNCHANGED readVars
  BY <1>11 DEF readVars, reader, Placed, Planned
<1> QED
  BY <1>1, <1>2, <1>3, <1>4, <1>5, <1>6, <1>7, <1>8, <1>9, <1>10, <1>11
  DEF ReadingNext, ReaderStep
-----------------------------------------------------------------------------
(* What the command knows while nothing it has checked is changed. *)

Matches(d, m, n) == file[d][n] # Missing /\ file[d][n] = m.digests[n]

\* The targets found valid are intact, and have the manifests they had then.
StillValid ==
  ~stale => \A i \in 1..Len(accepted) :
              manifest[targets[i]] = accepted[i] /\ Intact(targets[i])

\* The manifest that was read is still there, and so are the files that were hashed.
BeingValidated ==
  ~stale /\ step \in {"hash", "parse"} =>
    /\ seen.whole /\ manifest[Target] = seen
    /\ ~diagnosed => \A n \in IF step = "hash" THEN 1..checked ELSE Artifacts :
                       Matches(Target, seen, n)

HttpAt(i) == profile[accepted[i].digests[Document].by].workload = "http"

\* What was read again is what was validated, and a score looks at HTTP evidence if
\* one of its bundles has some.
ReadAsValidated ==
  ~stale /\ step \in {"read", "answered"} =>
    /\ \A i \in 1..Len(got) : got[i] = Validated(reads[i])
    /\ use = "score" => ((\E i \in 1..Len(reads) : reads[i].part = Document)
                           <=> \E i \in {1, 2} : HttpAt(i))

\* A score is of documents that are there, and in pairs that agree.
PairsAgree ==
  step \in {"read", "answered"} /\ use = "score" =>
    \A i \in 1..Len(got) :
      got[i].whole /\ (reads[i].of = 2 => Agree(reads[i].part, got[i - 1], got[i]))

\* Writers that leave the command undisturbed leave alone what it has checked.
LEMMA WritersKeep ==
  ASSUME Placed, WriterStep, ~stale', NEW i \in 1..Len(targets), NEW n \in 0..Files,
         Checked(i, n)
  PROVE  ~stale /\ Untouched(targets[i], n)
  BY WritersStep

LEMMA StillValidNext ==
  ASSUME Placed, StillValid, BeingValidated, [ReadingNext]_readVars
  PROVE  StillValid'
<1> SUFFICES ASSUME ~stale'
             PROVE  \A i \in 1..Len(accepted') :
                      manifest'[targets'[i]] = accepted'[i] /\ Intact(targets[i])'
  BY DEF StillValid
<1>1. CASE WriterStep
  <2> SUFFICES ASSUME NEW i \in 1..Len(accepted)
               PROVE  manifest'[targets[i]] = accepted[i] /\ Intact(targets[i])'
    BY <1>1, WritersStep
  <2>1. i \in 1..Len(targets) /\ \A n \in 0..Files : Checked(i, n)
    BY DEF Placed, Checked
  <2>2. ~stale /\ \A n \in 0..Files : Untouched(targets[i], n)
    BY <1>1, <2>1, WritersKeep, Numbers
  <2>3. /\ manifest'[targets[i]] = manifest[targets[i]]
        /\ \A n \in Artifacts : file'[targets[i]][n] = file[targets[i]][n]
    BY <2>2, Numbers DEF Untouched, Artifacts
  <2>4. manifest[targets[i]] = accepted[i] /\ Intact(targets[i])
    BY <2>2 DEF StillValid
  <2>5. targets' = targets
    BY <1>1, WritersStep
  <2> QED
    BY <2>3, <2>4, <2>5 DEF Intact
<1>2. CASE Report /\ ~diagnosed
  <2>1. /\ UNCHANGED <<file, manifest, targets, stale>> /\ step = "parse"
        /\ accepted' = Append(accepted, seen)
    BY <1>2 DEF Report, vars, disk
  <2>2. /\ seen.whole /\ manifest[Target] = seen
        /\ \A n \in Artifacts : Matches(Target, seen, n)
    BY <1>2, <2>1 DEF BeingValidated
  <2>3. Intact(Target)
    BY <2>2 DEF Intact, Matches
  <2>4. /\ Len(accepted') = Len(accepted) + 1 /\ accepted'[Len(accepted) + 1] = seen
        /\ \A i \in 1..Len(accepted) : accepted'[i] = accepted[i]
    BY <2>1, AppendProperties DEF Placed
  <2>5. \A i \in 1..Len(accepted') : i \in 1..Len(accepted) \/ i = Len(accepted) + 1
    BY <2>4 DEF Placed
  <2>6. \A i \in 1..Len(accepted') : manifest[targets[i]] = accepted'[i] /\ Intact(targets[i])
    BY <2>1, <2>2, <2>3, <2>4, <2>5 DEF StillValid, Target
  <2> QED
    BY <2>1, <2>6 DEF Intact
<1>3. CASE Ask
  <2>1. accepted' = <<>>
    BY <1>3 DEF Ask, Placed
  <2> QED
    BY <2>1
<1>4. CASE \/ ReadManifest \/ HashArtifact \/ BeginParsing \/ ParseArtifact
           \/ (Report /\ diagnosed) \/ BeginReading \/ ReadAgain \/ AnswerRead
           \/ UNCHANGED readVars
  <2>1. UNCHANGED <<file, manifest, targets, accepted, stale>>
    <3>1. ReadManifest => UNCHANGED <<file, manifest, targets, accepted, stale>>
      BY DEF ReadManifest, vars, disk
    <3>2. HashArtifact => UNCHANGED <<file, manifest, targets, accepted, stale>>
      BY DEF HashArtifact, vars, disk
    <3>3. BeginParsing => UNCHANGED <<file, manifest, targets, accepted, stale>>
      BY DEF BeginParsing, vars, disk
    <3>4. ParseArtifact => UNCHANGED <<file, manifest, targets, accepted, stale>>
      BY DEF ParseArtifact, vars, disk
    <3>5. Report /\ diagnosed => UNCHANGED <<file, manifest, targets, accepted, stale>>
      BY DEF Report, vars, disk
    <3>6. BeginReading => UNCHANGED <<file, manifest, targets, accepted, stale>>
      BY DEF BeginReading, vars, disk
    <3>7. ReadAgain => UNCHANGED <<file, manifest, targets, accepted, stale>>
      BY DEF ReadAgain, vars, disk
    <3>8. AnswerRead => UNCHANGED <<file, manifest, targets, accepted, stale>>
      BY DEF AnswerRead, vars, disk
    <3>9. UNCHANGED readVars => UNCHANGED <<file, manifest, targets, accepted, stale>>
      BY DEF readVars, reader, vars, disk
    <3> QED
      BY <1>4, <3>1, <3>2, <3>3, <3>4, <3>5, <3>6, <3>7, <3>8, <3>9
  <2> QED
    BY <2>1 DEF StillValid, Intact
<1> QED
  BY <1>1, <1>2, <1>3, <1>4 DEF ReadingNext, ReaderStep

LEMMA BeingValidatedNext ==
  ASSUME TypeOK, Placed, BeingValidated, [ReadingNext]_readVars
  PROVE  BeingValidated'
<1> SUFFICES ASSUME ~stale', step' \in {"hash", "parse"}
             PROVE  /\ seen'.whole /\ manifest'[Target'] = seen'
                    /\ ~diagnosed' =>
                         \A n \in IF step' = "hash" THEN 1..checked' ELSE Artifacts :
                           file'[Target'][n] # Missing /\ file'[Target'][n] = seen'.digests[n]
  BY DEF BeingValidated, Matches
<1>1. CASE WriterStep
  <2> DEFINE j == Len(accepted) + 1
  <2>1. /\ UNCHANGED <<step, targets, accepted, seen, checked, diagnosed>>
        /\ step \in {"hash", "parse"}
    BY <1>1, WritersStep
  <2>2. j \in 1..Len(targets) /\ Checked(j, 0) /\ 0 \in 0..Files
    BY <2>1, Numbers DEF Placed, Checked
  <2>3. ~stale /\ Untouched(targets[j], 0)
    BY <1>1, <2>2, WritersKeep
  <2>4. \A n \in IF step = "hash" THEN 1..checked ELSE Artifacts :
          n \in 0..Files /\ n # 0 /\ Checked(j, n)
    BY <2>1, Numbers DEF Placed, Checked, Artifacts
  <2>5. \A n \in IF step = "hash" THEN 1..checked ELSE Artifacts : Untouched(targets[j], n)
    BY <1>1, <2>2, <2>4, WritersKeep
  <2>6. Target = targets[j] /\ Target' = targets[j]
    BY <2>1 DEF Target
  <2>7. /\ manifest'[targets[j]] = manifest[targets[j]]
        /\ \A n \in IF step = "hash" THEN 1..checked ELSE Artifacts :
             file'[targets[j]][n] = file[targets[j]][n]
    BY <2>3, <2>4, <2>5 DEF Untouched
  <2> HIDE DEF j
  <2> QED
    BY <2>1, <2>3, <2>6, <2>7 DEF BeingValidated, Matches
<1>2. CASE ReadManifest
  <2>1. /\ UNCHANGED <<file, manifest, targets, accepted>> /\ step' = "hash"
        /\ manifest[Target].whole /\ seen' = manifest[Target] /\ checked' = 0
    BY <1>2 DEF ReadManifest, Refuse, vars, disk
  <2> QED
    BY <2>1 DEF Target
<1>3. CASE HashArtifact
  <2>1. /\ UNCHANGED <<file, manifest, targets, accepted, seen, stale, step>> /\ step = "hash"
        /\ checked' = checked + 1 /\ checked \in Nat
        /\ diagnosed' = \/ diagnosed
                        \/ file[Target][checked'] = Missing
                        \/ file[Target][checked'] # seen.digests[checked']
    BY <1>3 DEF HashArtifact, vars, disk, Placed
  <2>2. \A n \in 1..checked' : n \in 1..checked \/ n = checked'
    BY <2>1
  <2>3. Target' = Target
    BY <2>1 DEF Target
  <2> QED
    BY <2>1, <2>2, <2>3 DEF BeingValidated, Matches
<1>4. CASE BeginParsing
  <2>1. /\ UNCHANGED <<file, manifest, targets, accepted, seen, stale, diagnosed>>
        /\ step = "hash" /\ checked = Files /\ step' = "parse"
    BY <1>4 DEF BeginParsing, vars, disk
  <2>2. Target' = Target
    BY <2>1 DEF Target
  <2> QED
    BY <2>1, <2>2 DEF BeingValidated, Matches, Artifacts
<1>5. CASE ParseArtifact
  <2>1. /\ UNCHANGED <<file, manifest, targets, accepted, seen, stale>>
        /\ step = "parse" /\ step' = "parse" /\ (~diagnosed' => ~diagnosed)
    BY <1>5 DEF ParseArtifact, Refuse, vars, disk
  <2>2. Target' = Target
    BY <2>1 DEF Target
  <2> QED
    BY <2>1, <2>2 DEF BeingValidated, Matches
<1>6. CASE UNCHANGED readVars
  <2>1. UNCHANGED <<file, manifest, targets, accepted, seen, stale, step, checked, diagnosed>>
    BY <1>6 DEF readVars, reader, vars, disk
  <2>2. Target' = Target
    BY <2>1 DEF Target
  <2> QED
    BY <2>1, <2>2 DEF BeingValidated, Matches
<1>7. CASE Ask \/ Report \/ BeginReading \/ ReadAgain \/ AnswerRead
  <2>1. step' \notin {"hash", "parse"}
    <3>1. Ask => step' \notin {"hash", "parse"}
      BY DEF Ask
    <3>2. Report => step' \notin {"hash", "parse"}
      BY DEF Report, Refuse
    <3>3. ReadAgain => step' \notin {"hash", "parse"}
      BY DEF ReadAgain, Refuse
    <3>4. BeginReading => step' \notin {"hash", "parse"}
      BY DEF BeginReading
    <3>5. AnswerRead => step' \notin {"hash", "parse"}
      BY DEF AnswerRead
    <3> QED
      BY <1>7, <3>1, <3>2, <3>3, <3>4, <3>5
  <2> QED
    BY <2>1
<1> QED
  BY <1>1, <1>2, <1>3, <1>4, <1>5, <1>6, <1>7 DEF ReadingNext, ReaderStep

\* The steps of the validation end before anything is read again.
LEMMA Validating ==
  ASSUME Ask \/ ReadManifest \/ HashArtifact \/ BeginParsing \/ ParseArtifact \/ Report
  PROVE  step' \notin {"read", "answered"}
<1>1. Ask => step' \notin {"read", "answered"}
  BY DEF Ask
<1>2. ReadManifest => step' \notin {"read", "answered"}
  BY DEF ReadManifest, Refuse
<1>3. HashArtifact => step' \notin {"read", "answered"}
  BY DEF HashArtifact
<1>4. BeginParsing => step' \notin {"read", "answered"}
  BY DEF BeginParsing
<1>5. ParseArtifact => step' \notin {"read", "answered"}
  BY DEF ParseArtifact, Refuse
<1>6. Report => step' \notin {"read", "answered"}
  BY DEF Report, Refuse
<1> QED
  BY <1>1, <1>2, <1>3, <1>4, <1>5, <1>6

\* What is read again of a target found valid is what was validated of it.
LEMMA FoundIs ==
  ASSUME TypeOK, Placed, StillValid, ~stale, Len(accepted) = Len(targets),
         NEW r \in Items, r.of <= Len(targets)
  PROVE  Found(r) = Validated(r)
<1> DEFINE d == targets[r.of]
           m == accepted[r.of]
<1>1. r.of \in 1..Len(accepted) /\ r.part \in {0, 1, Document}
  BY DEF Items, Placed
<1>2. d \in Dirs
  BY <1>1 DEF Placed
<1>3. manifest[d] = m /\ Intact(d) /\ manifest[d] \in Manifests
  BY <1>1, <1>2 DEF StillValid, TypeOK
<1>4. m.whole = TRUE
  BY <1>3 DEF Intact, Manifests
<1>5. \A n \in {1, Document} : file[d][n] # Missing /\ file[d][n] = m.digests[n]
  BY <1>3, Numbers DEF Intact
<1> HIDE DEF d, m
<1>6. CASE r.part = 0
  <2>1. Found(r) = [by |-> manifest[d].by, whole |-> manifest[d].whole]
    BY <1>6, Numbers DEF Found, Part, d
  <2>2. Validated(r) = [by |-> m.by, whole |-> TRUE]
    BY <1>6 DEF Validated, m
  <2> QED
    BY <1>3, <1>4, <2>1, <2>2
<1>7. CASE r.part = 1
  <2>1. Found(r) = file[d][1]
    BY <1>7, Numbers DEF Found, Part, d
  <2>2. Validated(r) = m.digests[1]
    BY <1>7 DEF Validated, m
  <2> QED
    BY <1>5, <2>1, <2>2
<1>8. CASE r.part = Document
  <2> DEFINE w == IF use = "score" THEN "http" ELSE "browser"
  <2>1. Found(r) = IF file[d][Document] # Missing /\ profile[file[d][Document].by].workload = w
                     THEN file[d][Document] ELSE Missing
    BY <1>8 DEF Found, DocumentOf, d
  <2>2. Validated(r) = IF profile[m.digests[Document].by].workload = w
                         THEN m.digests[Document] ELSE Missing
    BY <1>8, Numbers DEF Validated, m
  <2> HIDE DEF w
  <2> QED
    BY <1>5, <2>1, <2>2
<1> QED
  BY <1>1, <1>6, <1>7, <1>8

LEMMA ReadAsValidatedNext ==
  ASSUME TypeOK, Placed, Planned, StillValid, ReadAsValidated, [ReadingNext]_readVars
  PROVE  ReadAsValidated'
<1>1. CASE BeginReading
  <2>1. /\ step' = "read" /\ stale' = stale /\ accepted' = accepted /\ profile' = profile
        /\ got' = got /\ use' = use /\ step = "validated"
    BY <1>1 DEF BeginReading
  <2>2. got = <<>> /\ Len(accepted) = Len(targets)
    BY <2>1 DEF Placed
  <2>3. ASSUME ~stale, use = "score"
        PROVE  (\E i \in 1..Len(reads') : reads'[i].part = Document) <=> \E i \in {1, 2} : HttpAt(i)
    <3>1. Len(targets) = 2
      BY <2>1, <2>3 DEF Placed, Comparisons
    <3>2. \A i \in {1, 2} : /\ file[targets[i]][Document] # Missing
                            /\ file[targets[i]][Document] = accepted[i].digests[Document]
      BY <2>2, <2>3, <3>1, Numbers DEF StillValid, Intact
    <3>3. \A i \in {1, 2} : DocumentOf(targets[i], "http") # Missing <=> HttpAt(i)
      BY <3>2 DEF DocumentOf, HttpAt
    <3>4. CASE \E i \in 1..2 : DocumentOf(targets[i], "http") # Missing
      <4>1. reads' = Both(Document) \o Both(0) \o Both(1)
        BY <1>1, <2>3, <3>4 DEF BeginReading
      <4>2. ASSUME NEW s, s = reads'
            PROVE  Len(s) = 6 /\ s[1] = [of |-> 1, part |-> Document]
        BY <4>1, <4>2, ThreePairs, Zenon
      <4>3. Len(reads') = 6 /\ reads'[1].part = Document
        BY <4>2
      <4> QED
        BY <3>3, <3>4, <4>3
    <3>5. CASE ~\E i \in 1..2 : DocumentOf(targets[i], "http") # Missing
      <4>1. reads' = Both(0) \o Both(1)
        BY <1>1, <2>3, <3>5 DEF BeginReading
      <4>2. ASSUME NEW s, s = reads'
            PROVE  /\ Len(s) = 4
                   /\ s[1] = [of |-> 1, part |-> 0] /\ s[2] = [of |-> 2, part |-> 0]
                   /\ s[3] = [of |-> 1, part |-> 1] /\ s[4] = [of |-> 2, part |-> 1]
        <5>1. 0 \in {0, 1, Document} /\ 1 \in {0, 1, Document}
          OBVIOUS
        <5> QED
          BY <4>1, <4>2, <5>1, TwoPairs, Zenon
      <4>3. /\ Len(reads') = 4 /\ reads'[1].part = 0 /\ reads'[2].part = 0
            /\ reads'[3].part = 1 /\ reads'[4].part = 1
        BY <4>2
      <4>4. \A i \in 1..4 : i = 1 \/ i = 2 \/ i = 3 \/ i = 4
        OBVIOUS
      <4>5. ~\E i \in 1..Len(reads') : reads'[i].part = Document
        BY <4>3, <4>4, Numbers
      <4> QED
        BY <3>3, <3>5, <4>5
    <3> QED
      BY <3>4, <3>5
  <2>4. HttpAt(1)' = HttpAt(1) /\ HttpAt(2)' = HttpAt(2)
    BY <2>1 DEF HttpAt
  <2> QED
    BY <2>1, <2>2, <2>3, <2>4 DEF ReadAsValidated
<1>2. CASE ReadAgain
  <2> DEFINE r == reads[Len(got) + 1]
  <2>1. /\ UNCHANGED <<profile, use, targets, accepted, reads, stale>>
        /\ step = "read" /\ Len(got) < Len(reads)
    BY <1>2 DEF ReadAgain
  <2>2. r \in Items /\ r.of <= Len(targets) /\ Len(accepted) = Len(targets)
    BY <2>1 DEF Placed, Planned
  <2>3. ~stale => Found(r) = Validated(r)
    BY <2>2, FoundIs
  <2>4. \/ got' = Append(got, Found(r)) /\ step' = step
        \/ step' = "refused" /\ got' = got
    BY <1>2 DEF ReadAgain, Refuse
  <2>5. CASE step' = "refused"
    BY <2>5 DEF ReadAsValidated
  <2>6. CASE got' = Append(got, Found(r)) /\ step' = step
    <3>1. /\ Len(got') = Len(got) + 1 /\ got'[Len(got) + 1] = Found(r)
          /\ \A i \in 1..Len(got) : got'[i] = got[i]
      BY <2>6, AppendProperties, FoundIsContent, <2>2 DEF Placed
    <3>2. \A i \in 1..Len(got') : i \in 1..Len(got) \/ i = Len(got) + 1
      BY <3>1 DEF Placed
    <3>3. ~stale => \A i \in 1..Len(got') : got'[i] = Validated(reads[i])
      BY <2>1, <2>3, <3>1, <3>2 DEF ReadAsValidated
    <3> QED
      BY <2>1, <3>3 DEF ReadAsValidated, Validated, HttpAt
  <2> QED
    BY <2>4, <2>5, <2>6
<1>3. CASE AnswerRead
  <2>1. /\ UNCHANGED <<profile, use, accepted, reads, got, stale>> /\ step = "read"
    BY <1>3 DEF AnswerRead
  <2> QED
    BY <2>1 DEF ReadAsValidated, Validated, HttpAt
<1>4. CASE WriterStep
  <2>1. /\ UNCHANGED <<profile, step, use, accepted, reads, got>> /\ (stale => stale')
    BY <1>4, WritersStep
  <2> QED
    BY <2>1 DEF ReadAsValidated, Validated, HttpAt
<1>5. CASE UNCHANGED readVars
  <2>1. UNCHANGED <<profile, step, use, accepted, reads, got, stale>>
    BY <1>5 DEF readVars, reader
  <2> QED
    BY <2>1 DEF ReadAsValidated, Validated, HttpAt
<1>6. CASE Ask \/ ReadManifest \/ HashArtifact \/ BeginParsing \/ ParseArtifact \/ Report
  <2>1. step' \notin {"read", "answered"}
    BY <1>6, Validating
  <2> QED
    BY <2>1 DEF ReadAsValidated
<1> QED
  BY <1>1, <1>2, <1>3, <1>4, <1>5, <1>6 DEF ReadingNext, ReaderStep

LEMMA PairsAgreeNext ==
  ASSUME TypeOK, Placed, Planned, PairsAgree, [ReadingNext]_readVars
  PROVE  PairsAgree'
<1>1. CASE BeginReading
  <2>1. got' = got /\ step = "validated"
    BY <1>1 DEF BeginReading
  <2>2. got' = <<>>
    BY <2>1 DEF Placed
  <2> QED
    BY <2>2 DEF PairsAgree
<1>2. CASE ReadAgain
  <2> DEFINE r == reads[Len(got) + 1]
             good == Readable(r, Found(r)) /\ (use = "score" => Agreed(Found(r)))
  <2>1. /\ UNCHANGED <<profile, use, reads>> /\ step = "read" /\ Len(got) < Len(reads)
    BY <1>2 DEF ReadAgain
  <2>2. \/ good /\ got' = Append(got, Found(r)) /\ step' = step
        \/ step' = "refused"
    BY <1>2 DEF ReadAgain, Refuse
  <2>3. CASE step' = "refused"
    BY <2>3 DEF PairsAgree
  <2>4. CASE good /\ got' = Append(got, Found(r)) /\ use = "score"
    <3>1. r \in Items /\ r.of <= Len(targets)
      BY <2>1 DEF Placed, Planned
    <3>2. /\ Len(got') = Len(got) + 1 /\ got'[Len(got) + 1] = Found(r)
          /\ \A i \in 1..Len(got) : got'[i] = got[i]
      BY <2>4, AppendProperties, FoundIsContent, <3>1 DEF Placed
    <3>3. \A i \in 1..Len(got') : i \in 1..Len(got) \/ i = Len(got) + 1
      BY <3>2 DEF Placed
    <3>4. Found(r).whole /\ (r.of = 2 => Agree(r.part, got[Len(got)], Found(r)))
      BY <2>4 DEF Readable, Agreed
    <3>5. Paired(reads) /\ Len(got) + 1 \in 1..Len(reads) /\ Len(got) \in Nat
      BY <2>1, <2>4 DEF Planned, Placed
    <3>6. \A i \in 1..Len(reads) : reads[i].of = 2 => i > 1
      BY <3>5, Zenon DEF Paired
    <3>7. \A i \in 1..Len(got) : i \in 1..Len(reads) /\ (i > 1 => i - 1 \in 1..Len(got))
      BY <2>1, <3>5 DEF Placed
    <3>8. \A i \in 1..Len(got) : reads[i].of = 2 => i - 1 \in 1..Len(got)
      BY <3>6, <3>7, Zenon
    <3>9. r.of = 2 => Len(got) \in 1..Len(got)
      <4>1. r.of = 2 => Len(got) + 1 > 1
        BY <3>5, <3>6, Zenon
      <4> QED
        BY <3>5, <4>1
    <3>10. \A i \in 1..Len(got') :
            got'[i].whole /\ (reads[i].of = 2 => Agree(reads[i].part, got'[i - 1], got'[i]))
      <4> TAKE i \in 1..Len(got')
      <4>1. CASE i \in 1..Len(got)
        BY <2>1, <2>4, <3>2, <3>8, <4>1 DEF PairsAgree
      <4>2. CASE i = Len(got) + 1
        <5>1. i - 1 = Len(got)
          BY <3>5, <4>2
        <5>2. r.of = 2 => got'[i - 1] = got[Len(got)]
          BY <3>2, <3>9, <5>1
        <5> QED
          BY <3>2, <3>4, <4>2, <5>2
      <4> QED
        BY <3>3, <4>1, <4>2
    <3> QED
      BY <2>1, <3>10 DEF PairsAgree, Agree
  <2>5. CASE use # "score"
    BY <2>1, <2>5 DEF PairsAgree
  <2> QED
    BY <2>2, <2>3, <2>4, <2>5
<1>3. CASE AnswerRead
  <2>1. UNCHANGED <<profile, use, reads, got>> /\ step = "read"
    BY <1>3 DEF AnswerRead
  <2> QED
    BY <2>1 DEF PairsAgree, Agree
<1>4. CASE WriterStep
  <2>1. UNCHANGED <<profile, step, use, reads, got>>
    BY <1>4, WritersStep
  <2> QED
    BY <2>1 DEF PairsAgree, Agree
<1>5. CASE UNCHANGED readVars
  <2>1. UNCHANGED <<profile, step, use, reads, got>>
    BY <1>5 DEF readVars, reader
  <2> QED
    BY <2>1 DEF PairsAgree, Agree
<1>6. CASE Ask \/ ReadManifest \/ HashArtifact \/ BeginParsing \/ ParseArtifact \/ Report
  <2>1. step' \notin {"read", "answered"}
    BY <1>6, Validating
  <2> QED
    BY <2>1 DEF PairsAgree
<1> QED
  BY <1>1, <1>2, <1>3, <1>4, <1>5, <1>6 DEF ReadingNext, ReaderStep
-----------------------------------------------------------------------------
(* What the command refuses of bundles that are their captures' throughout. *)

Genuine ==
  /\ step = "idle" => ~sound /\ ~stale
  /\ sound =>
       /\ ~stale
       /\ \A i \in 1..Len(targets) : Intact(targets[i]) /\ Pure(manifest[targets[i]])
       /\ step = "hash" => ~diagnosed
       /\ step = "parse" /\ diagnosed => profile[seen.by].late
       /\ IntactIsNotRefused

\* What is validated of a capture's own bundle: its own document, if it has that one.
LEMMA ValidatedIs ==
  ASSUME NEW r \in Items, Pure(accepted[r.of])
  PROVE  LET m == accepted[r.of]
             w == IF use = "score" THEN "http" ELSE "browser"
         IN Validated(r) = IF r.part \in {0, 1} \/ profile[m.by].workload = w
                             THEN [by |-> m.by, whole |-> TRUE] ELSE Missing
<1> DEFINE m == accepted[r.of]
           w == IF use = "score" THEN "http" ELSE "browser"
<1>1. r.part \in {0, 1, Document}
  BY DEF Items
<1>2. \A n \in {1, Document} : m.digests[n] = [by |-> m.by, whole |-> TRUE]
  BY Numbers DEF Pure
<1>3. m.digests[Document].by = m.by
  BY <1>2
<1>4. Validated(r) = IF r.part = 0 THEN [by |-> m.by, whole |-> TRUE]
                     ELSE IF r.part = 1 \/ profile[m.digests[r.part].by].workload = w
                       THEN m.digests[r.part] ELSE Missing
  BY DEF Validated
<1> HIDE DEF m, w
<1>5. Validated(r) = IF r.part \in {0, 1} \/ profile[m.by].workload = w
                       THEN [by |-> m.by, whole |-> TRUE] ELSE Missing
  BY <1>1, <1>2, <1>3, <1>4, Numbers
<1> QED
  BY <1>5 DEF m, w

\* Of such bundles only a score refuses what it reads again, and for what it compares.
LEMMA RefusalHasReason ==
  ASSUME TypeOK, Placed, Planned, StillValid, ReadAsValidated, PairsAgree, Genuine, sound,
         step = "read", Len(got) < Len(reads),
         NEW r, r = reads[Len(got) + 1],
         ~(Readable(r, Found(r)) /\ (use = "score" => Agreed(Found(r))))
  PROVE  use = "score" /\ Unscorable(manifest[targets[1]], manifest[targets[2]])
<1> DEFINE w == IF use = "score" THEN "http" ELSE "browser"
           m == accepted[r.of]
<1>1. /\ ~stale /\ Len(accepted) = Len(targets)
      /\ \A i \in 1..Len(targets) : manifest[targets[i]] = accepted[i] /\ Pure(accepted[i])
  BY DEF Genuine, Placed, StillValid
<1>2. r \in Items /\ r.of \in 1..Len(targets) /\ Len(got) + 1 \in 1..Len(reads)
  <2>1. Len(got) + 1 \in 1..Len(reads) /\ reads \in Seq(Items) /\ Len(targets) \in Nat
    BY DEF Placed
  <2>2. r \in Items /\ r.of <= Len(targets)
    BY <2>1 DEF Planned
  <2> QED
    BY <2>1, <2>2 DEF Items
<1>3. Found(r) = IF r.part \in {0, 1} \/ profile[m.by].workload = w
                   THEN [by |-> m.by, whole |-> TRUE] ELSE Missing
  <2>1. Found(r) = Validated(r)
    BY <1>1, <1>2, FoundIs DEF Placed
  <2> QED
    BY <1>1, <1>2, <2>1, ValidatedIs
<1>4. r.part \in {0, 1} \/ r.part = Document
  BY <1>2 DEF Items
<1>5. use = "score"
  <2> SUFFICES ASSUME use # "score"
               PROVE  FALSE
    OBVIOUS
  <2>1. ~Found(r).whole /\ ~(use = "browser" /\ r.part = Document /\ Found(r) = Missing)
    BY DEF Readable
  <2>2. r.part = Document /\ Found(r) = Missing
    BY <1>3, <1>4, <2>1
  <2>3. use = "browser"
    BY <1>2, <2>2 DEF Planned
  <2> QED
    BY <2>1, <2>2, <2>3
<1>6. Len(targets) = 2 /\ 1 \in 1..2 /\ 2 \in 1..2
  BY <1>5 DEF Placed, Comparisons
<1>7. \A i \in {1, 2} : HttpAt(i) <=> profile[accepted[i].by].workload = "http"
  BY <1>1, <1>6, Numbers DEF HttpAt, Pure
<1>8. CASE ~Found(r).whole
  <2>1. r.part = Document /\ profile[m.by].workload # "http"
    BY <1>3, <1>4, <1>5, <1>8
  <2>2. \E i \in {1, 2} : HttpAt(i)
    BY <1>1, <1>2, <1>5, <2>1 DEF ReadAsValidated
  <2>3. r.of \in {1, 2}
    BY <1>2 DEF Items
  <2>4. (profile[accepted[1].by].workload = "http") # (profile[accepted[2].by].workload = "http")
    BY <1>7, <2>1, <2>2, <2>3
  <2> QED
    BY <1>1, <1>5, <1>6, <2>4 DEF Unscorable
<1>9. CASE Found(r).whole
  <2>1. ~Agreed(Found(r))
    BY <1>5, <1>9 DEF Readable
  <2>2. r.of = 2 /\ ~Agree(r.part, got[Len(got)], Found(r))
    BY <2>1 DEF Agreed
  <2>3. Paired(reads) /\ Len(got) \in Nat
    BY <1>5 DEF Planned, Placed
  <2>4. Len(got) + 1 > 1 /\ reads[(Len(got) + 1) - 1] = [of |-> 1, part |-> r.part]
    BY <1>2, <2>2, <2>3, Zenon DEF Paired
  <2>5. Len(got) \in 1..Len(got) /\ reads[Len(got)] = [of |-> 1, part |-> r.part]
    BY <2>3, <2>4
  <2>6. got[Len(got)].whole /\ got[Len(got)] = Validated(reads[Len(got)])
    BY <1>1, <1>5, <2>5 DEF PairsAgree, ReadAsValidated
  <2>7. [of |-> 1, part |-> r.part] \in Items
    BY <1>2 DEF Items
  <2>8. got[Len(got)] = IF r.part \in {0, 1} \/ profile[accepted[1].by].workload = "http"
                          THEN [by |-> accepted[1].by, whole |-> TRUE] ELSE Missing
    <3>1. ASSUME NEW q \in Items, q = [of |-> 1, part |-> r.part]
          PROVE  Validated(q) = IF r.part \in {0, 1} \/ profile[accepted[1].by].workload = "http"
                                  THEN [by |-> accepted[1].by, whole |-> TRUE] ELSE Missing
      <4>1. q.of = 1 /\ q.part = r.part /\ Pure(accepted[1])
        BY <1>1, <1>6, <3>1
      <4> QED
        BY <1>5, <4>1, ValidatedIs
    <3> QED
      BY <2>5, <2>6, <2>7, <3>1
  <2>9. got[Len(got)].by = accepted[1].by /\ Found(r).by = accepted[2].by
    BY <1>3, <1>9, <2>2, <2>6, <2>8 DEF Missing
  <2>10. r.part = Document => \A i \in {1, 2} : profile[accepted[i].by].workload = "http"
    <3>1. Document \notin {0, 1}
      BY Numbers
    <3> QED
      BY <1>3, <1>5, <1>9, <2>2, <2>6, <2>8, <3>1 DEF Missing
  <2>11. ~Agree(r.part, accepted[1], accepted[2])
    BY <2>2, <2>9 DEF Agree
  <2> QED
    BY <1>1, <1>4, <1>5, <1>6, <2>10, <2>11 DEF Unscorable
<1> QED
  BY <1>8, <1>9

LEMMA GenuineNext ==
  ASSUME TypeOK, Placed, Planned, StillValid, BeingValidated, ReadAsValidated, PairsAgree,
         Genuine, [ReadingNext]_readVars
  PROVE  Genuine'
<1>1. CASE Ask
  <2>1. /\ step = "idle" /\ step' = "manifest" /\ UNCHANGED <<manifest, file, stale>>
        /\ sound' = \A i \in 1..Len(targets') : Intact(targets'[i]) /\ Pure(manifest[targets'[i]])
    BY <1>1 DEF Ask, vars, disk
  <2>2. ~stale'
    BY <2>1 DEF Genuine
  <2> QED
    BY <2>1, <2>2 DEF Genuine, IntactIsNotRefused, Intact, Pure
<1>2. CASE WriterStep
  <2>1. /\ UNCHANGED <<profile, step, use, targets, seen, diagnosed>>
        /\ sound' = (sound /\ \A i \in 1..Len(targets), n \in 0..Files : Untouched(targets[i], n))
        /\ stale' = (stale \/ \E i \in 1..Len(targets), n \in 0..Files :
                                Checked(i, n) /\ ~Untouched(targets[i], n))
    BY <1>2, WritersStep
  <2>2. step = "idle" => ~sound' /\ ~stale'
    <3> SUFFICES ASSUME step = "idle"
                 PROVE  ~sound' /\ ~stale'
      OBVIOUS
    <3>1. ~sound /\ ~stale /\ targets = <<>>
      BY DEF Genuine, Placed
    <3>2. \A i \in 1..Len(targets) : FALSE
      BY <3>1
    <3> QED
      BY <2>1, <3>1, <3>2, Zenon
  <2>3. ASSUME sound'
        PROVE  /\ sound /\ ~stale'
               /\ \A i \in 1..Len(targets) :
                    /\ manifest'[targets[i]] = manifest[targets[i]]
                    /\ \A n \in Artifacts : file'[targets[i]][n] = file[targets[i]][n]
    <3>1. sound /\ \A i \in 1..Len(targets), n \in 0..Files : Untouched(targets[i], n)
      BY <2>1, <2>3
    <3>2. ~stale'
      BY <2>1, <3>1 DEF Genuine
    <3>3. \A n \in Artifacts : n \in 0..Files /\ n # 0
      BY Numbers DEF Artifacts
    <3>4. 0 \in 0..Files
      BY Numbers
    <3> QED
      BY <3>1, <3>2, <3>3, <3>4 DEF Untouched
  <2>4. sound' => \A i \in 1..Len(targets) :
                    Intact(targets[i])' /\ Pure(manifest[targets[i]])'
    <3> SUFFICES ASSUME sound', NEW i \in 1..Len(targets)
                 PROVE  Intact(targets[i])' /\ Pure(manifest[targets[i]])'
      OBVIOUS
    <3>1. /\ sound /\ manifest'[targets[i]] = manifest[targets[i]]
          /\ \A n \in Artifacts : file'[targets[i]][n] = file[targets[i]][n]
      BY <2>3
    <3>2. Intact(targets[i]) /\ Pure(manifest[targets[i]])
      BY <3>1 DEF Genuine
    <3>3. targets' = targets
      BY <2>1
    <3> QED
      BY <3>1, <3>2, <3>3 DEF Intact, Pure
  <2>5. sound' => IntactIsNotRefused'
    <3> SUFFICES ASSUME sound', step = "refused"
                 PROVE  IntactIsNotRefused'
      BY <2>1 DEF IntactIsNotRefused
    <3>1. sound /\ \A i \in 1..Len(targets) : manifest'[targets[i]] = manifest[targets[i]]
      BY <2>3
    <3>2. CASE \E i \in 1..Len(targets) : profile[manifest[targets[i]].by].late
      BY <2>1, <3>1, <3>2 DEF IntactIsNotRefused
    <3>3. CASE use = "score" /\ Unscorable(manifest[targets[1]], manifest[targets[2]])
      <4>1. Len(targets) = 2 /\ 1 \in 1..2 /\ 2 \in 1..2
        BY <3>3 DEF Placed, Comparisons
      <4> QED
        BY <2>1, <3>1, <3>3, <4>1 DEF IntactIsNotRefused, Unscorable, Agree
    <3> QED
      BY <3>1, <3>2, <3>3 DEF Genuine, IntactIsNotRefused
  <2> QED
    BY <2>1, <2>2, <2>3, <2>4, <2>5 DEF Genuine
<1>3. CASE UNCHANGED readVars
  <2>1. UNCHANGED <<manifest, file, profile, step, use, targets, seen, diagnosed, sound, stale>>
    BY <1>3 DEF readVars, reader, vars, disk
  <2> QED
    BY <2>1 DEF Genuine, IntactIsNotRefused, Unscorable, Agree, Intact, Pure
<1>4. CASE ReaderStep /\ ~Ask
  <2>1. UNCHANGED <<manifest, file, profile, use, targets, sound, stale>> /\ step' # "idle"
    <3>1. ReadManifest => UNCHANGED <<use, targets, sound, stale>> /\ step' # "idle"
      BY DEF ReadManifest, Refuse
    <3>2. HashArtifact => UNCHANGED <<use, targets, sound, stale>> /\ step' # "idle"
      BY DEF HashArtifact
    <3>3. BeginParsing => UNCHANGED <<use, targets, sound, stale>> /\ step' # "idle"
      BY DEF BeginParsing
    <3>4. ParseArtifact => UNCHANGED <<use, targets, sound, stale>> /\ step' # "idle"
      BY DEF ParseArtifact, Refuse
    <3>5. Report => UNCHANGED <<use, targets, sound, stale>> /\ step' # "idle"
      BY DEF Report, Refuse
    <3>6. BeginReading => UNCHANGED <<use, targets, sound, stale>> /\ step' # "idle"
      BY DEF BeginReading
    <3>7. ReadAgain => UNCHANGED <<use, targets, sound, stale>> /\ step' # "idle"
      BY DEF ReadAgain, Refuse
    <3>8. AnswerRead => UNCHANGED <<use, targets, sound, stale>> /\ step' # "idle"
      BY DEF AnswerRead
    <3>9. UNCHANGED <<manifest, file, profile>>
      BY <1>4, ReadersOnlyRead DEF disk
    <3> QED
      BY <1>4, <3>1, <3>2, <3>3, <3>4, <3>5, <3>6, <3>7, <3>8, <3>9 DEF ReaderStep
  <2> SUFFICES ASSUME sound
               PROVE  /\ step' = "hash" => ~diagnosed'
                      /\ step' = "parse" /\ diagnosed' => profile[seen'.by].late
                      /\ step' = "refused" =>
                           \/ \E i \in 1..Len(targets) : profile[manifest[targets[i]].by].late
                           \/ use = "score" /\ Unscorable(manifest[targets[1]], manifest[targets[2]])
    BY <2>1 DEF Genuine, IntactIsNotRefused, Unscorable, Agree, Intact, Pure
  <2>2. step \in {"manifest", "hash", "parse"} =>
          /\ Target \in {targets[i] : i \in 1..Len(targets)}
          /\ Intact(Target) /\ Pure(manifest[Target])
    <3> SUFFICES ASSUME step \in {"manifest", "hash", "parse"}
                 PROVE  /\ Len(accepted) + 1 \in 1..Len(targets)
                        /\ Intact(targets[Len(accepted) + 1])
                        /\ Pure(manifest[targets[Len(accepted) + 1]])
      BY DEF Target
    <3>1. Len(accepted) + 1 \in 1..Len(targets)
      BY DEF Placed
    <3> QED
      BY <3>1 DEF Genuine
  <2>3. step \in {"hash", "parse"} => manifest[Target] = seen
    BY DEF BeingValidated, Genuine
  <2>4. CASE ReadManifest
    <3>1. /\ step = "manifest"
          /\ \/ manifest[Target].whole /\ ~diagnosed' /\ step' = "hash"
             \/ ~manifest[Target].whole
      BY <2>4 DEF ReadManifest
    <3>2. manifest[Target].whole
      BY <2>2, <3>1 DEF Intact
    <3> QED
      BY <3>1, <3>2
  <2>5. CASE HashArtifact
    <3>1. /\ step = "hash" /\ step' = step /\ checked' = checked + 1 /\ checked' \in Artifacts
          /\ diagnosed' = \/ diagnosed
                          \/ file[Target][checked'] = Missing
                          \/ file[Target][checked'] # seen.digests[checked']
      BY <2>5, Numbers DEF HashArtifact, Placed, Artifacts
    <3>2. ~diagnosed'
      BY <2>2, <2>3, <3>1 DEF Genuine, Intact
    <3> QED
      BY <3>1, <3>2
  <2>6. CASE BeginParsing
    <3>1. step = "hash" /\ step' = "parse" /\ diagnosed' = diagnosed
      BY <2>6 DEF BeginParsing
    <3> QED
      BY <3>1 DEF Genuine
  <2>7. CASE ParseArtifact
    <3> DEFINE document == file[Target][checked + 1]
               late == checked + 1 = Document /\ profile[document.by].late
    <3>1. /\ step = "parse" /\ seen' = seen
          /\ \/ /\ diagnosed' \in IF document.by = seen.by THEN {diagnosed \/ late}
                                  ELSE {diagnosed, TRUE}
                /\ step' = step
             \/ ~document.whole
      BY <2>7 DEF ParseArtifact
    <3>2. checked + 1 \in Artifacts
      BY <2>7, Numbers DEF ParseArtifact, Parsed, Document, Placed, Artifacts
    <3>3. document = [by |-> seen.by, whole |-> TRUE]
      BY <2>2, <2>3, <3>1, <3>2 DEF Intact, Pure
    <3>4. document.by = seen.by /\ document.whole
      BY <3>3
    <3>5. diagnosed /\ step = "parse" => profile[seen.by].late
      BY DEF Genuine
    <3>6. late => profile[seen.by].late
      BY <3>4
    <3> HIDE DEF document, late
    <3>7. diagnosed' = (diagnosed \/ late) /\ step' = "parse"
      BY <3>1, <3>4
    <3> QED
      BY <3>1, <3>5, <3>6, <3>7
  <2>8. CASE Report
    <3>1. /\ step = "parse"
          /\ \/ diagnosed
             \/ ~diagnosed /\ step' = IF Len(accepted') = Len(targets) THEN "validated" ELSE "manifest"
      BY <2>8 DEF Report
    <3>2. CASE diagnosed
      <4>1. profile[manifest[Target].by].late
        BY <2>3, <3>1, <3>2 DEF Genuine
      <4>2. \E i \in 1..Len(targets) : profile[manifest[targets[i]].by].late
        BY <2>2, <3>1, <4>1
      <4>3. step' = "refused"
        BY <2>8, <3>2 DEF Report, Refuse
      <4> QED
        BY <4>2, <4>3
    <3>3. CASE ~diagnosed
      <4>1. step' \notin {"hash", "parse", "refused"}
        BY <3>1, <3>3
      <4> QED
        BY <4>1
    <3> QED
      BY <3>2, <3>3
  <2>9. CASE BeginReading \/ AnswerRead
    <3>1. BeginReading => step' = "read"
      BY DEF BeginReading
    <3>2. AnswerRead => step' = "answered"
      BY DEF AnswerRead
    <3> QED
      BY <2>9, <3>1, <3>2
  <2>10. CASE ReadAgain
    <3> DEFINE r == reads[Len(got) + 1]
               good == Readable(r, Found(r)) /\ (use = "score" => Agreed(Found(r)))
    <3>1. /\ step = "read" /\ Len(got) < Len(reads)
          /\ \/ good /\ step' = step
             \/ ~good /\ step' = "refused"
      BY <2>10 DEF ReadAgain, Refuse
    <3>2. ~good => use = "score" /\ Unscorable(manifest[targets[1]], manifest[targets[2]])
      BY <3>1, RefusalHasReason
    <3> QED
      BY <3>1, <3>2
  <2> QED
    BY <1>4, <2>4, <2>5, <2>6, <2>7, <2>8, <2>9, <2>10 DEF ReaderStep
<1> QED
  BY <1>1, <1>2, <1>3, <1>4 DEF ReadingNext
-----------------------------------------------------------------------------
(* The three promises. *)

IInv ==
  /\ TypeOK /\ Placed /\ Planned
  /\ StillValid /\ BeingValidated /\ ReadAsValidated /\ PairsAgree /\ Genuine

LEMMA Inductive == ReadingSpec => []IInv
<1>1. ReadingInit => IInv
  <2> SUFFICES ASSUME ReadingInit
               PROVE  IInv
    OBVIOUS
  <2>1. TypeOK /\ Placed /\ Planned
    BY PlacedInit
  <2>2. step = "idle" /\ accepted = <<>> /\ sound = FALSE /\ stale = FALSE
    BY DEF ReadingInit
  <2>3. StillValid /\ BeingValidated /\ ReadAsValidated /\ PairsAgree /\ Genuine
    BY <2>2 DEF StillValid, BeingValidated, ReadAsValidated, PairsAgree, Genuine
  <2> QED
    BY <2>1, <2>3 DEF IInv
<1>2. IInv /\ [ReadingNext]_readVars => IInv'
  <2> SUFFICES ASSUME IInv, [ReadingNext]_readVars
               PROVE  IInv'
    OBVIOUS
  <2> USE DEF IInv
  <2>1. TypeOK' /\ Placed' /\ Planned'
    BY DiskTypes, PlacedNext
  <2>2. StillValid' /\ BeingValidated'
    BY StillValidNext, BeingValidatedNext
  <2>3. ReadAsValidated' /\ PairsAgree'
    BY ReadAsValidatedNext, PairsAgreeNext
  <2>4. Genuine'
    BY GenuineNext
  <2> QED
    BY <2>1, <2>2, <2>3, <2>4
<1> QED
  BY <1>1, <1>2, PTL DEF ReadingSpec

\* Whatever captures write, also several to one path, and whatever people remove or copy,
\* a command answers only from bundles that are intact at that moment, unless a part was
\* changed after the command had checked that part (src/bundle.rs, validate_bundle).
THEOREM IntactAnswers == ReadingSpec => []OnlyIntactIsAnswered
<1>1. IInv => OnlyIntactIsAnswered
  BY DEF IInv, Placed, StillValid, OnlyIntactIsAnswered
<1> QED
  BY <1>1, Inductive, PTL

\* With the same exemption, everything a command reads again is what it validated, and
\* the two bundles of a score agree in all that score_bundles requires: the collector,
\* the scenario, the environment and the metrics (src/score.rs).
THEOREM ValidatedAnswers == ReadingSpec => []AnswerIsTheValidated
<1>1. IInv => AnswerIsTheValidated
  <2> SUFFICES ASSUME IInv, step = "answered", ~stale
               PROVE  /\ Len(accepted) = Len(targets)
                      /\ \A i \in 1..Len(got) : got[i] = Validated(reads[i])
                      /\ use = "score" /\ Pure(accepted[1]) /\ Pure(accepted[2]) =>
                           ~Unscorable(accepted[1], accepted[2])
    BY DEF AnswerIsTheValidated
  <2>1. Len(accepted) = Len(targets) /\ Len(got) = Len(reads) /\ reads \in Seq(Items)
    BY DEF IInv, Placed
  <2>2. \A i \in 1..Len(got) : got[i] = Validated(reads[i])
    BY DEF IInv, ReadAsValidated
  <2>3. ASSUME use = "score", Pure(accepted[1]), Pure(accepted[2])
        PROVE  ~Unscorable(accepted[1], accepted[2])
    <3> DEFINE x == accepted[1]
               y == accepted[2]
               http(m) == profile[m.by].workload = "http"
    <3>1. Paired(reads)
      BY <2>3 DEF IInv, Planned
    <3>2. ASSUME NEW n \in {0, 1, Document}, NEW i \in 1..Len(reads),
                 reads[i] = [of |-> 2, part |-> n]
          PROVE  Agree(n, x, y) /\ (n = Document => http(x) /\ http(y))
      <4>1. i > 1 /\ reads[i - 1] = [of |-> 1, part |-> n]
        <5>1. reads[i].of = 2 /\ reads[i].part = n
          BY <3>2
        <5> QED
          BY <3>1, <5>1, Zenon DEF Paired
      <4>2. i \in 1..Len(got) /\ i - 1 \in 1..Len(got) /\ reads[i].of = 2
        BY <2>1, <3>2, <4>1
      <4>3. got[i].whole /\ got[i - 1].whole /\ Agree(n, got[i - 1], got[i])
        BY <2>3, <3>2, <4>2 DEF IInv, PairsAgree
      <4>4. ASSUME NEW q \in Items, q.part = n, Validated(q).whole, Pure(accepted[q.of])
            PROVE  /\ Validated(q).by = accepted[q.of].by
                   /\ n = Document => http(accepted[q.of])
        BY <2>3, <4>4, ValidatedIs, Numbers DEF Missing
      <4>5. [of |-> 1, part |-> n] \in Items /\ [of |-> 2, part |-> n] \in Items
        BY DEF Items
      <4>6. got[i - 1] = Validated([of |-> 1, part |-> n]) /\ got[i] = Validated([of |-> 2, part |-> n])
        BY <2>2, <3>2, <4>1, <4>2
      <4>7. /\ got[i - 1].by = x.by /\ (n = Document => http(x))
        BY <2>3, <4>3, <4>4, <4>5, <4>6
      <4>8. /\ got[i].by = y.by /\ (n = Document => http(y))
        BY <2>3, <4>3, <4>4, <4>5, <4>6
      <4> QED
        BY <4>3, <4>7, <4>8 DEF Agree
    <3>3. Agree(0, x, y) /\ Agree(1, x, y)
      <4>1. \A n \in {0, 1} : \E i \in 1..Len(reads) : reads[i] = [of |-> 2, part |-> n]
        BY <3>1 DEF Paired
      <4> QED
        BY <3>2, <4>1
    <3>4. \A i \in {1, 2} : HttpAt(i) <=> http(accepted[i])
      BY <2>3, Numbers DEF HttpAt, Pure
    <3>5. http(x) \/ http(y) => http(x) /\ http(y) /\ Agree(Document, x, y)
      <4> SUFFICES ASSUME http(x) \/ http(y)
                   PROVE  http(x) /\ http(y) /\ Agree(Document, x, y)
        OBVIOUS
      <4>1. \E i \in 1..Len(reads) : reads[i].part = Document
        BY <2>3, <3>4 DEF IInv, ReadAsValidated
      <4>2. \E i \in 1..Len(reads) : reads[i] = [of |-> 2, part |-> Document]
        BY <3>1, <4>1 DEF Paired
      <4> QED
        BY <3>2, <4>2
    <3> QED
      BY <3>3, <3>5 DEF Unscorable
  <2> QED
    BY <2>1, <2>2, <2>3
<1> QED
  BY <1>1, Inductive, PTL

\* Bundles that are their captures' from start to end are refused only for a late batch
\* of requests, or by score_bundles when they differ in what it requires to agree: their
\* files are published in an order, and read in one, that raise no false alarm.
THEOREM NoFalseAlarm == ReadingSpec => []IntactIsNotRefused
<1>1. IInv => IntactIsNotRefused
  BY DEF IInv, Genuine, IntactIsNotRefused
<1> QED
  BY <1>1, Inductive, PTL
=============================================================================
