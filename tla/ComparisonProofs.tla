-------------------------- MODULE ComparisonProofs --------------------------
(***************************************************************************)
(* Proofs about Comparison: the assessment of two recorded identities, for *)
(* any fields and records, and the alias of a metric, for any statistics.  *)
(***************************************************************************)
EXTENDS Comparison, FiniteSetTheorems, TLAPS

\* A field has a record or is unrecorded, in both identities.
IdentityInv ==
  /\ reference.identity \in Identities /\ candidate.identity \in Identities
  /\ status \in {"none", Assess(reference.identity, candidate.identity)}

LEMMA IdentitiesExist == ASSUME Records # {} PROVE AnyIdentity \in Identities
<1> PICK a \in Records : TRUE
  OBVIOUS
<1>1. [x \in Fields |-> a] \in Identities
  BY FieldsAssumption DEF Identities, Unrecorded, FieldsAssumption
<1> QED
  BY <1>1 DEF AnyIdentity

LEMMA IdentityInit == ASSUME Records # {} PROVE Init => IdentityInv
  BY IdentitiesExist DEF Init, IdentityInv

LEMMA IdentityNext == IdentityInv /\ [Next]_vars => IdentityInv'
  BY DEF IdentityInv, Next, ScoreBundles, CompareHotspots, vars

-----------------------------------------------------------------------------
(* What the missing records may have been. *)

LEMMA CompletionTypes ==
  ASSUME NEW f \in Identities, NEW g \in Completions(f), NEW x \in Fields
  PROVE  g[x] \in Records /\ (f[x] # Unrecorded => g[x] = f[x])
  BY DEF Completions

\* One identity with the records of the other, or of a value, where its own are missing.
LEMMA CompletedBy ==
  ASSUME NEW f \in Identities, NEW h \in [Fields -> Records]
  PROVE  [x \in Fields |-> IF f[x] = Unrecorded THEN h[x] ELSE f[x]] \in Completions(f)
  BY DEF Completions, Identities, Unrecorded

\* Without a mismatch one identity may have been both.
LEMMA CommonCompletion ==
  ASSUME NEW f \in Identities, NEW g \in Identities, Mismatches(f, g) = {}, Records # {}
  PROVE  \E h : h \in Completions(f) /\ h \in Completions(g)
<1> PICK a \in Records : TRUE
  OBVIOUS
<1> DEFINE h == [x \in Fields |-> IF f[x] # Unrecorded THEN f[x]
                                  ELSE IF g[x] # Unrecorded THEN g[x] ELSE a]
<1>1. \A x \in Fields : f[x] # Unrecorded /\ g[x] # Unrecorded => f[x] = g[x]
  BY DEF Mismatches
<1>2. h \in [Fields -> Records]
  BY DEF Identities
<1>3. h \in Completions(f) /\ h \in Completions(g)
  BY <1>1, <1>2 DEF Completions
<1> QED
  BY <1>3

\* With a mismatch they were never the same.
LEMMA MismatchIsCertain ==
  ASSUME NEW f \in Identities, NEW g \in Identities, Mismatches(f, g) # {},
         NEW p \in Completions(f), NEW q \in Completions(g)
  PROVE  p # q
<1> PICK x \in Mismatches(f, g) : TRUE
  OBVIOUS
<1>1. x \in Fields /\ f[x] # Unrecorded /\ g[x] # Unrecorded /\ f[x] # g[x]
  BY DEF Mismatches
<1>2. p[x] = f[x] /\ q[x] = g[x]
  BY <1>1, CompletionTypes
<1> QED
  BY <1>1, <1>2

\* With every record there is nothing to complete.
LEMMA CompleteIsItself ==
  ASSUME NEW f \in Identities, NEW g \in Identities, Lacking(f, g) = {},
         NEW p \in Completions(f), NEW q \in Completions(g), Mismatches(f, g) = {}
  PROVE  p = q
<1>1. \A x \in Fields : p[x] = q[x]
  BY CompletionTypes DEF Lacking, Mismatches
<1>2. p \in [Fields -> Records] /\ q \in [Fields -> Records]
  BY DEF Completions
<1> QED
  BY <1>1, <1>2

\* A missing record may have been another one than it is assumed to be.
LEMMA LackingIsOpen ==
  ASSUME NEW f \in Identities, NEW g \in Identities, Lacking(f, g) # {},
         NEW a \in Records, NEW b \in Records, a # b
  PROVE  \E p \in Completions(f), q \in Completions(g) : p # q
<1> PICK x \in Fields : f[x] = Unrecorded \/ g[x] = Unrecorded
  BY DEF Lacking
<1> DEFINE with(i, v) == [y \in Fields |-> IF i[y] = Unrecorded THEN [z \in Fields |-> v][y] ELSE i[y]]
<1>1. \A i \in Identities, v \in {a, b} : with(i, v) \in Completions(i)
  <2> SUFFICES ASSUME NEW i \in Identities, NEW v \in {a, b}
               PROVE  with(i, v) \in Completions(i)
    OBVIOUS
  <2>1. [z \in Fields |-> v] \in [Fields -> Records]
    OBVIOUS
  <2> QED
    BY <2>1, CompletedBy
<1>2. CASE f[x] = Unrecorded
  <2>1. with(f, a)[x] = a /\ with(f, b)[x] = b
    BY <1>2
  <2>2. with(f, a) # with(g, a) \/ with(f, b) # with(g, a)
    BY <2>1
  <2> QED
    BY <1>1, <2>2
<1>3. CASE g[x] = Unrecorded
  <2>1. with(g, a)[x] = a /\ with(g, b)[x] = b
    BY <1>3
  <2>2. with(f, a) # with(g, a) \/ with(f, a) # with(g, b)
    BY <2>1
  <2> QED
    BY <1>1, <2>2
<1> QED
  BY <1>2, <1>3
-----------------------------------------------------------------------------
(* What must hold. *)

\* The status of a comparison is what it would be whatever the missing records were
\* (assess_recorded_identity), for any fields; two records must be possible, or a missing
\* one would be known.
THEOREM CertainStatus ==
  ASSUME NEW a \in Records, NEW b \in Records, a # b
  PROVE  Spec => []StatusIsCertain
<1>1. IdentityInv => StatusIsCertain
  <2> SUFFICES ASSUME IdentityInv
               PROVE  StatusIsCertain
    OBVIOUS
  <2> DEFINE f == reference.identity
             g == candidate.identity
             pairs == Completions(f) \X Completions(g)
  <2>0. f \in Identities /\ g \in Identities /\ status \in {"none", Assess(f, g)}
    BY DEF IdentityInv
  <2> HIDE DEF f, g
  <2>1. CASE Mismatches(f, g) # {}
    <3>1. \A p \in pairs : p[1] # p[2]
      BY <2>0, <2>1, MismatchIsCertain
    <3>2. \E p \in pairs : TRUE
      <4>0. a \in Records
        OBVIOUS
      <4> DEFINE h == [x \in Fields |-> a]
      <4>1. h \in [Fields -> Records]
        BY <4>0
      <4> HIDE DEF h
      <4>2. \E p \in Completions(f) : TRUE
        BY <2>0, <4>1, CompletedBy
      <4>3. \E q \in Completions(g) : TRUE
        BY <2>0, <4>1, CompletedBy
      <4>4. PICK p \in Completions(f), q \in Completions(g) : TRUE
        BY <4>2, <4>3
      <4>5. <<p, q>> \in pairs
        OBVIOUS
      <4> QED
        BY <4>5
    <3>3. ~(\A p \in pairs : p[1] = p[2])
      BY <3>1, <3>2
    <3>4. Assess(f, g) = "incomparable"
      BY <2>1 DEF Assess
    <3> QED
      BY <2>0, <3>1, <3>3, <3>4 DEF StatusIsCertain, f, g
  <2>2. CASE Mismatches(f, g) = {}
    <3>1. ~(\A p \in pairs : p[1] # p[2])
      <4> PICK h : h \in Completions(f) /\ h \in Completions(g)
        BY <2>0, <2>2, CommonCompletion
      <4>1. <<h, h>> \in pairs
        OBVIOUS
      <4> QED
        BY <4>1
    <3>2. CASE Lacking(f, g) # {}
      <4>1. ~(\A p \in pairs : p[1] = p[2])
        <5> PICK p \in Completions(f), q \in Completions(g) : p # q
          BY <2>0, <3>2, LackingIsOpen
        <5>1. <<p, q>> \in pairs
          OBVIOUS
        <5> QED
          BY <5>1
      <4>2. Assess(f, g) = "insufficient"
        BY <2>2, <3>2 DEF Assess
      <4> QED
        BY <2>0, <3>1, <4>1, <4>2 DEF StatusIsCertain, f, g
    <3>3. CASE Lacking(f, g) = {}
      <4>1. \A p \in pairs : p[1] = p[2]
        BY <2>0, <2>2, <3>3, CompleteIsItself
      <4>2. Assess(f, g) = "comparable"
        BY <2>2, <3>3 DEF Assess
      <4> QED
        BY <2>0, <3>1, <4>1, <4>2 DEF StatusIsCertain, f, g
    <3> QED
      BY <3>2, <3>3
  <2> QED
    BY <2>1, <2>2
<1>2. Init => IdentityInv
  BY IdentityInit
<1> QED
  BY <1>1, <1>2, IdentityNext, PTL DEF Spec
-----------------------------------------------------------------------------
(* The alias. *)

MetricsInv ==
  /\ reference.metrics \in Seq(Metrics) /\ candidate.metrics \in Seq(Metrics)
  /\ score \in {NoScore, Refused, Score(reference.metrics, candidate.metrics)}

\* There is a rate, if there are values.
LEMMA AnyMetricExists == ASSUME Values # {} PROVE AnyMetric \in Metrics
<1> PICK v \in Values : TRUE
  OBVIOUS
<1>1. [id |-> "rate", statistics |-> <<v>>] \in Metrics
  BY DEF Metrics
<1>2. \E m \in Metrics : m.id = "rate"
  BY <1>1
<1> QED
  BY <1>2 DEF AnyMetric

LEMMA MetricsInit == ASSUME Values # {} PROVE Init => MetricsInv
<1> SUFFICES ASSUME Init
             PROVE  reference.metrics \in Seq(Metrics) /\ candidate.metrics \in Seq(Metrics)
  BY DEF Init, MetricsInv
<1>1. \A n \in Nat : [1..n -> Metrics] \subseteq Seq(Metrics)
  OBVIOUS
<1>2. <<AnyMetric>> \in Seq(Metrics)
  BY AnyMetricExists
<1>3. CASE \E n \in 0..MaxMetrics : \E k \in 0..(MaxMetrics - n) :
             reference.metrics \in [1..n -> Metrics] /\ candidate.metrics \in [1..k -> Metrics]
  BY <1>1, <1>3, ValuesAssumption DEF ValuesAssumption
<1>4. CASE reference.metrics = <<AnyMetric>> /\ candidate.metrics = <<AnyMetric>>
  BY <1>2, <1>4
<1> QED
  BY <1>3, <1>4 DEF Init

LEMMA MetricsNext == MetricsInv /\ [Next]_vars => MetricsInv'
<1> SUFFICES ASSUME MetricsInv, [Next]_vars
             PROVE  MetricsInv'
  OBVIOUS
<1>1. CASE ScoreBundles
  <2>1. /\ UNCHANGED <<reference, candidate>>
        /\ score' \in {Refused, Score(reference.metrics, candidate.metrics)}
    BY <1>1 DEF ScoreBundles
  <2> QED
    BY <2>1 DEF MetricsInv
<1>2. CASE CompareHotspots
  BY <1>2 DEF CompareHotspots, MetricsInv
<1>3. CASE UNCHANGED vars
  BY <1>3 DEF vars, MetricsInv
<1> QED
  BY <1>1, <1>2, <1>3 DEF Next

LEMMA MetricFields ==
  ASSUME NEW m \in Metrics
  PROVE  /\ m = [id |-> m.id, statistics |-> m.statistics]
         /\ m.id \in {"rate", "observed", "legacy"}
  BY DEF Metrics

LEMMA RenamedMetric ==
  ASSUME NEW m \in Metrics
  PROVE  Renamed(m) = [id |-> IF m.id = "legacy" THEN "observed" ELSE m.id,
                       statistics |-> m.statistics]
  BY MetricFields DEF Renamed, Metrics

\* A document as canonical_metrics leaves it: one metric of an id, under its own name.
Plain(d) ==
  /\ d \subseteq Metrics
  /\ \A m \in d : m.id # "legacy"
  /\ \A m, n \in d : m.id = n.id => m = n

\* What the code works on is of a sequence of metrics.
LEMMA KeptMetrics ==
  ASSUME NEW d \in Seq(Metrics)
  PROVE  /\ Unaliased(d) \subseteq Metrics
         /\ \A m \in Unaliased(d) : m.id # "legacy"
<1> SUFFICES ASSUME NEW i \in Kept(d)
             PROVE  Renamed(d[i]) \in Metrics /\ Renamed(d[i]).id # "legacy"
  BY DEF Unaliased
<1>1. d[i] \in Metrics
  BY DEF Kept
<1>2. Renamed(d[i]) = [id |-> IF d[i].id = "legacy" THEN "observed" ELSE d[i].id,
                       statistics |-> d[i].statistics]
  BY <1>1, RenamedMetric
<1> QED
  BY <1>1, <1>2 DEF Metrics

LEMMA CanonicalIsUnaliased ==
  ASSUME NEW d \in Seq(Metrics), Canonical(d) # {}
  PROVE  Canonical(d) = Unaliased(d) /\ Plain(Unaliased(d)) /\ Unaliased(d) # {}
<1>1. ~Repeats(d) /\ Canonical(d) = Unaliased(d)
  BY DEF Canonical
<1>2. \A m, n \in Unaliased(d) : m.id = n.id => m = n
  BY <1>1 DEF Repeats, Unaliased
<1> QED
  BY <1>1, <1>2, KeptMetrics DEF Plain

\* Distinct metrics of a plain document, some of them under the alias: what is kept of
\* them are the metrics.
LEMMA RenamedBack ==
  ASSUME NEW d, Plain(d), NEW p \in Seq(Metrics),
         \A i \in DOMAIN p : Renamed(p[i]) \in d,
         \A m \in d : \E i \in DOMAIN p : Renamed(p[i]) = m,
         \A i, j \in DOMAIN p : Renamed(p[i]) = Renamed(p[j]) => i = j
  PROVE  Canonical(p) = d
<1>1. \A i, j \in DOMAIN p : Renamed(p[i]).id = Renamed(p[j]).id => i = j
  BY DEF Plain
<1>2. \A i \in DOMAIN p : p[i] \in Metrics /\ (p[i].id \in {"observed", "legacy"} => Renamed(p[i]).id = "observed")
  <2> SUFFICES ASSUME NEW i \in DOMAIN p, p[i].id \in {"observed", "legacy"}
               PROVE  Renamed(p[i]).id = "observed"
    OBVIOUS
  <2> QED
    BY RenamedMetric
<1>3. At(p, "observed") = {} \/ At(p, "legacy") = {}
  <2> SUFFICES ASSUME NEW i \in DOMAIN p, NEW j \in DOMAIN p,
                      p[i].id = "observed", p[j].id = "legacy"
               PROVE  FALSE
    BY DEF At
  <2>1. i = j
    BY <1>1, <1>2
  <2> QED
    BY <2>1
<1>4. Kept(p) = DOMAIN p
  BY <1>3 DEF Kept, At
<1>5. Unaliased(p) = d
  BY <1>4 DEF Unaliased
<1>6. ~AliasDiffers(p) /\ ~Repeats(p)
  BY <1>1, <1>3, <1>4 DEF AliasDiffers, Repeats
<1> QED
  BY <1>5, <1>6 DEF Canonical

\* A metric of another id keeps its name.
LEMMA RenamedPlain ==
  ASSUME NEW m \in Metrics, m.id # "legacy"
  PROVE  /\ Renamed(m) = m /\ Aliased(m) \in Metrics /\ Renamed(Aliased(m)) = m
         /\ (m.id = "observed" => Aliased(m).id = "legacy" /\ Aliased(m).statistics = m.statistics)
<1>1. m = [id |-> m.id, statistics |-> m.statistics] /\ m.id \in {"rate", "observed"}
  BY MetricFields
<1>2. CASE m.id = "rate"
  BY <1>1, <1>2 DEF Renamed, Aliased
<1>3. CASE m.id = "observed"
  <2>1. Aliased(m) = [id |-> "legacy", statistics |-> m.statistics]
    BY <1>1, <1>3 DEF Aliased
  <2>2. Aliased(m) \in Metrics
    BY <1>3, <2>1 DEF Metrics
  <2> QED
    BY <1>1, <1>3, <2>1, <2>2, RenamedMetric DEF Renamed
<1> QED
  BY <1>1, <1>2, <1>3

\* A document has two metrics at most, as there are two ids.
LEMMA PlainIsFinite ==
  ASSUME NEW d, Plain(d)
  PROVE  IsFiniteSet(d)
<1> DEFINE S == {m \in d : m.id = "rate"}
           T == {m \in d : m.id = "observed"}
<1>1. d = S \cup T
  BY MetricFields DEF Plain
<1>2. ASSUME NEW U \in SUBSET d, \A m, n \in U : m = n
      PROVE  IsFiniteSet(U)
  <2>1. CASE U = {}
    BY <2>1, FS_EmptySet
  <2>2. CASE U # {}
    <3> PICK m \in U : TRUE
      BY <2>2
    <3>1. U = {m}
      BY <1>2
    <3> QED
      BY <3>1, FS_Singleton
  <2> QED
    BY <2>1, <2>2
<1>3. IsFiniteSet(S) /\ IsFiniteSet(T)
  <2>1. \A m, n \in S : m = n
    BY DEF Plain
  <2>2. \A m, n \in T : m = n
    BY DEF Plain
  <2> QED
    BY <1>2, <2>1, <2>2
<1> HIDE DEF S, T
<1> QED
  BY <1>1, <1>3, FS_Union

\* SetToSeq lists a finite set, each element once.
LEMMA Listed ==
  ASSUME NEW S, IsFiniteSet(S)
  PROVE  LET q == SetToSeq(S)
         IN /\ q \in Seq(S)
            /\ \A x \in S : \E i \in DOMAIN q : q[i] = x
            /\ \A i, j \in DOMAIN q : q[i] = q[j] => i = j
<1> DEFINE k == Cardinality(S)
           q == SetToSeq(S)
<1>1. k \in Nat /\ ExistsBijection(1..k, S)
  BY FS_CardinalityType
<1>2. IsFiniteSet(1..k) /\ Cardinality(1..k) = k
  <2> HIDE DEF k
  <2>1. Cardinality(1..k) = (IF 1 > k THEN 0 ELSE k - 1 + 1) /\ IsFiniteSet(1..k)
    BY <1>1, FS_Interval
  <2> QED
    BY <1>1, <2>1
<1>3. PICK f : f \in [1..k -> S] /\ IsInjective(f)
  BY <1>1 DEF ExistsBijection, Bijection, Injection
<1>4. q \in [1..k -> S] /\ IsInjective(q)
  BY <1>3 DEF SetToSeq
<1> HIDE DEF q
<1>5. q \in Injection(1..k, S)
  BY <1>4 DEF Injection
<1>6. q \in Surjection(1..k, S)
  BY <1>2, <1>5, FS_Injection
<1> HIDE DEF k
<1>7. DOMAIN q = 1..k /\ q \in Seq(S)
  BY <1>1, <1>4
<1>8. \A x \in S : \E i \in DOMAIN q : q[i] = x
  BY <1>6, <1>7 DEF Surjection
<1>9. \A i, j \in DOMAIN q : q[i] = q[j] => i = j
  BY <1>4, <1>7 DEF IsInjective
<1> QED
  BY <1>7, <1>8, <1>9 DEF q

LEMMA ListedPlain ==
  ASSUME NEW d, Plain(d)
  PROVE  LET s == SetToSeq(d)
         IN /\ s \in Seq(Metrics)
            /\ \A i \in DOMAIN s : s[i] \in d /\ s[i] \in Metrics /\ s[i].id # "legacy"
            /\ \A m \in d : \E i \in DOMAIN s : s[i] = m
            /\ \A i, j \in DOMAIN s : s[i] = s[j] => i = j
<1> DEFINE s == SetToSeq(d)
<1>1. /\ s \in Seq(d) /\ \A m \in d : \E i \in DOMAIN s : s[i] = m
      /\ \A i, j \in DOMAIN s : s[i] = s[j] => i = j
  BY PlainIsFinite, Listed
<1> HIDE DEF s
<1>2. s \in Seq(Metrics) /\ \A i \in DOMAIN s : s[i] \in d
  BY <1>1 DEF Plain
<1>3. \A i \in DOMAIN s : s[i] \in Metrics /\ s[i].id # "legacy"
  BY <1>2 DEF Plain
<1> QED
  BY <1>1, <1>2, <1>3 DEF s

\* A plain document is canonical, in any order and under any name.
LEMMA PlainIsCanonical ==
  ASSUME NEW d, Plain(d)
  PROVE  Canonical(SetToSeq(d)) = d
<1> DEFINE s == SetToSeq(d)
<1>1. /\ s \in Seq(Metrics)
      /\ \A i \in DOMAIN s : s[i] \in d /\ s[i] \in Metrics /\ s[i].id # "legacy"
      /\ \A m \in d : \E i \in DOMAIN s : s[i] = m
      /\ \A i, j \in DOMAIN s : s[i] = s[j] => i = j
  BY ListedPlain
<1> HIDE DEF s
<1>2. \A i \in DOMAIN s : Renamed(s[i]) = s[i]
  BY <1>1, RenamedPlain
<1>3. Canonical(s) = d
  BY <1>1, <1>2, RenamedBack
<1> QED
  BY <1>3 DEF s

LEMMA AliasIsCanonical ==
  ASSUME NEW d, Plain(d)
  PROVE  LET s == SetToSeq(d) IN Canonical([i \in DOMAIN s |-> Aliased(s[i])]) = d
<1> DEFINE s == SetToSeq(d)
           p == [i \in DOMAIN s |-> Aliased(s[i])]
<1>1. /\ s \in Seq(Metrics)
      /\ \A i \in DOMAIN s : s[i] \in d /\ s[i] \in Metrics /\ s[i].id # "legacy"
      /\ \A m \in d : \E i \in DOMAIN s : s[i] = m
      /\ \A i, j \in DOMAIN s : s[i] = s[j] => i = j
  BY ListedPlain
<1> HIDE DEF s
<1>2. \A i \in DOMAIN s : Aliased(s[i]) \in Metrics /\ Renamed(Aliased(s[i])) = s[i]
  BY <1>1, RenamedPlain
<1>3. p \in Seq(Metrics) /\ DOMAIN p = DOMAIN s /\ \A i \in DOMAIN p : Renamed(p[i]) = s[i]
  BY <1>1, <1>2
<1> HIDE DEF p
<1>4. Canonical(p) = d
  BY <1>1, <1>3, RenamedBack
<1> QED
  BY <1>4 DEF p, s

LEMMA FirstOfOne ==
  ASSUME NEW p, NEW id, NEW i \in Int, At(p, id) = {i}
  PROVE  First(p, id) = p[i]
<1>1. (CHOOSE k \in {i} : \A j \in {i} : k <= j) = i
  OBVIOUS
<1> QED
  BY <1>1 DEF First

\* A sequence of an alias, in one place, and the metrics of a document.
Beside(d, m, p, a) ==
  /\ p[a] = Aliased(m)
  /\ \A i \in DOMAIN p \ {a} : p[i] \in d
  /\ \A n \in d : \E i \in DOMAIN p \ {a} : p[i] = n
  /\ \A i, j \in DOMAIN p \ {a} : p[i] = p[j] => i = j

\* With the alias before or after the metrics: it is the only one, and agrees.
LEMMA BesideIsCanonical ==
  ASSUME NEW d, Plain(d), NEW m \in d, m.id = "observed", NEW p \in Seq(Metrics),
         NEW a \in DOMAIN p, Beside(d, m, p, a)
  PROVE  Canonical(p) = d
<1> USE DEF Beside
<1>0. m \in Metrics /\ p[a].id = "legacy" /\ p[a].statistics = m.statistics
  BY RenamedPlain DEF Plain
<1>1. \A i \in DOMAIN p \ {a} : p[i] \in Metrics /\ p[i].id # "legacy" /\ Renamed(p[i]) = p[i]
  BY RenamedPlain DEF Plain
<1>2. PICK o \in DOMAIN p \ {a} : p[o] = m
  OBVIOUS
<1>3. At(p, "legacy") = {a}
  BY <1>0, <1>1 DEF At
<1>4. At(p, "observed") = {o}
  <2>1. \A i \in DOMAIN p : p[i].id = "observed" => i = o
    BY <1>0, <1>2 DEF Plain
  <2> QED
    BY <1>2, <2>1 DEF At
<1>5. First(p, "observed") = m /\ First(p, "legacy") = p[a]
  <2>1. a \in Int /\ o \in Int
    OBVIOUS
  <2> QED
    BY <1>2, <1>3, <1>4, <2>1, FirstOfOne
<1>6. Kept(p) = DOMAIN p \ {a}
  BY <1>3, <1>4 DEF Kept, At
<1>7. ~AliasDiffers(p)
  BY <1>0, <1>5 DEF AliasDiffers
<1>8. \A i, j \in Kept(p) : i # j => Renamed(p[i]).id # Renamed(p[j]).id
  BY <1>1, <1>6 DEF Plain
<1>9. Unaliased(p) = d
  BY <1>1, <1>6 DEF Unaliased
<1> QED
  BY <1>7, <1>8, <1>9 DEF Canonical, Repeats

LEMMA PresentationIsCanonical ==
  ASSUME NEW d, Plain(d), NEW p \in Presentations(d)
  PROVE  Canonical(p) = d
<1> DEFINE s == SetToSeq(d)
<1>0. \/ p = s \/ p = [i \in DOMAIN s |-> Aliased(s[i])]
      \/ \E m \in d : m.id = "observed" /\ (p = <<Aliased(m)>> \o s \/ p = Append(s, Aliased(m)))
  BY DEF Presentations
<1>1. /\ s \in Seq(Metrics)
      /\ \A i \in DOMAIN s : s[i] \in d
      /\ \A n \in d : \E i \in DOMAIN s : s[i] = n
      /\ \A i, j \in DOMAIN s : s[i] = s[j] => i = j
  BY ListedPlain
<1>2. CASE p = s \/ p = [i \in DOMAIN s |-> Aliased(s[i])]
  BY <1>2, PlainIsCanonical, AliasIsCanonical
<1> HIDE DEF s
<1>3. ASSUME NEW m \in d, m.id = "observed", p = <<Aliased(m)>> \o s
      PROVE  Canonical(p) = d
  <2>1. Aliased(m) \in Metrics
    BY <1>3, RenamedPlain DEF Plain
  <2>2. /\ p \in Seq(Metrics) /\ 1 \in DOMAIN p /\ p[1] = Aliased(m)
        /\ DOMAIN p \ {1} = {i + 1 : i \in DOMAIN s}
        /\ \A i \in DOMAIN s : p[i + 1] = s[i]
    <3>1. Len(s) \in Nat /\ Len(p) = Len(s) + 1 /\ DOMAIN s = 1..Len(s) /\ DOMAIN p = 1..Len(p)
      BY <1>1, <1>3, <2>1
    <3> DEFINE k == Len(s)
    <3>2. 1..(k + 1) \ {1} = {i + 1 : i \in 1..k}
      <4> HIDE DEF k
      <4>1. \A i \in 1..(k + 1) \ {1} : i - 1 \in 1..k /\ i = (i - 1) + 1
        BY <3>1 DEF k
      <4>2. \A i \in 1..k : i + 1 \in 1..(k + 1) \ {1}
        BY <3>1 DEF k
      <4> QED
        BY <4>1, <4>2
    <3>3. DOMAIN p \ {1} = {i + 1 : i \in DOMAIN s}
      BY <3>1, <3>2
    <3> QED
      BY <1>1, <1>3, <2>1, <3>1, <3>3
  <2>3. \A i \in DOMAIN p \ {1} : \E k \in DOMAIN s : i = k + 1 /\ p[i] = s[k]
    BY <2>2
  <2>4. \A i \in DOMAIN p \ {1} : p[i] \in d
    BY <1>1, <2>3
  <2>5. \A n \in d : \E i \in DOMAIN p \ {1} : p[i] = n
    BY <1>1, <2>2
  <2>6. \A i, j \in DOMAIN p \ {1} : p[i] = p[j] => i = j
    BY <1>1, <2>3
  <2>7. Beside(d, m, p, 1)
    BY <2>2, <2>4, <2>5, <2>6 DEF Beside
  <2> QED
    BY <1>3, <2>2, <2>7, BesideIsCanonical
<1>4. ASSUME NEW m \in d, m.id = "observed", p = Append(s, Aliased(m))
      PROVE  Canonical(p) = d
  <2> DEFINE a == Len(s) + 1
  <2>1. Aliased(m) \in Metrics
    BY <1>4, RenamedPlain DEF Plain
  <2>2. /\ p \in Seq(Metrics) /\ a \in DOMAIN p /\ p[a] = Aliased(m)
        /\ DOMAIN p \ {a} = DOMAIN s
        /\ \A i \in DOMAIN s : p[i] = s[i]
    <3>1. /\ Len(s) \in Nat /\ Len(p) = Len(s) + 1 /\ DOMAIN s = 1..Len(s) /\ DOMAIN p = 1..Len(p)
          /\ p \in Seq(Metrics) /\ p[a] = Aliased(m) /\ \A i \in DOMAIN s : p[i] = s[i]
      BY <1>1, <1>4, <2>1
    <3> DEFINE k == Len(s)
    <3>2. k + 1 \in 1..(k + 1) /\ 1..(k + 1) \ {k + 1} = 1..k
      <4> HIDE DEF k
      <4> QED
        BY <3>1 DEF k
    <3> QED
      BY <3>1, <3>2
  <2> HIDE DEF a
  <2>3. Beside(d, m, p, a)
    BY <1>1, <2>2 DEF Beside
  <2> QED
    BY <1>4, <2>2, <2>3, BesideIsCanonical
<1> QED
  BY <1>0, <1>2, <1>3, <1>4

\* "The alias is never double-weighted" (AliasCarriesNoWeight): the score of two documents
\* is the same for every presentation of their metrics, with the alias in place of the
\* metric, beside it or absent (score_metrics), for any statistics and number of metrics.
THEOREM WeightlessAlias == ASSUME Values # {} PROVE Spec => []AliasCarriesNoWeight
<1>1. MetricsInv => AliasCarriesNoWeight
  <2> SUFFICES ASSUME MetricsInv, Scored,
                      NEW p \in Presentations(Unaliased(reference.metrics)),
                      NEW q \in Presentations(Unaliased(candidate.metrics))
               PROVE  Score(p, q) = score
    BY DEF AliasCarriesNoWeight
  <2> DEFINE r == reference.metrics
             c == candidate.metrics
  <2>1. r \in Seq(Metrics) /\ c \in Seq(Metrics) /\ score = Score(r, c) /\ score # Refused
    BY DEF MetricsInv, Scored
  <2> HIDE DEF r, c
  <2>2. Canonical(r) # {} /\ Canonical(c) # {}
    BY <2>1 DEF Score
  <2>3. /\ Canonical(r) = Unaliased(r) /\ Plain(Unaliased(r))
        /\ Canonical(c) = Unaliased(c) /\ Plain(Unaliased(c))
    BY <2>1, <2>2, CanonicalIsUnaliased
  <2>4. p \in Presentations(Unaliased(r)) /\ q \in Presentations(Unaliased(c))
    BY DEF r, c
  <2>5. Canonical(p) = Canonical(r) /\ Canonical(q) = Canonical(c)
    BY <2>3, <2>4, PresentationIsCanonical
  <2> QED
    BY <2>1, <2>5 DEF Score
<1> QED
  BY <1>1, MetricsInit, MetricsNext, PTL DEF Spec
-----------------------------------------------------------------------------
(* The arithmetic of a score. *)

\* What a rounded quotient is.
LEMMA RoundedIs ==
  ASSUME NEW n \in Nat, NEW d \in Nat, d > 0
  PROVE  /\ Rounded(n, d) \in Nat
         /\ \A q \in Nat : q <= Rounded(n, d) <=> (2 * d) * q <= 2 * n + d
<1> DEFINE x == 2 * n + d
           y == 2 * d
           k == x \div y
<1>1. x \in Nat /\ y \in Nat /\ y > 0
  OBVIOUS
<1> HIDE DEF x, y
<1>2. k \in Nat /\ y * k <= x /\ x < y * (k + 1)
  BY <1>1
<1> HIDE DEF k
<1>3. \A q \in Nat : q <= k <=> y * q <= x
  <2> SUFFICES ASSUME NEW q \in Nat
               PROVE  q <= k <=> y * q <= x
    OBVIOUS
  <2>1. CASE q <= k
    <3>1. y * q <= y * k
      BY <1>1, <1>2, <2>1
    <3> QED
      BY <1>1, <1>2, <2>1, <3>1
  <2>2. CASE ~(q <= k)
    <3>1. y * (k + 1) <= y * q
      BY <1>1, <1>2, <2>2
    <3> QED
      BY <1>1, <1>2, <2>2, <3>1
  <2> QED
    BY <2>1, <2>2
<1> QED
  BY <1>2, <1>3 DEF Rounded, x, y, k

\* A ratio below one is at most a hundred.
LEMMA RatioIsPercent ==
  ASSUME NEW n \in Nat, NEW d \in Nat, n < d
  PROVE  Rounded(100 * n, d) \in 0..100
<1> DEFINE q == Rounded(100 * n, d)
<1>1. q \in Nat /\ (2 * d) * q <= 2 * (100 * n) + d
  BY RoundedIs
<1>2. q <= 100
  <2> SUFFICES ASSUME q >= 101
               PROVE  FALSE
    BY <1>1
  <2>1. (2 * d) * 101 <= (2 * d) * q
    BY <1>1
  <2> HIDE DEF q
  <2> QED
    BY <1>1, <2>1
<1> QED
  BY <1>1, <1>2

\* A ratio below one is no less for a larger numerator or a smaller denominator.
LEMMA RatioIsMonotonic ==
  ASSUME NEW n \in Nat, NEW d \in Nat, n < d, NEW m \in Nat, NEW e \in Nat, m < e,
         n <= m, e <= d
  PROVE  Rounded(100 * n, d) <= Rounded(100 * m, e)
<1> DEFINE q == Rounded(100 * n, d)
<1>1. q \in Nat /\ (2 * d) * q <= 2 * (100 * n) + d
  BY RoundedIs
<1>3. (2 * e) * q <= 2 * (100 * m) + e
  <2>1. CASE q = 0
    BY <2>1
  <2>2. CASE q # 0
    <3> DEFINE p == 2 * q - 1
    <3>1. p \in Nat
      BY <1>1, <2>2
    <3>2. d * p <= 200 * n
      <4>1. d * p = (2 * d) * q - d
        BY <1>1
      <4> QED
        BY <1>1, <4>1
    <3>3. e * p <= d * p
      <4> HIDE DEF p
      <4> QED
        BY <3>1
    <3>4. e * p = (2 * e) * q - e
      BY <1>1
    <3> HIDE DEF p
    <3> QED
      BY <1>1, <3>1, <3>2, <3>3, <3>4
  <2> QED
    BY <2>1, <2>2
<1>4. e > 0 /\ 100 * m \in Nat
  OBVIOUS
<1>5. q <= Rounded(100 * m, e)
  <2> HIDE DEF q
  <2> QED
    BY <1>1, <1>3, <1>4, RoundedIs
<1> QED
  BY <1>5

\* retention_score never falls when the candidate gets better.
LEMMA RetentionIsMonotonic ==
  ASSUME NEW of \in Nat, NEW by \in Nat, NEW better \in Nat, NEW lower \in BOOLEAN,
         IF lower THEN better <= by ELSE better >= by
  PROVE  /\ Retention(of, by, lower) \in 0..100
         /\ Retention(of, by, lower) <= Retention(of, better, lower)
<1> DEFINE N(x) == IF lower THEN of ELSE x
           D(x) == IF lower THEN x ELSE of
           Full(x) == D(x) = 0 \/ N(x) >= D(x)
<1>1. \A x \in Nat : Retention(of, x, lower) = IF Full(x) THEN 100 ELSE Rounded(100 * N(x), D(x))
  BY DEF Retention
<1>2. \A x \in Nat : N(x) \in Nat /\ D(x) \in Nat
  OBVIOUS
<1>3. N(by) <= N(better) /\ D(better) <= D(by)
  OBVIOUS
<1> HIDE DEF N, D
<1>4. \A x \in Nat : ~Full(x) => N(x) < D(x)
  BY <1>2
<1>5. Full(by) => Full(better)
  BY <1>2, <1>3
<1>6. ASSUME ~Full(by)
      PROVE  Rounded(100 * N(by), D(by)) \in 0..100
  <2> DEFINE n == N(by)
             d == D(by)
  <2>1. n \in Nat /\ d \in Nat /\ n < d
    BY <1>2, <1>4, <1>6
  <2> HIDE DEF n, d
  <2>2. Rounded(100 * n, d) \in 0..100
    BY <2>1, RatioIsPercent
  <2> QED
    BY <2>2 DEF n, d
<1>7. ASSUME ~Full(by), ~Full(better)
      PROVE  Rounded(100 * N(by), D(by)) <= Rounded(100 * N(better), D(better))
  BY <1>2, <1>3, <1>4, <1>7, RatioIsMonotonic
<1> HIDE DEF Full
<1> QED
  BY <1>1, <1>5, <1>6, <1>7

Percents == 0..100

LEMMA PercentsAreNumbers ==
  /\ Percents \subseteq Nat
  /\ \A x \in Nat : x \in Percents <=> x <= 100
  BY DEF Percents

\* The average of one score is that score, and two are averaged monotonically.
LEMMA AverageIs ==
  ASSUME NEW s \in Seq(Percents), Len(s) \in {1, 2}
  PROVE  Average(s) = IF Len(s) = 1 THEN s[1] ELSE (s[1] + s[2] + 1) \div 2
<1> DEFINE Eq(sum) == sum = [i \in 0..Len(s) |-> IF i = 0 THEN 0 ELSE sum[i - 1] + s[i]]
           w == [i \in 0..Len(s) |-> IF i = 0 THEN 0 ELSE IF i = 1 THEN s[1] ELSE s[1] + s[2]]
           v == CHOOSE sum : Eq(sum)
<1>0. s[1] \in Nat /\ (Len(s) = 2 => s[2] \in Nat)
  <2>1. \A i \in 1..Len(s) : s[i] \in Percents
    OBVIOUS
  <2>2. 1 \in 1..Len(s) /\ (Len(s) = 2 => 2 \in 1..Len(s))
    OBVIOUS
  <2> QED
    BY <2>1, <2>2, PercentsAreNumbers
<1>1. Eq(w)
  <2>1. \A i \in 0..Len(s) : w[i] = IF i = 0 THEN 0 ELSE w[i - 1] + s[i]
    <3>1. \A i \in 0..Len(s) : i = 0 \/ i = 1 \/ (i = 2 /\ Len(s) = 2)
      <4>1. Len(s) = 1 \/ Len(s) = 2
        OBVIOUS
      <4>2. \A n \in {1, 2} : \A i \in 0..n : i = 0 \/ i = 1 \/ (i = 2 /\ n = 2)
        OBVIOUS
      <4> QED
        BY <4>1, <4>2, Zenon
    <3> QED
      BY <1>0, <3>1
  <2> HIDE DEF w
  <2>2. w = [i \in 0..Len(s) |-> w[i]]
    BY DEF w
  <2> QED
    BY <2>1, <2>2
<1>2. Eq(v)
  <2> HIDE DEF Eq
  <2> QED
    BY <1>1, Zenon
<1>3. Average(s) = Rounded(v[Len(s)], Len(s))
  BY DEF Average
<1> HIDE DEF v
<1>4. /\ v[0] = 0 /\ v[1] = v[0] + s[1]
      /\ Len(s) = 2 => v[2] = v[1] + s[2]
  <2>1. \A i \in 0..Len(s) : v[i] = IF i = 0 THEN 0 ELSE v[i - 1] + s[i]
    BY <1>2, Zenon
  <2> QED
    BY <2>1
<1>5. CASE Len(s) = 1
  BY <1>0, <1>3, <1>4, <1>5 DEF Rounded
<1>6. CASE Len(s) = 2
  <2> DEFINE x == s[1] + s[2]
  <2>1. x \in Nat
    BY <1>0, <1>6
  <2>2. v[2] = x
    BY <1>0, <1>4, <1>6
  <2>3. Average(s) = Rounded(x, 2)
    BY <1>3, <1>6, <2>2
  <2>4. Rounded(x, 2) = (x + 1) \div 2
    <3> HIDE DEF x
    <3> QED
      BY <2>1 DEF Rounded
  <2> QED
    BY <1>6, <2>3, <2>4
<1> QED
  BY <1>5, <1>6

LEMMA HalvesAreMonotonic ==
  ASSUME NEW a \in 0..100, NEW b \in 0..100, NEW c \in 0..100, NEW d \in 0..100,
         a <= c, b <= d
  PROVE  (a + b + 1) \div 2 \in 0..100 /\ (a + b + 1) \div 2 <= (c + d + 1) \div 2
  OBVIOUS

LEMMA AverageIsMonotonic ==
  ASSUME NEW s \in Seq(Percents), NEW t \in Seq(Percents), Len(s) \in {1, 2}, Len(t) = Len(s),
         \A i \in 1..Len(s) : s[i] <= t[i]
  PROVE  Average(s) \in Percents /\ Average(s) <= Average(t)
<1>1. /\ Average(s) = IF Len(s) = 1 THEN s[1] ELSE (s[1] + s[2] + 1) \div 2
      /\ Average(t) = IF Len(s) = 1 THEN t[1] ELSE (t[1] + t[2] + 1) \div 2
  BY AverageIs
<1>2. /\ s[1] \in Percents /\ t[1] \in Percents /\ s[1] <= t[1]
      /\ Len(s) = 2 => s[2] \in Percents /\ t[2] \in Percents /\ s[2] <= t[2]
  <2>1. \A i \in 1..Len(s) : s[i] \in Percents /\ t[i] \in Percents
    OBVIOUS
  <2>2. 1 \in 1..Len(s) /\ (Len(s) = 2 => 2 \in 1..Len(s))
    OBVIOUS
  <2> QED
    BY <2>1, <2>2
<1>3. CASE Len(s) = 1
  BY <1>1, <1>2, <1>3, PercentsAreNumbers
<1>4. CASE Len(s) = 2
  <2>1. /\ s[1] \in 0..100 /\ s[2] \in 0..100 /\ t[1] \in 0..100 /\ t[2] \in 0..100
        /\ s[1] <= t[1] /\ s[2] <= t[2]
    BY <1>2, <1>4 DEF Percents
  <2>2. Average(s) = (s[1] + s[2] + 1) \div 2 /\ Average(t) = (t[1] + t[2] + 1) \div 2
    BY <1>1, <1>4
  <2> DEFINE a == s[1]
             b == s[2]
             c == t[1]
             e == t[2]
  <2> HIDE DEF a, b, c, e
  <2>3. (a + b + 1) \div 2 \in 0..100 /\ (a + b + 1) \div 2 <= (c + e + 1) \div 2
    <3>1. /\ a \in 0..100 /\ b \in 0..100 /\ c \in 0..100 /\ e \in 0..100
          /\ a <= c /\ b <= e
      BY <2>1 DEF a, b, c, e
    <3> QED
      BY <3>1, HalvesAreMonotonic
  <2> QED
    BY <2>2, <2>3 DEF Percents, a, b, c, e
<1> QED
  BY <1>3, <1>4
-----------------------------------------------------------------------------
(* A better candidate. *)

LEMMA MetricScoreIsMonotonic ==
  ASSUME NEW m \in Metrics, NEW n \in Metrics, NEW better \in Metrics,
         n.id = m.id, better.id = m.id, AtLeastAsGood(better, n)
  PROVE  MetricScore(m, n) \in Percents /\ MetricScore(m, n) <= MetricScore(m, better)
<1> DEFINE k == Len(m.statistics)
           s == [i \in 1..k |-> Retention(m.statistics[i], n.statistics[i], Lower(m.id))]
           t == [i \in 1..k |-> Retention(m.statistics[i], better.statistics[i], Lower(m.id))]
<1>1. /\ k \in {1, 2} /\ Len(n.statistics) = k /\ Len(better.statistics) = k
      /\ \A x \in {m, n, better} : \A i \in 1..k : x.statistics[i] \in Nat
  <2>1. \A x \in {m, n, better} :
          \/ x.id = "rate" /\ \E v \in Values : x.statistics = <<v>>
          \/ x.id # "rate" /\ \E v, w \in Values : x.statistics = <<v, w>>
    BY DEF Metrics
  <2>2. \A v \in Values : v \in Nat
    BY ValuesAssumption
  <2>3. CASE m.id = "rate"
    <3>1. PICK u, v, w \in Values :
            m.statistics = <<u>> /\ n.statistics = <<v>> /\ better.statistics = <<w>>
      BY <2>1, <2>3
    <3> QED
      BY <2>2, <3>1
  <2>4. CASE m.id # "rate"
    <3>1. PICK u, v, w, u2, v2, w2 \in Values :
            /\ m.statistics = <<u, u2>> /\ n.statistics = <<v, v2>>
            /\ better.statistics = <<w, w2>>
      BY <2>1, <2>4
    <3> QED
      BY <2>2, <3>1
  <2> QED
    BY <2>3, <2>4
<1>2. \A i \in 1..k : s[i] \in Percents /\ t[i] \in Percents /\ s[i] <= t[i]
  <2> SUFFICES ASSUME NEW i \in 1..k
               PROVE  s[i] \in Percents /\ t[i] \in Percents /\ s[i] <= t[i]
    OBVIOUS
  <2> DEFINE of == m.statistics[i]
             by == n.statistics[i]
             up == better.statistics[i]
             lower == Lower(m.id)
  <2>1. of \in Nat /\ by \in Nat /\ up \in Nat /\ lower \in BOOLEAN
    BY <1>1 DEF Lower
  <2>2. IF lower THEN up <= by ELSE up >= by
    BY <1>1 DEF AtLeastAsGood
  <2>3. IF lower THEN up <= up ELSE up >= up
    BY <2>1
  <2>4. s[i] = Retention(of, by, lower) /\ t[i] = Retention(of, up, lower)
    OBVIOUS
  <2> HIDE DEF of, by, up, lower, s, t
  <2>5. /\ Retention(of, by, lower) \in 0..100
        /\ Retention(of, by, lower) <= Retention(of, up, lower)
    BY <2>1, <2>2, RetentionIsMonotonic
  <2>6. Retention(of, up, lower) \in 0..100
    BY <2>1, <2>3, RetentionIsMonotonic
  <2> QED
    BY <2>4, <2>5, <2>6 DEF Percents
<1>3. MetricScore(m, n) = Average(s) /\ MetricScore(m, better) = Average(t)
  BY DEF MetricScore
<1>4. s \in Seq(Percents) /\ t \in Seq(Percents) /\ Len(s) = k /\ Len(t) = k
  <2> HIDE DEF k
  <2> QED
    BY <1>1, <1>2
<1>5. \A i \in 1..Len(s) : s[i] <= t[i]
  BY <1>2, <1>4
<1> HIDE DEF s, t, k
<1> QED
  BY <1>1, <1>3, <1>4, <1>5, AverageIsMonotonic

LEMMA StatisticsAreNumbers ==
  ASSUME NEW m \in Metrics
  PROVE  Len(m.statistics) \in {1, 2} /\ \A i \in 1..Len(m.statistics) : m.statistics[i] \in Nat
<1>1. \/ \E v \in Values : m.statistics = <<v>>
      \/ \E v, w \in Values : m.statistics = <<v, w>>
  BY DEF Metrics
<1>2. \A v \in Values : v \in Nat
  BY ValuesAssumption
<1>3. ASSUME NEW v \in Values, m.statistics = <<v>>
      PROVE  Len(m.statistics) \in {1, 2} /\ \A i \in 1..Len(m.statistics) : m.statistics[i] \in Nat
  BY <1>2, <1>3
<1>4. ASSUME NEW v \in Values, NEW w \in Values, m.statistics = <<v, w>>
      PROVE  Len(m.statistics) \in {1, 2} /\ \A i \in 1..Len(m.statistics) : m.statistics[i] \in Nat
  BY <1>2, <1>4
<1> QED
  BY <1>1, <1>3, <1>4

LEMMA AtLeastAsItself == ASSUME NEW m \in Metrics PROVE AtLeastAsGood(m, m)
<1>1. \A i \in 1..Len(m.statistics) : m.statistics[i] <= m.statistics[i]
  BY StatisticsAreNumbers
<1> QED
  BY <1>1 DEF AtLeastAsGood

LEMMA MetricIsFound ==
  ASSUME NEW d, Plain(d), NEW m \in d
  PROVE  MetricOf(d, m.id) = m
<1> DEFINE n == MetricOf(d, m.id)
<1>1. n \in d /\ n.id = m.id
  BY DEF MetricOf
<1> HIDE DEF n
<1>2. n = m
  BY <1>1 DEF Plain
<1> QED
  BY <1>2 DEF n

\* The ids of a document in a sequence, each once, in some order.
LEMMA IdsInSequence ==
  ASSUME NEW d, Plain(d), d # {}
  PROVE  /\ SetToSeq(IdsOf(d)) \in Seq(IdsOf(d))
         /\ Len(SetToSeq(IdsOf(d))) \in {1, 2}
<1> DEFINE S == IdsOf(d)
           T == {"rate", "observed"}
           k == Cardinality(S)
<1>1. S \in SUBSET T /\ S # {}
  <2>1. \A m \in d : m.id \in T
    BY MetricFields DEF Plain
  <2>2. PICK m \in d : TRUE
    OBVIOUS
  <2> QED
    BY <2>1, <2>2 DEF IdsOf
<1>2. IsFiniteSet(T) /\ Cardinality(T) = 2
  <2>1. IsFiniteSet({"rate"}) /\ Cardinality({"rate"}) = 1
    BY FS_Singleton
  <2>2. T = {"rate"} \cup {"observed"} /\ "observed" \notin {"rate"}
    OBVIOUS
  <2> HIDE DEF T
  <2> QED
    BY <2>1, <2>2, FS_AddElement
<1> HIDE DEF S, T
<1>3. IsFiniteSet(S) /\ k <= 2
  BY <1>1, <1>2, FS_Subset
<1>4. k \in Nat /\ k # 0 /\ ExistsBijection(1..k, S)
  BY <1>1, <1>3, FS_CardinalityType, FS_EmptySet
<1>5. k \in {1, 2}
  BY <1>3, <1>4
<1> HIDE DEF k
<1>6. PICK f : f \in [1..k -> S] /\ IsInjective(f)
  BY <1>4 DEF ExistsBijection, Bijection, Injection
<1>7. SetToSeq(S) \in [1..k -> S]
  BY <1>6 DEF SetToSeq, k
<1>8. SetToSeq(S) \in Seq(S) /\ Len(SetToSeq(S)) = k
  <2> DEFINE q == SetToSeq(S)
  <2> HIDE DEF q
  <2>1. q \in [1..k -> S] /\ k \in Nat
    BY <1>5, <1>7 DEF q
  <2>2. q \in Seq(S) /\ Len(q) = k
    BY <2>1
  <2> QED
    BY <2>2 DEF q
<1> QED
  BY <1>5, <1>8 DEF S
\* What score_metrics averages of two such documents of the same ids.
PlainScore(r, c) ==
  LET ids == SetToSeq(IdsOf(r))
  IN Average([i \in 1..Len(ids) |-> MetricScore(MetricOf(r, ids[i]), MetricOf(c, ids[i]))])

\* A score is no less for a candidate that is at least as good in every metric.
LEMMA PlainScoreIsMonotonic ==
  ASSUME NEW r, NEW c, NEW better, Plain(r), Plain(c), Plain(better), r # {},
         IdsOf(c) = IdsOf(r), IdsOf(better) = IdsOf(r),
         \A id \in IdsOf(r) : AtLeastAsGood(MetricOf(better, id), MetricOf(c, id))
  PROVE  PlainScore(r, c) \in Percents /\ PlainScore(r, c) <= PlainScore(r, better)
<1> DEFINE ids == SetToSeq(IdsOf(r))
           k == Len(ids)
           s(d) == [i \in 1..k |-> MetricScore(MetricOf(r, ids[i]), MetricOf(d, ids[i]))]
<1>1. ids \in Seq(IdsOf(r)) /\ k \in {1, 2}
  BY IdsInSequence
<1>2. \A d : PlainScore(r, d) = Average(s(d))
  BY DEF PlainScore
<1>3. \A d \in {r, c, better} : \A id \in IdsOf(r) :
        MetricOf(d, id) \in Metrics /\ MetricOf(d, id).id = id
  <2> SUFFICES ASSUME NEW d \in {r, c, better}, NEW id \in IdsOf(r)
               PROVE  MetricOf(d, id) \in Metrics /\ MetricOf(d, id).id = id
    OBVIOUS
  <2>1. PICK m \in d : m.id = id
    BY DEF IdsOf
  <2> QED
    BY <2>1 DEF MetricOf, Plain
<1> HIDE DEF ids
<1>4. \A i \in 1..k : /\ s(c)[i] \in Percents /\ s(better)[i] \in Percents
                      /\ s(c)[i] <= s(better)[i]
  <2> SUFFICES ASSUME NEW i \in 1..k
               PROVE  /\ s(c)[i] \in Percents /\ s(better)[i] \in Percents
                      /\ s(c)[i] <= s(better)[i]
    OBVIOUS
  <2> DEFINE m == MetricOf(r, ids[i])
             n == MetricOf(c, ids[i])
             o == MetricOf(better, ids[i])
  <2>1. ids[i] \in IdsOf(r)
    BY <1>1
  <2>2. /\ m \in Metrics /\ n \in Metrics /\ o \in Metrics
        /\ n.id = m.id /\ o.id = m.id /\ AtLeastAsGood(o, n)
    BY <1>3, <2>1
  <2>3. s(c)[i] = MetricScore(m, n) /\ s(better)[i] = MetricScore(m, o)
    OBVIOUS
  <2> HIDE DEF m, n, o, s
  <2>4. MetricScore(m, n) \in Percents /\ MetricScore(m, n) <= MetricScore(m, o)
    BY <2>2, MetricScoreIsMonotonic
  <2>5. AtLeastAsGood(o, o)
    BY <2>2, AtLeastAsItself
  <2>6. MetricScore(m, o) \in Percents
    BY <2>2, <2>5, MetricScoreIsMonotonic
  <2> QED
    BY <2>3, <2>4, <2>6
<1>5. /\ s(c) \in Seq(Percents) /\ s(better) \in Seq(Percents)
      /\ Len(s(c)) = k /\ Len(s(better)) = k
  <2> HIDE DEF k
  <2> QED
    BY <1>1, <1>4
<1> DEFINE u == s(c)
           v == s(better)
<1>6. u \in Seq(Percents) /\ v \in Seq(Percents) /\ Len(u) \in {1, 2} /\ Len(v) = Len(u)
      /\ \A i \in 1..Len(u) : u[i] <= v[i]
  BY <1>1, <1>4, <1>5
<1>7. PlainScore(r, c) = Average(u) /\ PlainScore(r, better) = Average(v)
  BY <1>2
<1> HIDE DEF u, v
<1> QED
  BY <1>6, <1>7, AverageIsMonotonic

LEMMA ScoreIsPercent ==
  ASSUME NEW r, NEW c, Plain(r), Plain(c), r # {}, IdsOf(c) = IdsOf(r)
  PROVE  PlainScore(r, c) \in Percents
<1>1. \A id \in IdsOf(r) : AtLeastAsGood(MetricOf(c, id), MetricOf(c, id))
  <2> SUFFICES ASSUME NEW id \in IdsOf(r)
               PROVE  AtLeastAsGood(MetricOf(c, id), MetricOf(c, id))
    OBVIOUS
  <2>1. PICK m \in c : m.id = id
    BY DEF IdsOf
  <2>2. MetricOf(c, id) = m /\ m \in Metrics
    BY <2>1, MetricIsFound DEF Plain
  <2> QED
    BY <2>2, AtLeastAsItself
<1> QED
  BY <1>1, PlainScoreIsMonotonic

\* One metric of a document is replaced by another of its id.
Replaced(c, m, n) == (c \ {m}) \cup {n}

LEMMA ReplacedMetric ==
  ASSUME NEW c, Plain(c), NEW m \in c, NEW n \in Metrics, n.id = m.id
  PROVE  /\ Plain(Replaced(c, m, n)) /\ IdsOf(Replaced(c, m, n)) = IdsOf(c)
         /\ \A id \in IdsOf(c) :
              MetricOf(Replaced(c, m, n), id) = IF id = m.id THEN n ELSE MetricOf(c, id)
<1> DEFINE b == (c \ {m}) \cup {n}
<1>1. \A x \in c : x = m \/ x.id # m.id
  BY DEF Plain
<1>2. Plain(b)
  <2>1. b \subseteq Metrics /\ \A x \in b : x.id # "legacy"
    BY DEF Plain
  <2>2. \A x, y \in b : x.id = y.id => x = y
    BY <1>1 DEF Plain
  <2> QED
    BY <2>1, <2>2 DEF Plain
<1>3. IdsOf(b) = IdsOf(c)
  <2>1. \A x \in b : \E y \in c : x.id = y.id
    OBVIOUS
  <2>2. \A x \in c : \E y \in b : x.id = y.id
    OBVIOUS
  <2> QED
    BY <2>1, <2>2 DEF IdsOf
<1>4. ASSUME NEW id \in IdsOf(c)
      PROVE  MetricOf(b, id) = IF id = m.id THEN n ELSE MetricOf(c, id)
  <2>1. PICK x \in c : x.id = id
    BY DEF IdsOf
  <2>2. CASE id = m.id
    <3>1. n \in b
      OBVIOUS
    <3> HIDE DEF b
    <3>2. MetricOf(b, n.id) = n
      BY <1>2, <3>1, MetricIsFound
    <3> QED
      BY <2>2, <3>2
  <2>3. CASE id # m.id
    <3>1. x \in b
      BY <2>1, <2>3
    <3> HIDE DEF b
    <3>2. MetricOf(b, x.id) = x /\ MetricOf(c, x.id) = x
      BY <1>2, <2>1, <3>1, MetricIsFound
    <3> QED
      BY <2>1, <2>3, <3>2
  <2> QED
    BY <2>2, <2>3
<1> QED
  BY <1>2, <1>3, <1>4 DEF Replaced

LEMMA ScoreIsMonotonic ==
  ASSUME NEW r \in Seq(Metrics), NEW c \in Seq(Metrics), Score(r, c) # Refused,
         NEW m \in Unaliased(c), NEW n \in Metrics, n.id = m.id, AtLeastAsGood(n, m)
  PROVE  Score(r, SetToSeq((Unaliased(c) \ {m}) \cup {n})) >= Score(r, c)
<1> DEFINE known == Canonical(r)
           new == Canonical(c)
           better == Replaced(new, m, n)
<1>1. known # {} /\ new # {} /\ IdsOf(known) = IdsOf(new)
  BY DEF Score
<1>2. new = Unaliased(c) /\ Plain(known) /\ Plain(new)
  BY <1>1, CanonicalIsUnaliased
<1>3. Score(r, c) = PlainScore(known, new)
  BY <1>1 DEF Score, PlainScore
<1> HIDE DEF new
<1>4. /\ Plain(better) /\ IdsOf(better) = IdsOf(new)
      /\ \A id \in IdsOf(new) : MetricOf(better, id) = IF id = m.id THEN n ELSE MetricOf(new, id)
  <2>1. m \in new
    BY <1>2
  <2> QED
    BY <1>2, <2>1, ReplacedMetric
<1>5. better # {}
  <2>1. n \in better
    BY DEF Replaced
  <2> QED
    BY <2>1
<1> HIDE DEF better
<1>6. Score(r, SetToSeq(better)) = PlainScore(known, better)
  <2>1. Canonical(SetToSeq(better)) = better
    BY <1>4, PlainIsCanonical
  <2> QED
    BY <1>1, <1>4, <1>5, <2>1 DEF Score, PlainScore
<1> HIDE DEF known
<1>7. \A id \in IdsOf(known) : AtLeastAsGood(MetricOf(better, id), MetricOf(new, id))
  <2> SUFFICES ASSUME NEW id \in IdsOf(known)
               PROVE  AtLeastAsGood(MetricOf(better, id), MetricOf(new, id))
    OBVIOUS
  <2>1. PICK x \in new : x.id = id
    BY <1>1 DEF IdsOf
  <2>2. MetricOf(new, id) = x /\ x \in Metrics
    BY <1>2, <2>1, MetricIsFound DEF Plain
  <2>3. CASE id = m.id
    <3>1. x = m
      BY <1>2, <2>1, <2>3 DEF Plain
    <3> QED
      BY <1>1, <1>4, <2>2, <2>3, <3>1
  <2>4. CASE id # m.id
    BY <1>1, <1>4, <2>2, <2>4, AtLeastAsItself
  <2> QED
    BY <2>3, <2>4
<1>8. PlainScore(known, new) \in Percents /\ PlainScore(known, new) <= PlainScore(known, better)
  BY <1>1, <1>2, <1>4, <1>7, PlainScoreIsMonotonic
<1>9. PlainScore(known, new) \in Percents /\ PlainScore(known, better) \in Percents
  BY <1>1, <1>2, <1>4, ScoreIsPercent
<1>10. PlainScore(known, better) >= PlainScore(known, new)
  BY <1>8, <1>9 DEF Percents
<1>11. better = (Unaliased(c) \ {m}) \cup {n}
  BY <1>2 DEF better, Replaced
<1> QED
  BY <1>3, <1>6, <1>10, <1>11

\* A score is one of a hundred, and a candidate that is better in one metric and the same in
\* all others never scores less (retention_score, score_metrics), for any statistics: the cap,
\* a denominator of zero and the three roundings keep the order.
THEOREM BetterIsNotWorse == ASSUME Values # {} PROVE Spec => []BetterNeverScoresLess
<1>1. MetricsInv => BetterNeverScoresLess
  <2> SUFFICES ASSUME MetricsInv, Scored
               PROVE  BetterNeverScoresLess
    BY DEF BetterNeverScoresLess
  <2> DEFINE r == reference.metrics
             c == candidate.metrics
  <2>1. r \in Seq(Metrics) /\ c \in Seq(Metrics) /\ score = Score(r, c) /\ score # Refused
    BY DEF MetricsInv, Scored
  <2> HIDE DEF r, c
  <2>2. score \in 0..100
    <3>1. /\ Canonical(r) # {} /\ Canonical(c) # {} /\ IdsOf(Canonical(r)) = IdsOf(Canonical(c))
          /\ score = PlainScore(Canonical(r), Canonical(c))
      BY <2>1 DEF Score, PlainScore
    <3>2. Plain(Canonical(r)) /\ Plain(Canonical(c))
      BY <2>1, <3>1, CanonicalIsUnaliased
    <3> QED
      BY <3>1, <3>2, ScoreIsPercent DEF Percents
  <2>3. ASSUME NEW m \in Unaliased(c), NEW n \in Metrics, n.id = m.id, AtLeastAsGood(n, m)
        PROVE  Score(r, SetToSeq((Unaliased(c) \ {m}) \cup {n})) >= score
    BY <2>1, <2>3, ScoreIsMonotonic
  <2> QED
    BY <2>2, <2>3 DEF BetterNeverScoresLess, r, c
<1> QED
  BY <1>1, MetricsInit, MetricsNext, PTL DEF Spec

=============================================================================
