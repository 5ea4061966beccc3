------------------------- MODULE ScoreHistoryProofs -------------------------
(***************************************************************************)
(* Theorems about ScoreHistory, for any number of commits, requests and    *)
(* retained entries and any committers' clocks.                            *)
(***************************************************************************)
EXTENDS ScoreHistory, FiniteSetTheorems, SequenceTheorems, WellFoundedInduction, TLAPS

Records == [commit : 0..Commits, scored : BOOLEAN, workload : Workloads \cup {Null},
            scenario : Scenarios \cup {Null}]

\* A score comes with the digest of its scenario, except in a legacy entry.
Digested(e) == e.scored /\ e.workload # Null => e.scenario # Null

InOrder(h) ==
  \A i, j \in 1..Len(h) : i < j => h[i].commit # h[j].commit /\ Earlier(h[i], h[j])

GoodHistory(h) ==
  /\ h \in Seq(Records) /\ Len(h) <= Retention
  /\ InOrder(h) /\ \A i \in 1..Len(h) : Digested(h[i])

\* What the variables hold and how a run's copy of the history relates to the branch.
HistoryInv ==
  /\ made \in [Numbers -> Sources] /\ pushed \in 0..Commits
  /\ pending \in 0..Commits /\ running \in 0..Commits /\ measured \in BOOLEAN
  /\ GoodHistory(branch) /\ GoodHistory(local)
  /\ step # "idle" => running \in Numbers
  /\ step = "append" => local = branch
  /\ step = "publish" => local \in Appended(branch, Entry(running, measured))
-----------------------------------------------------------------------------
(* The order of the entries and the sort. *)

\* The comparison is a strict order, and only entries of one commit tie.
LEMMA EarlierIsOrder ==
  ASSUME made \in [Numbers -> Sources], NEW x \in Records, NEW y \in Records,
         NEW z \in Records
  PROVE  /\ ~Earlier(x, x)
         /\ Earlier(x, y) /\ Earlier(y, z) => Earlier(x, z)
         /\ x.commit # y.commit => Earlier(x, y) \/ Earlier(y, x)
         /\ Earlier(x, y) => x.commit # y.commit /\ ~Earlier(y, x)
<1>1. \A c \in 0..Commits : Offset(c) \in Nat
  <2>1. \A c \in 0..Commits : c # 0 => c \in Numbers
    BY CommitsAssumption DEF Numbers
  <2>2. \A c \in Numbers : made[c].offset \in Nat
    BY OffsetsAssumption DEF Sources
  <2> QED
    BY <2>1, <2>2 DEF Offset
<1>2. x.commit \in 0..Commits /\ y.commit \in 0..Commits /\ z.commit \in 0..Commits
  BY DEF Records
<1>3. /\ Offset(x.commit) \in Nat /\ Offset(y.commit) \in Nat /\ Offset(z.commit) \in Nat
      /\ x.commit \in Nat /\ y.commit \in Nat /\ z.commit \in Nat
      /\ x.commit = y.commit => Offset(x.commit) = Offset(y.commit)
  BY <1>1, <1>2, CommitsAssumption
<1> QED
  BY <1>3 DEF Earlier

\* r holds what follows the first k elements of s, and nothing is dropped needlessly.
IsSuffixFrom(s, r, n, k) ==
  /\ k + Len(r) = Len(s) /\ (k # 0 => Len(r) = n)
  /\ \A i \in 1..Len(r) : r[i] = s[k + i]

\* The last n elements of a sequence.
LEMMA LastOfIs ==
  ASSUME NEW X, NEW s, s \in Seq(X), NEW n, n \in Nat, NEW r, r = LastOf(s, n)
  PROVE  /\ r \in Seq(X) /\ Len(r) <= n
         /\ \E k \in Nat : IsSuffixFrom(s, r, n, k)
<1> DEFINE m == IF Len(s) > n THEN Len(s) - n + 1 ELSE 1
<1>1. Len(s) \in Nat /\ m \in Nat /\ m >= 1 /\ m <= Len(s) + 1
  OBVIOUS
<1>2. r = SubSeq(s, m, Len(s))
  BY DEF LastOf
<1> HIDE DEF m
<1>4. \A i \in m..Len(s) : s[i] \in X
  BY <1>1
<1>5. /\ r \in Seq(X) /\ Len(r) = IF m <= Len(s) THEN Len(s) - m + 1 ELSE 0
      /\ \A i \in 1..Len(s) - m + 1 : r[i] = s[m + i - 1]
  BY <1>1, <1>2, <1>4, SubSeqProperties
<1>6. Len(r) = Len(s) - m + 1
  BY <1>1, <1>5
<1>7. \A i \in 1..Len(r) : r[i] = s[m + i - 1] /\ m + i - 1 = (m - 1) + i
  BY <1>1, <1>5, <1>6
<1> DEFINE k == m - 1
<1>8. \A i \in 1..Len(r) : r[i] = s[k + i]
  BY <1>7, Zenon
<1>9. k \in Nat /\ k + Len(r) = Len(s) /\ Len(r) <= n /\ (k # 0 => Len(r) = n)
  <2>1. Len(r) \in Int /\ Len(r) = Len(s) - m + 1
    BY <1>1, <1>6
  <2>2. m = IF Len(s) > n THEN Len(s) - n + 1 ELSE 1
    BY DEF m
  <2>3. k = m - 1
    OBVIOUS
  <2> HIDE DEF k
  <2>4. k \in Nat /\ k + Len(r) = Len(s)
    BY <1>1, <2>1, <2>3
  <2>5. Len(r) <= n /\ (k # 0 => Len(r) = n)
    BY <1>1, <2>1, <2>2, <2>3
  <2> QED
    BY <2>4, <2>5
<1> HIDE DEF k
<1>10. r \in Seq(X)
  BY <1>5
<1>11. /\ k + Len(r) = Len(s) /\ (k # 0 => Len(r) = n)
       /\ \A i \in 1..Len(r) : r[i] = s[k + i]
  BY <1>8, <1>9
<1>12. k \in Nat /\ Len(r) <= n
  BY <1>9
<1> QED
  BY <1>10, <1>11, <1>12, Zenon DEF IsSuffixFrom

\* A history is as long as the set of its entries is large.
LEMMA HistoryIsFinite ==
  ASSUME NEW h \in Seq(Records)
  PROVE  IsFiniteSet(ToSet(h)) /\ \A x : x \in ToSet(h) <=> \E i \in 1..Len(h) : x = h[i]
<1>1. \A x : x \in ToSet(h) <=> \E i \in 1..Len(h) : x = h[i]
  BY DEF ToSet
<1>2. h \in Surjection(1..Len(h), ToSet(h))
  BY <1>1 DEF Surjection
<1>3. IsFiniteSet(1..Len(h))
  BY FS_Interval
<1> QED
  BY <1>1, <1>2, <1>3, FS_Surjection

\* The set that is sorted: the entries of the other commits, and the new one.
LEMMA EntriesAre ==
  ASSUME HistoryInv, NEW h, GoodHistory(h), NEW e \in Records, Digested(e)
  PROVE  LET S == Others(h, e) \cup {e}
         IN /\ IsFiniteSet(S) /\ Cardinality(S) \in Nat /\ S \subseteq Records
            /\ \A x \in S : Digested(x)
            /\ \A x, y \in S : x # y => x.commit # y.commit
            /\ \A x : x \in S <=> x = e \/ \E i \in 1..Len(h) :
                                            x = h[i] /\ h[i].commit # e.commit
<1> DEFINE S == Others(h, e) \cup {e}
<1>1. h \in Seq(Records) /\ Len(h) \in Nat
  BY DEF GoodHistory
<1>2. \A x : x \in S <=> x = e \/ \E i \in 1..Len(h) : x = h[i] /\ h[i].commit # e.commit
  BY <1>1, HistoryIsFinite DEF Others
<1>3. IsFiniteSet(S) /\ Cardinality(S) \in Nat
  <2>1. IsFiniteSet(Others(h, e))
    BY <1>1, HistoryIsFinite, FS_Subset DEF Others
  <2> QED
    BY <2>1, FS_AddElement, FS_CardinalityType
<1>4. \A i \in 1..Len(h) : h[i] \in Records /\ Digested(h[i])
  BY <1>1 DEF GoodHistory
<1>5. ASSUME NEW x \in S, NEW y \in S, x # y
      PROVE  x.commit # y.commit
  <2>1. \A i, j \in 1..Len(h) : i # j => h[i].commit # h[j].commit
    BY <1>1 DEF GoodHistory, InOrder
  <2> HIDE DEF S
  <2> QED
    BY <1>2, <1>5, <2>1
<1> HIDE DEF S
<1>6. S \subseteq Records /\ \A x \in S : Digested(x)
  BY <1>2, <1>4
<1> QED
  BY <1>2, <1>3, <1>5, <1>6 DEF S

\* A sorted sequence of entries of different commits lists each of them once.
LEMMA SortedIs ==
  ASSUME made \in [Numbers -> Sources],
         NEW S, IsFiniteSet(S), Cardinality(S) \in Nat, S \subseteq Records,
         \A x, y \in S : x # y => x.commit # y.commit,
         NEW s \in Chronological(S)
  PROVE  /\ s \in Seq(Records) /\ InOrder(s)
         /\ \A i \in 1..Len(s) : s[i] \in S
         /\ \A x \in S : \E i \in 1..Len(s) : s[i] = x
<1> DEFINE n == Cardinality(S)
<1>1. /\ s \in [1..n -> S] /\ DOMAIN s = 1..n
      /\ \A i, j \in 1..n : i < j => s[i] # s[j] /\ ~Earlier(s[j], s[i])
  BY DEF Chronological
<1>2. s \in Seq(Records) /\ Len(s) = n
  BY <1>1
<1>3. InOrder(s)
  <2> SUFFICES ASSUME NEW i \in 1..n, NEW j \in 1..n, i < j
               PROVE  s[i].commit # s[j].commit /\ Earlier(s[i], s[j])
    BY <1>2 DEF InOrder
  <2>1. s[i] \in S /\ s[j] \in S /\ s[i] # s[j] /\ ~Earlier(s[j], s[i])
    BY <1>1
  <2>2. s[i].commit # s[j].commit
    BY <2>1
  <2> QED
    BY <2>1, <2>2, EarlierIsOrder
<1>4. s \in Surjection(1..n, S)
  <2>1. s \in Injection(1..n, S)
    <3>1. \A i, j \in 1..n : s[i] = s[j] => i = j
      <4>1. \A i, j \in 1..n : i = j \/ i < j \/ j < i
        OBVIOUS
      <4> QED
        BY <1>1, <4>1
    <3> QED
      BY <1>1, <3>1 DEF Injection, IsInjective
  <2>2. Cardinality(1..n) = n
    BY FS_Interval
  <2> QED
    BY <2>1, <2>2, FS_Injection
<1> QED
  BY <1>1, <1>2, <1>3, <1>4 DEF Surjection

\* Appending keeps a history in order and within its bound, and drops an entry of another
\* commit only when the history is full of later ones.
LEMMA AppendedIs ==
  ASSUME HistoryInv, NEW h, GoodHistory(h), NEW e \in Records, Digested(e),
         NEW r \in Appended(h, e)
  PROVE  /\ GoodHistory(r)
         /\ \A i \in 1..Len(h) :
              \/ h[i].commit = e.commit
              \/ h[i] \in ToSet(r)
              \/ Len(r) = Retention /\ \A j \in 1..Len(r) : Earlier(h[i], r[j])
<1> DEFINE S == Others(h, e) \cup {e}
<1>1. /\ IsFiniteSet(S) /\ Cardinality(S) \in Nat /\ S \subseteq Records
      /\ \A x \in S : Digested(x)
      /\ \A x, y \in S : x # y => x.commit # y.commit
      /\ \A x : x \in S <=> x = e \/ \E i \in 1..Len(h) :
                                      x = h[i] /\ h[i].commit # e.commit
  BY EntriesAre
<1>2. PICK s \in Chronological(S) : r = LastOf(s, Retention)
  BY DEF Appended
<1> HIDE DEF S
<1>3. /\ s \in Seq(Records) /\ InOrder(s)
      /\ \A i \in 1..Len(s) : s[i] \in S
      /\ \A x \in S : \E i \in 1..Len(s) : s[i] = x
  BY <1>1, <1>2, SortedIs DEF HistoryInv
<1>4. Retention \in Nat /\ Len(s) \in Nat
  BY <1>3, RetentionAssumption
<1>5. PICK k \in Nat : /\ k + Len(r) = Len(s) /\ (k # 0 => Len(r) = Retention)
                      /\ \A i \in 1..Len(r) : r[i] = s[k + i]
  <2>1. s \in Seq(Records) /\ Retention \in Nat /\ r = LastOf(s, Retention)
    BY <1>2, <1>3, <1>4
  <2>2. PICK k \in Nat : IsSuffixFrom(s, r, Retention, k)
    BY <2>1, LastOfIs
  <2> QED
    BY <2>2 DEF IsSuffixFrom
<1>6. r \in Seq(Records) /\ Len(r) <= Retention /\ Len(r) \in Nat
  BY <1>2, <1>3, <1>4, LastOfIs
<1>7. \A i \in 1..Len(r) : k + i \in 1..Len(s)
  BY <1>4, <1>5, <1>6
<1>8. GoodHistory(r)
  <2>1. InOrder(r)
    <3> SUFFICES ASSUME NEW i \in 1..Len(r), NEW j \in 1..Len(r), i < j
                 PROVE  r[i].commit # r[j].commit /\ Earlier(r[i], r[j])
      BY DEF InOrder
    <3>1. k + i \in 1..Len(s) /\ k + j \in 1..Len(s) /\ k + i < k + j
      BY <1>5, <1>6, <1>7
    <3> DEFINE a == k + i
               b == k + j
    <3>2. a \in 1..Len(s) /\ b \in 1..Len(s) /\ a < b /\ r[i] = s[a] /\ r[j] = s[b]
      BY <1>5, <3>1
    <3> HIDE DEF a, b
    <3> QED
      BY <1>3, <3>2 DEF InOrder
  <2>2. \A i \in 1..Len(r) : Digested(r[i])
    BY <1>1, <1>3, <1>5, <1>7
  <2> QED
    BY <1>6, <2>1, <2>2 DEF GoodHistory
<1>9. ASSUME NEW i \in 1..Len(h), h[i].commit # e.commit, h[i] \notin ToSet(r)
      PROVE  Len(r) = Retention /\ \A j \in 1..Len(r) : Earlier(h[i], r[j])
  <2>1. PICK l \in 1..Len(s) : s[l] = h[i]
    BY <1>1, <1>3, <1>9
  <2>2. ~(l > k)
    <3> SUFFICES ASSUME l > k
                 PROVE  FALSE
      OBVIOUS
    <3>1. l - k \in 1..Len(r) /\ k + (l - k) = l
      BY <1>4, <1>5, <1>6
    <3>2. r[l - k] = h[i]
      BY <1>5, <2>1, <3>1
    <3> QED
      BY <1>6, <1>9, <3>1, <3>2, HistoryIsFinite
  <2>3. Len(r) = Retention
    BY <1>5, <2>1, <2>2
  <2>4. ASSUME NEW j \in 1..Len(r)
        PROVE  Earlier(h[i], r[j])
    <3>1. l < k + j /\ k + j \in 1..Len(s)
      BY <1>5, <1>6, <1>7, <2>1, <2>2
    <3> QED
      BY <1>3, <1>5, <2>1, <3>1 DEF InOrder
  <2> QED
    BY <2>3, <2>4
<1> QED
  BY <1>8, <1>9

\* The entry a run appends.
LEMMA EntryIs ==
  ASSUME made \in [Numbers -> Sources], NEW c \in Numbers, NEW ok \in BOOLEAN
  PROVE  Entry(c, ok) \in Records /\ Digested(Entry(c, ok)) /\ Entry(c, ok).commit = c
<1>1. c \in 0..Commits /\ made[c].workload \in Workloads /\ made[c].scenario \in Scenarios
  BY CommitsAssumption DEF Numbers, Sources
<1> QED
  BY <1>1, NullAssumption DEF Entry, Records, Digested
-----------------------------------------------------------------------------
(* The steps. *)

LEMMA HistoryInit == Init => HistoryInv
<1> SUFFICES ASSUME Init
             PROVE  HistoryInv
  OBVIOUS
<1>1. GoodHistory(<<>>)
  BY RetentionAssumption DEF GoodHistory, InOrder
<1>2. GoodHistory(<<Legacy>>)
  <2>1. Legacy \in Records /\ Digested(Legacy)
    BY CommitsAssumption DEF Legacy, Records, Digested
  <2>2. /\ <<Legacy>> \in Seq(Records) /\ Len(<<Legacy>>) = 1 /\ <<Legacy>>[1] = Legacy
        /\ 1 <= Retention
    BY <2>1, RetentionAssumption
  <2> QED
    BY <2>1, <2>2 DEF GoodHistory, InOrder
<1>3. GoodHistory(branch) /\ GoodHistory(local)
  BY <1>1, <1>2 DEF Init
<1>4. /\ made \in [Numbers -> Sources] /\ pushed = 0 /\ pending = 0 /\ running = 0
      /\ measured = FALSE /\ step = "idle" /\ 0 \in 0..Commits
  BY CommitsAssumption DEF Init
<1> QED
  BY <1>3, <1>4 DEF HistoryInv

\* Only the made commits and the running one matter to what a run would append.
LEMMA SameAppend ==
  ASSUME made' = made
  PROVE  /\ \A h, c, ok : Appended(h, Entry(c, ok))' = Appended(h, Entry(c, ok))
         /\ \A x, y : Earlier(x, y)' <=> Earlier(x, y)
         /\ \A h : GoodHistory(h)' <=> GoodHistory(h)
<1>1. \A x, y : Earlier(x, y)' <=> Earlier(x, y)
  BY DEF Earlier, Offset
<1>2. \A h : GoodHistory(h)' <=> GoodHistory(h)
  BY <1>1 DEF GoodHistory, InOrder
<1>3. \A S : Chronological(S)' = Chronological(S)
  BY <1>1 DEF Chronological
<1>4. \A c, ok : Entry(c, ok)' = Entry(c, ok)
  BY DEF Entry
<1>5. \A h, c, ok : Appended(h, Entry(c, ok))' = Appended(h, Entry(c, ok))
  BY <1>3, <1>4 DEF Appended
<1> QED
  BY <1>1, <1>2, <1>5

LEMMA HistoryStep == HistoryInv /\ [Next]_vars => HistoryInv'
<1> SUFFICES ASSUME HistoryInv, [Next]_vars
             PROVE  HistoryInv'
  OBVIOUS
<1>1. made' = made
  BY DEF Next, JobStep, Push, RunAgain, StartRun, Measure, EnsureBranch, CheckoutBranch,
         AppendSnapshot, PublishBranch, Abandon, vars, source
<1>2. made' \in [Numbers -> Sources]
  BY <1>1 DEF HistoryInv
<1>3. GoodHistory(<<>>)
  BY RetentionAssumption DEF GoodHistory, InOrder
<1> USE DEF source, queue, job
<1>4. CASE \/ Push \/ \E c \in Numbers : RunAgain(c)
  <2>1. pushed' \in 0..Commits /\ pending' \in 0..Commits
    BY <1>4, CommitsAssumption DEF HistoryInv, Push, RunAgain, Enqueue, Numbers
  <2>2. UNCHANGED <<job, branch>>
    BY <1>4 DEF Push, RunAgain
  <2> QED
    BY <1>1, <1>2, <2>1, <2>2, SameAppend DEF HistoryInv
<1>5. CASE StartRun \/ Measure \/ EnsureBranch
  <2>1. /\ running' \in 0..Commits /\ pending' \in 0..Commits /\ measured' \in BOOLEAN
        /\ running' \in Numbers /\ step' \in {"measure", "ensure", "checkout"}
        /\ pushed' = pushed /\ branch' = branch /\ local' = local
    BY <1>5, CommitsAssumption
    DEF StartRun, Measure, EnsureBranch, HistoryInv, Numbers
  <2> QED
    BY <1>1, <1>2, <2>1, SameAppend DEF HistoryInv
<1>6. CASE CheckoutBranch
  <2>1. /\ local' = branch /\ branch' = branch /\ step' = "append" /\ step = "checkout"
        /\ running' = running /\ measured' = measured /\ pushed' = pushed
        /\ pending' = pending
    BY <1>6 DEF CheckoutBranch
  <2> QED
    BY <1>1, <1>2, <2>1, SameAppend DEF HistoryInv
<1>7. CASE AppendSnapshot
  <2>1. /\ local' \in Appended(local, Entry(running, measured)) /\ branch' = branch
        /\ step = "append" /\ step' = "publish" /\ running' = running
        /\ measured' = measured /\ pushed' = pushed /\ pending' = pending
    BY <1>7 DEF AppendSnapshot
  <2>2. local = branch /\ running \in Numbers /\ GoodHistory(branch)
    BY <2>1 DEF HistoryInv
  <2>3. Entry(running, measured) \in Records /\ Digested(Entry(running, measured))
    BY <2>2, EntryIs DEF HistoryInv
  <2>4. GoodHistory(local')
    BY <2>1, <2>2, <2>3, AppendedIs
  <2>5. (local \in Appended(branch, Entry(running, measured)))'
    BY <1>1, <2>1, <2>2, SameAppend
  <2> QED
    BY <1>1, <1>2, <2>1, <2>2, <2>4, <2>5, SameAppend DEF HistoryInv
<1>8. CASE PublishBranch \/ Abandon
  <2>1. /\ branch' \in {branch, local} /\ local' = <<>> /\ step' = "idle"
        /\ running' = 0 /\ measured' = FALSE /\ pushed' = pushed /\ pending' = pending
    BY <1>8 DEF PublishBranch, Abandon, Leave
  <2>2. GoodHistory(branch')
    BY <2>1 DEF HistoryInv
  <2>3. GoodHistory(branch)' /\ GoodHistory(local)'
    BY <1>1, <1>3, <2>1, <2>2, SameAppend
  <2>4. 0 \in 0..Commits /\ pushed \in 0..Commits /\ pending \in 0..Commits
    BY CommitsAssumption DEF HistoryInv
  <2> QED
    BY <1>2, <2>1, <2>3, <2>4 DEF HistoryInv
<1>9. CASE UNCHANGED vars
  BY <1>1, <1>2, <1>9, SameAppend DEF HistoryInv, vars
<1> QED
  BY <1>4, <1>5, <1>6, <1>7, <1>8, <1>9 DEF Next, JobStep

\* The published history has one entry per commit, in order and within its bound, in
\* whatever order runs of older and newer commits finish.
THEOREM HistoryInOrder == Spec => []OneEntryPerCommit
<1>1. HistoryInv => OneEntryPerCommit
  BY DEF HistoryInv, GoodHistory, InOrder, OneEntryPerCommit
<1> QED
  BY <1>1, HistoryInit, HistoryStep, PTL DEF Spec

\* The chart joins points of one workload and one scenario only (currentWorkloadEntries).
THEOREM OneCohort == Spec => []ChartIsOneCohort
<1>1. ASSUME HistoryInv
      PROVE  ChartIsOneCohort
  <2> SUFFICES ASSUME NEW i \in ChartPoints, NEW j \in ChartPoints
               PROVE  /\ branch[i].workload = branch[j].workload
                      /\ branch[i].scenario = branch[j].scenario
    BY DEF ChartIsOneCohort
  <2>1. /\ i \in CurrentEntries(branch) /\ j \in CurrentEntries(branch)
        /\ branch[i].scored /\ branch[j].scored
    BY DEF ChartPoints
  <2>2. \A k \in 1..Len(branch) : Digested(branch[k])
    BY <1>1 DEF HistoryInv, GoodHistory
  <2>3. CASE branch = <<>>
    BY <2>1, <2>3 DEF CurrentEntries
  <2>4. CASE branch # <<>> /\ (Last(branch).workload = Null \/ ScenarioOf(branch) = Null)
    BY <2>1, <2>4 DEF CurrentEntries
  <2>5. CASE branch # <<>> /\ ~(Last(branch).workload = Null \/ ScenarioOf(branch) = Null)
    <3>1. \A k \in CurrentEntries(branch) :
            /\ k \in 1..Len(branch) /\ branch[k].workload = Last(branch).workload
            /\ branch[k].scenario \in {ScenarioOf(branch), Null}
      BY <2>5 DEF CurrentEntries
    <3> QED
      BY <2>1, <2>2, <2>5, <3>1 DEF Digested
  <2> QED
    BY <2>3, <2>4, <2>5
<1> QED
  BY <1>1, HistoryInit, HistoryStep, PTL DEF Spec

\* No run loses the entry of another commit, except one that a full history has no room
\* for (the run's copy is still the branch's history when it publishes).
THEOREM EntriesAreKept == Spec => NothingIsForgotten
<1> DEFINE Kept == \A i \in 1..Len(branch) :
                     \/ branch[i].commit = running
                     \/ branch[i] \in ToSet(branch')
                     \/ /\ Len(branch') = Retention
                        /\ \A j \in 1..Len(branch') : Earlier(branch[i], branch'[j])
<1>1. ASSUME HistoryInv, [Next]_vars
      PROVE  [Kept]_vars
  <2>1. CASE PublishBranch
    <3>1. branch' = local /\ local \in Appended(branch, Entry(running, measured))
      BY <1>1, <2>1 DEF PublishBranch, HistoryInv
    <3>2. /\ running \in Numbers /\ measured \in BOOLEAN /\ GoodHistory(branch)
          /\ made \in [Numbers -> Sources]
      BY <1>1, <2>1 DEF PublishBranch, HistoryInv
    <3>3. /\ Entry(running, measured) \in Records /\ Digested(Entry(running, measured))
          /\ Entry(running, measured).commit = running
      BY <3>2, EntryIs
    <3> QED
      BY <1>1, <3>1, <3>2, <3>3, AppendedIs
  <2>2. CASE branch' = branch
    BY <1>1, <2>2, HistoryIsFinite DEF HistoryInv, GoodHistory
  <2>3. PublishBranch \/ branch' = branch
    BY <1>1 DEF Next, JobStep, Push, RunAgain, StartRun, Measure, EnsureBranch,
               CheckoutBranch, AppendSnapshot, Abandon, vars
  <2> QED
    BY <2>1, <2>2, <2>3
<1>2. Spec => []HistoryInv
  BY HistoryInit, HistoryStep, PTL DEF Spec
<1> QED
  BY <1>1, <1>2, PTL DEF Spec, NothingIsForgotten
-----------------------------------------------------------------------------
(* The step that appends is never without a result: its set of entries has a sorted
   sequence, in which the new entry stands after the earlier ones.                   *)

\* A set of numbers that is not empty has a least element.
LEMMA FirstPlace ==
  ASSUME NEW T, T \subseteq Nat, T # {}
  PROVE  \E x \in T : \A y \in T : x <= y
<1>1. PICK x \in T : \A y \in T : ~(<<y, x>> \in OpToRel(<, Nat))
  BY WFMin, NatLessThanWellFounded
<1>2. \A y \in Nat : y < x => <<y, x>> \in OpToRel(<, Nat)
  BY DEF OpToRel
<1>3. \A y \in T : ~(y < x)
  BY <1>1, <1>2, Zenon
<1> QED
  BY <1>3

\* A sequence in order that lists a set of entries is one of its sorted sequences.
LEMMA IsChronological ==
  ASSUME made \in [Numbers -> Sources], NEW S, S \subseteq Records,
         NEW m \in Nat, NEW t \in [1..m -> S],
         \A i, j \in 1..m : i < j => Earlier(t[i], t[j]),
         \A x \in S : \E i \in 1..m : t[i] = x
  PROVE  t \in Chronological(S)
<1>1. \A i, j \in 1..m : i < j => t[i] # t[j] /\ ~Earlier(t[j], t[i])
  <2> SUFFICES ASSUME NEW i \in 1..m, NEW j \in 1..m, i < j
               PROVE  t[i] # t[j] /\ ~Earlier(t[j], t[i])
    OBVIOUS
  <2>1. t[i] \in Records /\ t[j] \in Records /\ Earlier(t[i], t[j])
    OBVIOUS
  <2> QED
    BY <2>1, EarlierIsOrder
<1>2. t \in Bijection(1..m, S)
  <2>1. \A i, j \in 1..m : i = j \/ i < j \/ j < i
    OBVIOUS
  <2>2. \A i, j \in 1..m : t[i] = t[j] => i = j
    BY <1>1, <2>1
  <2> QED
    BY <2>2 DEF Bijection, Injection, Surjection, IsInjective
<1>3. Cardinality(S) = m
  BY <1>2, FS_Interval, FS_Bijection DEF ExistsBijection
<1> QED
  BY <1>1, <1>3 DEF Chronological

\* An entry measured again takes the place of the old one.
LEMMA ReplacedIsInOrder ==
  ASSUME HistoryInv, NEW h, GoodHistory(h), NEW e \in Records, Digested(e),
         NEW k \in 1..Len(h), h[k].commit = e.commit
  PROVE  Chronological(Others(h, e) \cup {e}) # {}
<1> DEFINE S == Others(h, e) \cup {e}
           m == Len(h)
           t == [i \in 1..m |-> IF i = k THEN e ELSE h[i]]
<1>1. /\ S \subseteq Records
      /\ \A x : x \in S <=> x = e \/ \E i \in 1..m : x = h[i] /\ h[i].commit # e.commit
  BY EntriesAre
<1> HIDE DEF S
<1>2. /\ m \in Nat /\ made \in [Numbers -> Sources]
      /\ \A i, j \in 1..m : i < j => h[i].commit # h[j].commit /\ Earlier(h[i], h[j])
  BY DEF GoodHistory, InOrder, HistoryInv
<1>3. \A i \in 1..m : i # k => h[i].commit # e.commit
  BY <1>2
<1>4. t \in [1..m -> S]
  BY <1>1, <1>3
<1>5. \A x \in S : \E i \in 1..m : t[i] = x
  BY <1>1
<1>6. \A i, j \in 1..m : i < j => Earlier(t[i], t[j])
  <2> SUFFICES ASSUME NEW i \in 1..m, NEW j \in 1..m, i < j
               PROVE  Earlier(t[i], t[j])
    OBVIOUS
  <2>1. Earlier(h[i], h[j])
    BY <1>2
  <2>2. t[i].commit = h[i].commit /\ t[j].commit = h[j].commit
    OBVIOUS
  <2> HIDE DEF t
  <2> QED
    BY <2>1, <2>2 DEF Earlier
<1> HIDE DEF t
<1> QED
  BY <1>1, <1>2, <1>4, <1>5, <1>6, IsChronological DEF S

\* The entry of a commit not in the history stands after the earlier ones.
LEMMA InsertedIsInOrder ==
  ASSUME HistoryInv, NEW h, GoodHistory(h), NEW e \in Records, Digested(e),
         \A i \in 1..Len(h) : h[i].commit # e.commit
  PROVE  Chronological(Others(h, e) \cup {e}) # {}
<1> DEFINE S == Others(h, e) \cup {e}
           m == Len(h)
<1>1. /\ S \subseteq Records
      /\ \A x : x \in S <=> x = e \/ \E i \in 1..m : x = h[i] /\ h[i].commit # e.commit
  BY EntriesAre
<1> HIDE DEF S
<1>2. /\ m \in Nat /\ made \in [Numbers -> Sources] /\ \A i \in 1..m : h[i] \in Records
      /\ \A i, j \in 1..m : i < j => Earlier(h[i], h[j])
  BY DEF GoodHistory, InOrder, HistoryInv
<1>3. PICK p \in 1..m + 1 : /\ p # m + 1 => Earlier(e, h[p])
                            /\ \A i \in 1..m : i < p => Earlier(h[i], e)
  <2> DEFINE T == {j \in 1..m + 1 : j # m + 1 => Earlier(e, h[j])}
  <2>1. T \subseteq Nat /\ m + 1 \in T
    BY <1>2
  <2>2. PICK p \in T : \A j \in T : p <= j
    <3> HIDE DEF T
    <3> QED
      BY <2>1, FirstPlace
  <2>3. ASSUME NEW i \in 1..m, i < p
        PROVE  Earlier(h[i], e)
    <3>1. i \notin T
      BY <2>2, <2>3
    <3>2. ~Earlier(e, h[i])
      BY <1>2, <3>1
    <3> QED
      BY <1>2, <3>2, EarlierIsOrder
  <2> QED
    BY <2>2, <2>3
<1>4. \A i \in 1..m : i >= p => Earlier(e, h[i])
  <2> SUFFICES ASSUME NEW i \in 1..m, i >= p
               PROVE  Earlier(e, h[i])
    OBVIOUS
  <2>1. p \in 1..m /\ Earlier(e, h[p])
    BY <1>2, <1>3
  <2>2. i = p \/ Earlier(h[p], h[i])
    BY <1>2, <2>1
  <2> QED
    BY <1>2, <2>1, <2>2, EarlierIsOrder
<1> DEFINE t == [i \in 1..m + 1 |-> IF i < p THEN h[i] ELSE IF i = p THEN e ELSE h[i - 1]]
<1>5. t \in [1..m + 1 -> S]
  <2> SUFFICES ASSUME NEW i \in 1..m + 1
               PROVE  t[i] \in S
    OBVIOUS
  <2>1. (i < p => i \in 1..m) /\ (i > p => i - 1 \in 1..m)
    BY <1>2, <1>3
  <2>2. \A j \in 1..m : h[j] \in S
    BY <1>1
  <2>3. e \in S
    BY <1>1
  <2> QED
    BY <1>2, <1>3, <2>1, <2>2, <2>3
<1>6. \A x \in S : \E i \in 1..m + 1 : t[i] = x
  <2> SUFFICES ASSUME NEW x \in S
               PROVE  \E i \in 1..m + 1 : t[i] = x
    OBVIOUS
  <2>1. CASE x = e
    BY <1>3, <2>1
  <2>2. CASE \E j \in 1..m : x = h[j]
    <3>1. PICK j \in 1..m : x = h[j]
      BY <2>2
    <3>2. CASE j < p
      <4>1. j \in 1..m + 1 /\ t[j] = h[j]
        BY <1>2, <3>1, <3>2
      <4> QED
        BY <3>1, <4>1
    <3>3. CASE ~(j < p)
      <4>1. /\ j + 1 \in 1..m + 1 /\ ~(j + 1 < p) /\ j + 1 # p /\ (j + 1) - 1 = j
        BY <1>2, <1>3, <3>1, <3>3
      <4>2. t[j + 1] = h[j]
        BY <4>1
      <4> QED
        BY <3>1, <4>1, <4>2
    <3> QED
      BY <3>2, <3>3
  <2> QED
    BY <1>1, <2>1, <2>2
<1>7. ASSUME NEW i \in 1..m + 1, NEW j \in 1..m + 1, i < j
      PROVE  Earlier(t[i], t[j])
  <2>1. CASE j < p
    <3>1. i \in 1..m /\ j \in 1..m /\ t[i] = h[i] /\ t[j] = h[j]
      BY <1>2, <1>3, <1>7, <2>1
    <3> HIDE DEF t
    <3> QED
      BY <1>2, <1>7, <3>1
  <2>2. CASE j = p
    <3>1. i \in 1..m /\ t[i] = h[i] /\ t[j] = e /\ i < p
      BY <1>2, <1>3, <1>7, <2>2
    <3> HIDE DEF t
    <3> QED
      BY <1>3, <3>1
  <2>3. CASE j > p /\ i < p
    <3>1. i \in 1..m /\ j - 1 \in 1..m /\ t[i] = h[i] /\ t[j] = h[j - 1] /\ i < j - 1
      BY <1>2, <1>3, <1>7, <2>3
    <3> HIDE DEF t
    <3> QED
      BY <1>2, <3>1
  <2>4. CASE i = p
    <3>1. j - 1 \in 1..m /\ t[i] = e /\ t[j] = h[j - 1] /\ j - 1 >= p
      BY <1>2, <1>3, <1>7, <2>4
    <3> HIDE DEF t
    <3> QED
      BY <1>4, <3>1
  <2>5. CASE i > p
    <3>1. /\ i - 1 \in 1..m /\ j - 1 \in 1..m /\ i - 1 < j - 1
          /\ t[i] = h[i - 1] /\ t[j] = h[j - 1]
      BY <1>2, <1>3, <1>7, <2>5
    <3> HIDE DEF t
    <3> QED
      BY <1>2, <3>1
  <2> QED
    BY <1>2, <1>3, <1>7, <2>1, <2>2, <2>3, <2>4, <2>5
<1>8. m + 1 \in Nat
  BY <1>2
<1> HIDE DEF t
<1> QED
  BY <1>1, <1>2, <1>5, <1>6, <1>7, <1>8, IsChronological DEF S

\* A run that comes to append always has a history to append to and a result
\* (appendRuntimeScoreHistory sorts whatever it is given).
THEOREM AppendingSucceeds ==
  Spec => [](step = "append" => Appended(local, Entry(running, measured)) # {})
<1>1. ASSUME HistoryInv, step = "append"
      PROVE  Appended(local, Entry(running, measured)) # {}
  <2> DEFINE e == Entry(running, measured)
  <2>1. e \in Records /\ Digested(e) /\ GoodHistory(local)
    BY <1>1, EntryIs DEF HistoryInv
  <2> HIDE DEF e
  <2>2. Chronological(Others(local, e) \cup {e}) # {}
    BY <1>1, <2>1, ReplacedIsInOrder, InsertedIsInOrder
  <2> QED
    BY <2>2 DEF Appended, e
<1> QED
  BY <1>1, HistoryInit, HistoryStep, PTL DEF Spec
=============================================================================
