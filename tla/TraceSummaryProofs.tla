------------------------- MODULE TraceSummaryProofs -------------------------
(***************************************************************************)
(* Proofs about TraceSummary for traces of any length, all limits and any  *)
(* names.                                                                  *)
(***************************************************************************)
EXTENDS TraceSummary, SequenceTheorems, FiniteSetTheorems, FunctionTheorems, TLAPS

-----------------------------------------------------------------------------
(* The library's induction theorems take an operator; its principle of minimal
   elements takes a set, and gives the least number of a set of numbers.       *)

\* The order of numbers is well-founded.
LEMMA MinimalNatural ==
  ASSUME NEW T, T \subseteq Nat, T # {}
  PROVE  \E x \in T : \A y \in T : ~(<<y, x>> \in OpToRel(<, Nat))
  BY WFMin, NatLessThanWellFounded

\* What the relation made of < holds of.
LEMMA LessIsRelated == \A x, y \in Nat : y < x => <<y, x>> \in OpToRel(<, Nat)
  BY DEF OpToRel

\* Every set of numbers that is not empty has a least element.
LEMMA LeastNatural ==
  ASSUME NEW T, T \subseteq Nat, T # {}
  PROVE  \E x \in T : \A y \in T : x <= y
<1>1. \E x \in T : \A y \in T : ~(y < x)
  <2>1. PICK x \in T : \A y \in T : ~(<<y, x>> \in OpToRel(<, Nat))
    BY MinimalNatural
  <2>2. ASSUME NEW y \in T
        PROVE  ~(y < x)
    BY <2>1, LessIsRelated, Zenon
  <2> QED
    BY <2>2, Zenon
<1> QED
  BY <1>1

\* Max returns an element that none exceeds.
LEMMA MaxIs ==
  ASSUME NEW S, S \subseteq Nat, NEW m \in S, \A y \in S : y <= m
  PROVE  Max(S) = m
<1>1. m \in S /\ \A y \in S : m >= y
  OBVIOUS
<1>2. \A x \in S : (\A y \in S : x >= y) => x = m
  BY <1>1
<1> QED
  BY <1>1, <1>2, Zenon DEF Max

\* A bounded set of numbers that is not empty has such an element.
LEMMA MaxExists ==
  ASSUME NEW S, S \subseteq Nat, S # {}, NEW n \in Nat, \A y \in S : y <= n
  PROVE  Max(S) \in S /\ \A y \in S : y <= Max(S)
<1> DEFINE T == {b \in Nat : \A y \in S : y <= b}
<1>1. T \subseteq Nat /\ n \in T
  OBVIOUS
<1>2. PICK m \in T : \A b \in T : m <= b
  BY <1>1, LeastNatural
<1>3. m \in S
  <2> SUFFICES ASSUME m \notin S
               PROVE  FALSE
    OBVIOUS
  <2>1. PICK y \in S : TRUE
    OBVIOUS
  <2>2. m - 1 \in Nat /\ \A z \in S : z <= m - 1
    BY <1>2, <2>1
  <2> QED
    BY <1>2, <2>2
<1> QED
  BY <1>2, <1>3, MaxIs
Aggregate == [total : Nat, longest : Nat, occurrences : Nat]

LEMMA MaxOfTwo ==
  ASSUME NEW a \in Nat, NEW b \in Nat
  PROVE  Max({a, b}) = IF b > a THEN b ELSE a
<1> DEFINE M == {a, b}
           m == IF b > a THEN b ELSE a
<1>1. M \subseteq Nat /\ m \in M /\ \A y \in M : y <= m
  OBVIOUS
<1> HIDE DEF M, m
<1>2. Max(M) = m
  BY <1>1, MaxIs
<1> QED
  BY <1>2 DEF M, m

\* What Update does to each field.
LEMMA UpdateIs ==
  ASSUME NEW a \in Aggregate, NEW d \in Nat
  PROVE  /\ Update(a, d) \in Aggregate
         /\ Update(a, d).total = a.total + d
         /\ Update(a, d).occurrences = a.occurrences + 1
         /\ Update(a, d).longest = IF d > a.longest THEN d ELSE a.longest
<1>1. ASSUME NEW b, b = Update(a, d)
      PROVE  b = [total |-> a.total + d, longest |-> Max({a.longest, d}),
                  occurrences |-> a.occurrences + 1]
  BY <1>1 DEF Update, Add, Aggregate
<1>2. a.longest \in Nat /\ Max({a.longest, d}) = IF d > a.longest THEN d ELSE a.longest
  BY MaxOfTwo DEF Aggregate
<1> QED
  BY <1>1, <1>2 DEF Aggregate
-----------------------------------------------------------------------------
(* Framing. *)

\* What an enclosed event encloses is enclosed.
LEMMA EnclosesIsTransitive ==
  ASSUME NEW a \in Event, NEW b \in Event, NEW c \in Event, Encloses(a, b), Encloses(b, c)
  PROVE  Encloses(a, c)
  BY DEF Encloses, Event

\* An event that overlaps e without enclosing it is not missed: what it encloses and
\* starts no earlier than e, e encloses as well.
LEMMA OverlapIsSuperseded ==
  ASSUME NEW p \in Event, NEW e \in Event, NEW f \in Event,
         ~Encloses(p, e), Encloses(p, f), f.start >= e.start
  PROVE  Encloses(e, f)
  BY DEF Encloses, Event

\* The part of the stack that is left are the events on it that enclose e.
LEMMA EnclosingIs ==
  ASSUME NEW e \in Event, stack \in Seq(Nat),
         \A k \in 1..Len(stack) : events[stack[k]] \in Event,
         \A k, l \in 1..Len(stack) : k < l => Encloses(events[stack[k]], events[stack[l]])
  PROVE  \E m \in 0..Len(stack) :
           /\ Enclosing(e) = SubSeq(stack, 1, m)
           /\ \A k \in 1..Len(stack) : Encloses(events[stack[k]], e) <=> k <= m
<1> DEFINE K == {k \in 1..Len(stack) : Encloses(events[stack[k]], e)}
           m == Max({0} \cup K)
<1>1. m \in {0} \cup K /\ \A k \in {0} \cup K : k <= m
  <2> DEFINE S == {0} \cup K
  <2>1. S \subseteq Nat /\ S # {} /\ Len(stack) \in Nat /\ \A k \in S : k <= Len(stack)
    OBVIOUS
  <2> HIDE DEF S
  <2>2. Max(S) \in S /\ \A k \in S : k <= Max(S)
    BY <2>1, MaxExists
  <2> QED
    BY <2>2 DEF S
<1>2. Enclosing(e) = SubSeq(stack, 1, m)
  BY DEF Enclosing
<1> HIDE DEF m
<1>3. m \in 0..Len(stack)
  BY <1>1
<1>4. ASSUME NEW k \in 1..Len(stack)
      PROVE  Encloses(events[stack[k]], e) <=> k <= m
  <2>1. CASE Encloses(events[stack[k]], e)
    BY <1>1, <2>1
  <2>2. CASE k <= m
    <3>1. m \in 1..Len(stack) /\ Encloses(events[stack[m]], e)
      BY <1>1, <2>2
    <3>2. CASE k = m
      BY <3>1, <3>2
    <3>3. CASE k < m
      BY <3>1, <3>3, EnclosesIsTransitive
    <3> QED
      BY <1>3, <2>2, <3>2, <3>3
  <2> QED
    BY <2>1, <2>2
<1> QED
  BY <1>2, <1>3, <1>4

\* The loop so far: the events on the stack enclose each other, and whatever an event
\* that was handled encloses from here on, the stack holds it or a later one that
\* encloses it as well.
Handled ==
  /\ events \in Seq(Event) /\ Sorted(events)
  /\ index \in 0..Len(events)

Nested ==
  /\ stack \in Seq(Nat)
  /\ \A k \in 1..Len(stack) : stack[k] \in 1..index
  /\ \A k, l \in 1..Len(stack) :
       k < l => stack[k] < stack[l] /\ Encloses(events[stack[k]], events[stack[l]])

Superseded ==
  \A j \in 1..index, f \in Event :
    f.start >= events[index].start /\ Encloses(events[j], f) =>
      \E k \in 1..Len(stack) : stack[k] >= j /\ Encloses(events[stack[k]], f)

Framed ==
  /\ parent \in Seq(Nat) /\ Len(parent) = index
  /\ FramedUnderInnermost

FramingInv == Handled /\ Nested /\ Superseded /\ Framed

\* Before the first event the stack is empty.
LEMMA FramingInit == SummaryInit => FramingInv
<1> SUFFICES ASSUME SummaryInit
             PROVE  FramingInv
  OBVIOUS
<1>1. index = 0 /\ stack = <<>> /\ parent = <<>> /\ events \in Traces
  BY DEF SummaryInit, Init
<1>2. Handled
  <2>1. PICK n \in 0..MaxEvents : events \in [1..n -> Event]
    BY <1>1 DEF Traces
  <2>2. events \in Seq(Event) /\ Len(events) \in Nat
    BY <2>1, IsASeq, TraceAssumption DEF TraceAssumption
  <2>3. Sorted(events)
    BY <1>1 DEF Traces
  <2> QED
    BY <1>1, <2>2, <2>3 DEF Handled
<1>3. Nested /\ Superseded /\ Framed
  BY <1>1 DEF Nested, Superseded, Framed, FramedUnderInnermost
<1> QED
  BY <1>2, <1>3 DEF FramingInv

\* The shape of a round: m of the events on the stack are left below the new one.
LEMMA Round ==
  ASSUME FramingInv, HandleEvent
  PROVE  /\ index + 1 \in 1..Len(events) /\ events' = events /\ index' = index + 1
         /\ \E m \in 0..Len(stack) :
              /\ \A k \in 1..Len(stack) :
                   Encloses(events[stack[k]], events[index + 1]) <=> k <= m
              /\ Enclosing(events[index + 1]) \in Seq(Nat)
              /\ Len(Enclosing(events[index + 1])) = m
              /\ \A k \in 1..m : Enclosing(events[index + 1])[k] = stack[k]
              /\ stack' \in Seq(Nat) /\ Len(stack') = m + 1
              /\ stack'[m + 1] = index + 1 /\ \A k \in 1..m : stack'[k] = stack[k]
              /\ parent' = Append(parent, IF m = 0 THEN 0 ELSE stack[m])
<1> DEFINE e == events[index + 1]
<1>1. index < Len(events) /\ events' = events /\ index' = index + 1
  BY DEF HandleEvent
<1>2. index + 1 \in 1..Len(events) /\ e \in Event
  BY <1>1 DEF FramingInv, Handled
<1>3. \A k \in 1..Len(stack) : events[stack[k]] \in Event
  BY DEF FramingInv, Handled, Nested
<1>4. stack \in Seq(Nat) /\ Len(stack) \in Nat
  BY DEF FramingInv, Nested
<1> HIDE DEF e
<1>5. PICK m \in 0..Len(stack) :
        /\ Enclosing(e) = SubSeq(stack, 1, m)
        /\ \A k \in 1..Len(stack) : Encloses(events[stack[k]], e) <=> k <= m
  BY <1>2, <1>3, <1>4, EnclosingIs DEF FramingInv, Nested
<1>6. /\ stack' = Append(Enclosing(e), index + 1)
      /\ parent' = Append(parent, IF Enclosing(e) = <<>> THEN 0
                                  ELSE Enclosing(e)[Len(Enclosing(e))])
  BY DEF HandleEvent, e
<1>7. /\ Enclosing(e) \in Seq(Nat) /\ Len(Enclosing(e)) = m
      /\ \A k \in 1..m : Enclosing(e)[k] = stack[k]
  BY <1>4, <1>5
<1>8. /\ stack' \in Seq(Nat) /\ Len(stack') = m + 1
      /\ stack'[m + 1] = index + 1 /\ \A k \in 1..m : stack'[k] = stack[k]
  BY <1>2, <1>6, <1>7
<1>9. Enclosing(e) = <<>> <=> m = 0
  BY <1>7
<1>10. parent' = Append(parent, IF m = 0 THEN 0 ELSE stack[m])
  <2>1. CASE m = 0
    BY <1>6, <1>9, <2>1
  <2>2. CASE m # 0
    BY <1>6, <1>7, <1>9, <2>2
  <2> QED
    BY <2>1, <2>2
<1> QED
  BY <1>1, <1>2, <1>5, <1>7, <1>8, <1>10 DEF e

\* A round keeps the stack nested.
LEMMA RoundNested ==
  ASSUME FramingInv, HandleEvent
  PROVE  Nested'
<1>1. PICK m \in 0..Len(stack) :
        /\ \A k \in 1..Len(stack) : Encloses(events[stack[k]], events[index + 1]) <=> k <= m
        /\ stack' \in Seq(Nat) /\ Len(stack') = m + 1
        /\ stack'[m + 1] = index + 1 /\ \A k \in 1..m : stack'[k] = stack[k]
  BY Round
<1>2. index \in Nat /\ events' = events /\ index' = index + 1 /\ Len(stack) \in Nat
  BY Round DEF FramingInv, Handled, Nested
<1>3. ASSUME NEW k \in 1..Len(stack')
      PROVE  stack'[k] \in 1..index'
  <2>1. CASE k = m + 1
    BY <1>1, <1>2, <2>1
  <2>2. CASE k \in 1..m
    <3>1. k \in 1..Len(stack) /\ stack'[k] = stack[k]
      BY <1>1, <1>2, <2>2
    <3>2. stack[k] \in 1..index
      BY <3>1 DEF FramingInv, Nested
    <3> QED
      BY <1>2, <3>1, <3>2
  <2> QED
    BY <1>1, <2>1, <2>2
<1>4. ASSUME NEW k \in 1..Len(stack'), NEW l \in 1..Len(stack'), k < l
      PROVE  stack'[k] < stack'[l] /\ Encloses(events[stack'[k]], events[stack'[l]])
  <2>1. k \in 1..m /\ k \in 1..Len(stack) /\ stack'[k] = stack[k]
    BY <1>1, <1>2, <1>4
  <2>2. CASE l = m + 1
    <3>1. stack[k] \in 1..index
      BY <2>1 DEF FramingInv, Nested
    <3> QED
      BY <1>1, <1>2, <2>1, <2>2, <3>1
  <2>3. CASE l \in 1..m
    <3>1. l \in 1..Len(stack) /\ stack'[l] = stack[l]
      BY <1>1, <1>2, <2>3
    <3> QED
      BY <1>4, <2>1, <3>1 DEF FramingInv, Nested
  <2> QED
    BY <1>1, <2>2, <2>3
<1> QED
  BY <1>1, <1>2, <1>3, <1>4 DEF Nested, Encloses

\* What a round pops, the new event or what is left below it stands in for.
LEMMA RoundSuperseded ==
  ASSUME FramingInv, HandleEvent
  PROVE  Superseded'
<1> DEFINE e == events[index + 1]
<1>1. PICK m \in 0..Len(stack) :
        /\ \A k \in 1..Len(stack) : Encloses(events[stack[k]], e) <=> k <= m
        /\ Len(stack') = m + 1
        /\ stack'[m + 1] = index + 1 /\ \A k \in 1..m : stack'[k] = stack[k]
  BY Round
<1>2. /\ index \in Nat /\ index + 1 \in 1..Len(events) /\ e \in Event
      /\ events' = events /\ index' = index + 1 /\ Len(stack) \in Nat
  BY Round DEF FramingInv, Handled, Nested
<1>3. ASSUME NEW j \in 1..index + 1, NEW f \in Event, f.start >= e.start,
             Encloses(events[j], f)
      PROVE  \E k \in 1..m + 1 : stack'[k] >= j /\ Encloses(events[stack'[k]], f)
  <2>1. CASE j = index + 1
    BY <1>1, <1>2, <1>3, <2>1
  <2>2. CASE j \in 1..index
    <3>1. f.start >= events[index].start
      <4>1. events[index] \in Event /\ Before(events[index], e)
        BY <1>2, <2>2 DEF FramingInv, Handled, Sorted
      <4> QED
        BY <1>2, <1>3, <4>1 DEF Before, Event
    <3>2. PICK k \in 1..Len(stack) : stack[k] >= j /\ Encloses(events[stack[k]], f)
      BY <1>3, <2>2, <3>1 DEF FramingInv, Superseded
    <3>3. CASE k <= m
      BY <1>1, <3>2, <3>3
    <3>4. CASE ~(k <= m)
      <4>1. events[stack[k]] \in Event /\ ~Encloses(events[stack[k]], e)
        BY <1>1, <3>4 DEF FramingInv, Handled, Nested
      <4>2. Encloses(e, f)
        <5> HIDE DEF e
        <5> QED
          BY <1>2, <1>3, <3>2, <4>1, OverlapIsSuperseded
      <4>3. m + 1 \in 1..m + 1 /\ stack'[m + 1] >= j
        BY <1>1, <1>2, <2>2
      <4> QED
        BY <1>1, <4>2, <4>3
    <3> QED
      BY <3>3, <3>4
  <2> QED
    BY <1>2, <2>1, <2>2
<1> QED
  BY <1>1, <1>2, <1>3 DEF Superseded, Encloses

\* The top of what is left is the latest event that encloses the new one.
LEMMA RoundFramed ==
  ASSUME FramingInv, HandleEvent
  PROVE  Framed'
<1> DEFINE e == events[index + 1]
           Around(i) == {j \in 1..i - 1 : Encloses(events[j], events[i])}
<1>1. PICK m \in 0..Len(stack) :
        /\ \A k \in 1..Len(stack) : Encloses(events[stack[k]], e) <=> k <= m
        /\ parent' = Append(parent, IF m = 0 THEN 0 ELSE stack[m])
  BY Round
<1>2. /\ index \in Nat /\ index + 1 \in 1..Len(events) /\ e \in Event
      /\ events' = events /\ index' = index + 1 /\ Len(stack) \in Nat
  BY Round DEF FramingInv, Handled, Nested
<1>3. /\ parent' \in Seq(Nat) /\ Len(parent') = index + 1
      /\ \A i \in 1..index : parent'[i] = parent[i]
      /\ parent'[index + 1] = IF m = 0 THEN 0 ELSE stack[m]
  BY <1>1, <1>2 DEF FramingInv, Framed, Nested
<1>4. ASSUME NEW j \in 1..index, Encloses(events[j], e)
      PROVE  m # 0 /\ j <= stack[m]
  <2>1. e.start >= events[index].start
    <3>1. events[index] \in Event /\ Before(events[index], e)
      BY <1>2 DEF FramingInv, Handled, Sorted
    <3> QED
      BY <1>2, <3>1 DEF Before, Event
  <2>2. PICK k \in 1..Len(stack) : stack[k] >= j /\ Encloses(events[stack[k]], e)
    BY <1>2, <1>4, <2>1 DEF FramingInv, Superseded
  <2>3. k <= m
    BY <1>1, <2>2
  <2>4. stack[k] <= stack[m]
    BY <1>2, <2>2, <2>3 DEF FramingInv, Nested
  <2> QED
    BY <1>2, <2>2, <2>3, <2>4 DEF FramingInv, Nested
<1>5. parent'[index + 1] = Max({0} \cup Around(index + 1))
  <2>1. CASE m = 0
    <3>1. {0} \cup Around(index + 1) = {0}
      BY <1>2, <1>4, <2>1
    <3> DEFINE S == {0}
    <3>2. Max(S) = 0
      <4>1. S \subseteq Nat /\ 0 \in S /\ \A y \in S : y <= 0
        OBVIOUS
      <4> HIDE DEF S
      <4> QED
        BY <4>1, MaxIs
    <3> QED
      BY <1>3, <2>1, <3>1, <3>2
  <2>2. CASE m # 0
    <3>1. stack[m] \in 1..index /\ Encloses(events[stack[m]], e)
      BY <1>1, <1>2, <2>2 DEF FramingInv, Nested
    <3>2. /\ stack[m] \in {0} \cup Around(index + 1)
          /\ {0} \cup Around(index + 1) \subseteq Nat
          /\ \A y \in {0} \cup Around(index + 1) : y <= stack[m]
      BY <1>2, <1>4, <3>1
    <3> HIDE DEF Around
    <3>3. Max({0} \cup Around(index + 1)) = stack[m]
      BY <3>2, MaxIs
    <3> QED
      BY <1>3, <2>2, <3>3
  <2> QED
    BY <2>1, <2>2
<1>6. \A i \in 1..index : parent[i] = Max({0} \cup Around(i))
  BY DEF FramingInv, Framed, FramedUnderInnermost
<1>7. \A i \in 1..index + 1 : parent'[i] = Max({0} \cup Around(i))
  <2> HIDE DEF Around
  <2>1. ASSUME NEW i \in 1..index
        PROVE  parent'[i] = Max({0} \cup Around(i))
    BY <1>3, <1>6
  <2>2. \A i \in 1..index + 1 : i \in 1..index \/ i = index + 1
    BY <1>2
  <2> QED
    BY <1>5, <2>1, <2>2
<1> QED
  BY <1>2, <1>3, <1>7 DEF Framed, FramedUnderInnermost, Encloses

\* Only HandleEvent touches the stack; the rest of the summary leaves it alone.
LEMMA FramingStep == FramingInv /\ [SummaryNext]_summaryVars => FramingInv'
<1> SUFFICES ASSUME FramingInv, [SummaryNext]_summaryVars
             PROVE  FramingInv'
  OBVIOUS
<1>1. CASE HandleEvent
  <2>1. events' = events /\ index' = index + 1 /\ index + 1 \in 1..Len(events)
    BY <1>1, Round
  <2>2. Handled'
    BY <2>1 DEF FramingInv, Handled, Sorted, Before, Duration
  <2> QED
    BY <1>1, <2>2, RoundNested, RoundSuperseded, RoundFramed DEF FramingInv
<1>2. CASE UNCHANGED <<events, index, stack, parent>>
  BY <1>2 DEF FramingInv, Handled, Sorted, Before, Duration, Nested, Superseded, Framed,
              FramedUnderInnermost, Encloses
<1>3. HandleEvent \/ UNCHANGED <<events, index, stack, parent>>
  BY DEF SummaryNext, PairBoundaries, CountMarkers, FrameEvents, ReportMarkers, Next, Finish,
         summaryVars, vars
<1> QED
  BY <1>1, <1>2, <1>3

\* For traces of any length, times and names: every event of the main thread is framed
\* under the latest earlier event that encloses it, so the stack of the one pass
\* computes what a search of all earlier events would.
THEOREM FramingIsInnermost == SummarySpec => []FramedUnderInnermost
<1>1. FramingInv => FramedUnderInnermost
  BY DEF FramingInv, Framed
<1> QED
  BY <1>1, FramingInit, FramingStep, PTL DEF SummarySpec
-----------------------------------------------------------------------------
(* Long tasks. *)

\* Longer orders the events strictly and totally.
LEMMA LongerIsOrder ==
  ASSUME Handled
  PROVE  /\ \A i \in 1..Len(events) : Duration(events[i]) \in Nat /\ ~Longer(i, i)
         /\ \A i, j \in 1..Len(events) : i = j \/ Longer(i, j) \/ Longer(j, i)
         /\ \A i, j \in 1..Len(events) : Longer(i, j) => ~Longer(j, i)
         /\ \A i, j, k \in 1..Len(events) : Longer(i, j) /\ Longer(j, k) => Longer(i, k)
<1>1. \A i \in 1..Len(events) : Duration(events[i]) \in Nat
  BY DEF Handled, Event, Duration
<1>2. 1..Len(events) \subseteq Nat
  BY DEF Handled
<1> QED
  BY <1>1, <1>2 DEF Longer

\* Among some events one is the shortest.
LEMMA ShortestExists ==
  ASSUME Handled, NEW S, S \subseteq 1..Len(events), S # {}
  PROVE  \E w \in S : \A x \in S \ {w} : Longer(x, w)
<1> DEFINE D == {Duration(events[x]) : x \in S}
<1>1. D \subseteq Nat /\ D # {} /\ Len(events) \in Nat
  <2>1. \A x \in S : Duration(events[x]) \in Nat
    BY LongerIsOrder
  <2>2. D \subseteq Nat
    BY <2>1
  <2>3. D # {}
    OBVIOUS
  <2> QED
    BY <2>2, <2>3 DEF Handled
<1>2. PICK d \in D : \A y \in D : d <= y
  <2> HIDE DEF D
  <2> QED
    BY <1>1, LeastNatural
<1> DEFINE T == {x \in S : Duration(events[x]) = d}
<1>3. T # {} /\ T \subseteq Nat /\ \A y \in T : y <= Len(events)
  BY <1>1, <1>2
<1>4. PICK w \in T : \A y \in T : y <= w
  <2> HIDE DEF T
  <2> QED
    BY <1>1, <1>3, MaxExists
<1>5. ASSUME NEW x \in S \ {w}
      PROVE  Longer(x, w)
  <2>1. Duration(events[x]) \in Nat /\ d \in Nat /\ d <= Duration(events[x])
    BY <1>1, <1>2
  <2>2. Duration(events[w]) = d /\ w \in Nat /\ x \in Nat
    BY <1>1, <1>4
  <2>3. CASE Duration(events[x]) = d
    BY <1>4, <2>2, <2>3 DEF Longer
  <2>4. CASE Duration(events[x]) > d
    BY <2>2, <2>4 DEF Longer
  <2> QED
    BY <2>1, <2>3, <2>4
<1> QED
  BY <1>4, <1>5

\* With room for all of them, all tasks are retained.
LEMMA RetainAll ==
  ASSUME Handled, NEW S, S \subseteq 1..Len(events), IsFiniteSet(S),
         Cardinality(S) <= MaxLongTasks
  PROVE  Retain(S) = S
<1>1. ASSUME NEW x \in S
      PROVE  Cardinality({j \in S : Longer(j, x)}) < MaxLongTasks
  <2>1. {j \in S : Longer(j, x)} \in SUBSET (S \ {x})
    BY LongerIsOrder
  <2>2. IsFiniteSet(S \ {x}) /\ Cardinality(S \ {x}) = Cardinality(S) - 1
    BY FS_RemoveElement
  <2>3. /\ IsFiniteSet({j \in S : Longer(j, x)})
        /\ Cardinality({j \in S : Longer(j, x)}) <= Cardinality(S \ {x})
    BY <2>1, <2>2, FS_Subset
  <2> QED
    BY <2>2, <2>3, FS_CardinalityType, TraceAssumption DEF TraceAssumption
<1> QED
  BY <1>1 DEF Retain

\* With one too many the shortest is dropped, and no other.
LEMMA RetainDropsShortest ==
  ASSUME Handled, NEW S, S \subseteq 1..Len(events), IsFiniteSet(S),
         Cardinality(S) = MaxLongTasks + 1,
         NEW w \in S, \A x \in S \ {w} : Longer(x, w)
  PROVE  Retain(S) = S \ {w}
<1>1. {j \in S : Longer(j, w)} = S \ {w}
  BY LongerIsOrder
<1>2. IsFiniteSet(S \ {w}) /\ Cardinality(S \ {w}) = MaxLongTasks
  BY FS_RemoveElement, TraceAssumption DEF TraceAssumption
<1>3. ASSUME NEW x \in S \ {w}
      PROVE  Cardinality({j \in S : Longer(j, x)}) < MaxLongTasks
  <2>1. {j \in S : Longer(j, x)} \in SUBSET ((S \ {w}) \ {x})
    BY LongerIsOrder
  <2>2. /\ IsFiniteSet((S \ {w}) \ {x})
        /\ Cardinality((S \ {w}) \ {x}) = MaxLongTasks - 1
    BY <1>2, FS_RemoveElement
  <2>3. /\ IsFiniteSet({j \in S : Longer(j, x)})
        /\ Cardinality({j \in S : Longer(j, x)}) <= MaxLongTasks - 1
    BY <2>1, <2>2, FS_Subset
  <2> QED
    BY <2>3, FS_CardinalityType, TraceAssumption DEF TraceAssumption
<1>4. ~(Cardinality({j \in S : Longer(j, w)}) < MaxLongTasks)
  <2>1. Cardinality({j \in S : Longer(j, w)}) = MaxLongTasks
    BY <1>1, <1>2, Zenon
  <2> QED
    BY <2>1, TraceAssumption DEF TraceAssumption
<1> DEFINE Kept(x) == Cardinality({j \in S : Longer(j, x)}) < MaxLongTasks
<1>5. Retain(S) = {x \in S : Kept(x)}
  BY DEF Retain
<1>6. ~Kept(w) /\ \A x \in S \ {w} : Kept(x)
  BY <1>3, <1>4
<1> HIDE DEF Kept
<1> QED
  BY <1>5, <1>6

\* The long ones of the top-level tasks.
LongOnes == {i \in TopLevel : Duration(events[i]) >= LongTask}

\* The retained tasks are the longest, as many as there is room for, and the counters
\* are those of all.
LongestRetained ==
  /\ longTasks \subseteq LongOnes /\ IsFiniteSet(LongOnes)
  /\ Cardinality(longTasks) =
       IF Cardinality(LongOnes) <= MaxLongTasks THEN Cardinality(LongOnes) ELSE MaxLongTasks
  /\ \A i \in longTasks, j \in LongOnes \ longTasks : Longer(i, j)

LongCounted ==
  /\ long \in Aggregate
  /\ long.occurrences = Cardinality(LongOnes)
  /\ \A i \in LongOnes : Duration(events[i]) <= long.longest
  /\ IF LongOnes = {} THEN long.longest = 0
     ELSE \E i \in LongOnes : Duration(events[i]) = long.longest

LongTaskInv == LongestRetained /\ LongCounted

LEMMA LongTaskInit == SummaryInit => LongTaskInv
<1> SUFFICES ASSUME SummaryInit
             PROVE  LongTaskInv
  OBVIOUS
<1>1. LongOnes = {} /\ longTasks = {} /\ long = NoAggregate
  BY DEF SummaryInit, Init, LongOnes, TopLevel
<1> QED
  BY <1>1, FS_EmptySet, TraceAssumption
  DEF LongTaskInv, LongestRetained, LongCounted, NoAggregate, Aggregate, TraceAssumption

\* A round adds its event to the long ones exactly if it retains it.
LEMMA RoundLong ==
  ASSUME FramingInv, HandleEvent
  PROVE  \/ /\ LongOnes' = LongOnes /\ longTasks' = longTasks /\ long' = long
         \/ /\ LongOnes' = LongOnes \cup {index + 1}
            /\ longTasks' = Retain(longTasks \cup {index + 1})
            /\ long' = Update(long, Duration(events[index + 1]))
<1> DEFINE e == events[index + 1]
<1>1. PICK m \in 0..Len(stack) :
        /\ Enclosing(e) \in Seq(Nat) /\ Len(Enclosing(e)) = m
        /\ parent' = Append(parent, IF m = 0 THEN 0 ELSE stack[m])
  BY Round
<1>2. index \in Nat /\ events' = events /\ index' = index + 1
  BY Round DEF FramingInv, Handled
<1>3. Enclosing(e) = <<>> <=> m = 0
  BY <1>1
<1>4. m # 0 => stack[m] # 0
  BY <1>1 DEF FramingInv, Nested
<1>5. /\ \A i \in 1..index : parent'[i] = parent[i]
      /\ parent'[index + 1] = 0 <=> m = 0
  BY <1>1, <1>2, <1>4 DEF FramingInv, Framed
<1>6. TopLevel' = IF m = 0 THEN TopLevel \cup {index + 1} ELSE TopLevel
  BY <1>2, <1>5 DEF TopLevel
<1>7. /\ long' = IF m = 0 /\ Duration(e) >= LongTask
                   THEN Update(long, Duration(e)) ELSE long
      /\ longTasks' = IF m = 0 /\ Duration(e) >= LongTask
                        THEN Retain(longTasks \cup {index + 1}) ELSE longTasks
  BY <1>3 DEF HandleEvent
<1>8. LongOnes' = IF m = 0 /\ Duration(e) >= LongTask
                    THEN LongOnes \cup {index + 1} ELSE LongOnes
  BY <1>2, <1>6 DEF LongOnes, Duration
<1> QED
  BY <1>7, <1>8

LEMMA RoundLongest ==
  ASSUME FramingInv, LongTaskInv, HandleEvent,
         LongOnes' = LongOnes \cup {index + 1},
         longTasks' = Retain(longTasks \cup {index + 1})
  PROVE  LongestRetained'
<1> DEFINE i == index + 1
           S == longTasks \cup {i}
<1>1. /\ Handled /\ index \in Nat /\ i \in 1..Len(events) /\ events' = events
      /\ LongOnes \subseteq 1..index
  BY Round DEF FramingInv, Handled, LongOnes, TopLevel
<1>2. /\ IsFiniteSet(longTasks) /\ Cardinality(longTasks) \in Nat
      /\ Cardinality(longTasks) <= Cardinality(LongOnes)
      /\ Cardinality(longTasks) = Cardinality(LongOnes) => longTasks = LongOnes
      /\ Cardinality(LongOnes) \in Nat
  BY FS_Subset, FS_CardinalityType DEF LongTaskInv, LongestRetained
<1>3. i \notin LongOnes /\ i \notin longTasks
  BY <1>1 DEF LongTaskInv, LongestRetained
<1>4. /\ IsFiniteSet(LongOnes') /\ Cardinality(LongOnes') = Cardinality(LongOnes) + 1
      /\ IsFiniteSet(S) /\ Cardinality(S) = Cardinality(longTasks) + 1
  BY <1>2, <1>3, FS_AddElement DEF LongTaskInv, LongestRetained
<1>5. S \subseteq 1..Len(events) /\ S # {} /\ LongOnes' \subseteq 1..Len(events)
  BY <1>1 DEF LongTaskInv, LongestRetained, Handled
<1>6. \A x, y : Longer(x, y)' <=> Longer(x, y)
  BY <1>1 DEF Longer, Duration
<1>7. MaxLongTasks \in Nat
  BY TraceAssumption DEF TraceAssumption
<1> HIDE DEF i, S
<1>8. CASE Cardinality(LongOnes) < MaxLongTasks
  <2>1. longTasks = LongOnes
    BY <1>2, <1>8 DEF LongTaskInv, LongestRetained
  <2>2. Cardinality(S) <= MaxLongTasks /\ Cardinality(LongOnes') <= MaxLongTasks
    BY <1>2, <1>4, <1>7, <1>8
  <2>3. Retain(S) = S
    BY <1>1, <1>4, <1>5, <2>2, RetainAll
  <2>4. longTasks' = LongOnes'
    BY <2>1, <2>3 DEF S, i
  <2> QED
    BY <1>4, <2>2, <2>4 DEF LongestRetained
<1>9. CASE Cardinality(LongOnes) >= MaxLongTasks
  <2>1. Cardinality(longTasks) = MaxLongTasks
    BY <1>2, <1>7, <1>9 DEF LongTaskInv, LongestRetained
  <2>2. PICK w \in S : \A x \in S \ {w} : Longer(x, w)
    BY <1>1, <1>5, ShortestExists
  <2>3. longTasks' = S \ {w}
    BY <1>1, <1>4, <1>5, <2>1, <2>2, RetainDropsShortest DEF S, i
  <2>4. Cardinality(S \ {w}) = MaxLongTasks
    BY <1>4, <1>7, <2>1, FS_RemoveElement
  <2>5. S \subseteq LongOnes' /\ LongOnes' \ (S \ {w}) = (LongOnes \ longTasks) \cup {w}
    BY <1>3 DEF S, i, LongTaskInv, LongestRetained
  <2>6. ASSUME NEW x \in S \ {w}, NEW y \in (LongOnes \ longTasks) \cup {w}
        PROVE  Longer(x, y)
    <3>1. CASE y = w
      BY <2>2, <3>1
    <3>2. CASE y # w /\ x \in longTasks
      BY <3>2 DEF LongTaskInv, LongestRetained
    <3>3. CASE y # w /\ x \notin longTasks
      <4>1. w \in longTasks /\ y \in LongOnes \ longTasks
        BY <3>3 DEF S
      <4>2. Longer(x, w) /\ Longer(w, y)
        BY <2>2, <4>1 DEF LongTaskInv, LongestRetained
      <4>3. {x, w, y} \subseteq 1..Len(events)
        BY <1>5, <4>1
      <4> QED
        BY <1>1, <4>2, <4>3, LongerIsOrder
    <3> QED
      BY <3>1, <3>2, <3>3
  <2> QED
    BY <1>2, <1>4, <1>6, <1>7, <1>9, <2>3, <2>4, <2>5, <2>6 DEF LongestRetained
<1> QED
  BY <1>2, <1>7, <1>8, <1>9

LEMMA RoundCounted ==
  ASSUME FramingInv, LongTaskInv, HandleEvent,
         LongOnes' = LongOnes \cup {index + 1},
         long' = Update(long, Duration(events[index + 1]))
  PROVE  LongCounted'
<1> DEFINE i == index + 1
           d == Duration(events[i])
<1>1. /\ Handled /\ index \in Nat /\ i \in 1..Len(events) /\ events' = events
      /\ LongOnes \subseteq 1..index
  BY Round DEF FramingInv, Handled, LongOnes, TopLevel
<1>2. d \in Nat /\ \A j \in LongOnes : Duration(events[j]) \in Nat
  BY <1>1, LongerIsOrder
<1>3. Cardinality(LongOnes') = Cardinality(LongOnes) + 1
  <2>1. i \notin LongOnes /\ IsFiniteSet(LongOnes)
    BY <1>1 DEF LongTaskInv, LongestRetained
  <2> QED
    BY <2>1, FS_AddElement
<1>4. \A j : Duration(events'[j]) = Duration(events[j])
  BY <1>1
<1> HIDE DEF i, d
<1>6. /\ long' \in Aggregate
      /\ long'.occurrences = long.occurrences + 1
      /\ long'.longest = IF d > long.longest THEN d ELSE long.longest
  BY <1>2, UpdateIs DEF LongTaskInv, LongCounted, d, i
<1>7. LongOnes' = LongOnes \cup {i} /\ Duration(events[i]) = d
  BY DEF i, d
<1>8. \A j \in LongOnes : Duration(events[j]) <= long.longest
  BY DEF LongTaskInv, LongCounted
<1>9. /\ long.longest \in Nat /\ long.occurrences = Cardinality(LongOnes)
      /\ IF LongOnes = {} THEN long.longest = 0
         ELSE \E j \in LongOnes : Duration(events[j]) = long.longest
  BY DEF LongTaskInv, LongCounted, Aggregate
<1>10. \A j \in LongOnes \cup {i} : Duration(events[j]) <= long'.longest
  BY <1>2, <1>6, <1>7, <1>8, <1>9
<1>11. \E j \in LongOnes \cup {i} : Duration(events[j]) = long'.longest
  <2>1. CASE d > long.longest
    BY <1>6, <1>7, <2>1
  <2>2. CASE ~(d > long.longest) /\ LongOnes # {}
    BY <1>6, <1>9, <2>2
  <2>3. CASE ~(d > long.longest) /\ LongOnes = {}
    BY <1>2, <1>6, <1>7, <1>9, <2>3
  <2> QED
    BY <2>1, <2>2, <2>3
<1> QED
  BY <1>3, <1>4, <1>6, <1>7, <1>9, <1>10, <1>11 DEF LongCounted

LEMMA LongTaskStep ==
  FramingInv /\ LongTaskInv /\ [SummaryNext]_summaryVars => LongTaskInv'
<1> SUFFICES ASSUME FramingInv, LongTaskInv, [SummaryNext]_summaryVars
             PROVE  LongTaskInv'
  OBVIOUS
<1>1. CASE HandleEvent
  <2>1. CASE LongOnes' = LongOnes /\ longTasks' = longTasks /\ long' = long
    <3>1. events' = events
      BY <1>1, Round
    <3> QED
      BY <2>1, <3>1 DEF LongTaskInv, LongestRetained, LongCounted, Longer, Duration
  <2> QED
    BY <1>1, <2>1, RoundLong, RoundLongest, RoundCounted DEF LongTaskInv
<1>2. CASE UNCHANGED <<events, index, parent, longTasks, long>>
  BY <1>2 DEF LongTaskInv, LongestRetained, LongCounted, LongOnes, TopLevel, Longer, Duration
<1>3. HandleEvent \/ UNCHANGED <<events, index, parent, longTasks, long>>
  BY DEF SummaryNext, PairBoundaries, CountMarkers, FrameEvents, ReportMarkers, Next, Finish,
         summaryVars, vars, tasks
<1> QED
  BY <1>1, <1>2, <1>3

LEMMA LongestAreRetained ==
  ASSUME FramingInv, LongTaskInv
  PROVE  LongTasksAreTheLongest
<1>1. /\ Cardinality(LongOnes) \in Nat /\ MaxLongTasks \in Nat
      /\ long.occurrences = Cardinality(LongOnes)
  BY FS_CardinalityType, TraceAssumption
  DEF LongTaskInv, LongestRetained, LongCounted, TraceAssumption
<1>2. Cardinality(longTasks) = Min({MaxLongTasks, long.occurrences})
  <2> DEFINE n == Cardinality(LongOnes)
             m == IF n <= MaxLongTasks THEN n ELSE MaxLongTasks
  <2>1. m \in {MaxLongTasks, n} /\ \A y \in {MaxLongTasks, n} : m <= y
    BY <1>1
  <2>2. \A x \in {MaxLongTasks, n} : (\A y \in {MaxLongTasks, n} : x <= y) => x = m
    BY <1>1
  <2> HIDE DEF n, m
  <2>3. Min({MaxLongTasks, n}) = m
    BY <2>1, <2>2, Zenon DEF Min
  <2> QED
    BY <1>1, <2>3 DEF n, m, LongTaskInv, LongestRetained
<1>3. ASSUME longTasks # {}
      PROVE  long.longest = Max({Duration(events[i]) : i \in longTasks})
  <2> DEFINE D == {Duration(events[i]) : i \in longTasks}
  <2>1. LongOnes \subseteq 1..Len(events) /\ longTasks \subseteq LongOnes
    BY DEF FramingInv, Handled, LongOnes, TopLevel, LongTaskInv, LongestRetained
  <2>2. \A i \in LongOnes : Duration(events[i]) \in Nat
    BY <2>1, LongerIsOrder DEF FramingInv
  <2>3. PICK i \in LongOnes : Duration(events[i]) = long.longest
    BY <1>3, <2>1 DEF LongTaskInv, LongCounted
  <2>4. long.longest \in D
    <3>1. CASE i \in longTasks
      BY <2>3, <3>1
    <3>2. CASE i \notin longTasks
      <4>1. PICK x \in longTasks : TRUE
        BY <1>3
      <4>2. Longer(x, i) /\ Duration(events[x]) <= long.longest
        BY <2>1, <3>2, <4>1 DEF LongTaskInv, LongestRetained, LongCounted
      <4>3. Duration(events[x]) = long.longest
        BY <2>1, <2>2, <2>3, <4>1, <4>2 DEF Longer
      <4> QED
        BY <4>1, <4>3
    <3> QED
      BY <3>1, <3>2
  <2>5. D \subseteq Nat /\ \A y \in D : y <= long.longest
    BY <2>1, <2>2 DEF LongTaskInv, LongCounted
  <2> HIDE DEF D
  <2>6. Max(D) = long.longest
    BY <2>4, <2>5, MaxIs
  <2> QED
    BY <2>6 DEF D
<1> QED
  BY <1>1, <1>2, <1>3 DEF LongTasksAreTheLongest, LongTaskInv, LongestRetained, LongOnes

\* For any limits: the list of long tasks, cut after every event, holds the longest of
\* all long top-level tasks, and the counters are those of all of them.
THEOREM RetainedAreLongest == SummarySpec => []LongTasksAreTheLongest
<1>1. SummaryInit => FramingInv /\ LongTaskInv
  BY FramingInit, LongTaskInit
<1>2. (FramingInv /\ LongTaskInv) /\ [SummaryNext]_summaryVars => (FramingInv /\ LongTaskInv)'
  BY FramingStep, LongTaskStep
<1>3. FramingInv /\ LongTaskInv => LongTasksAreTheLongest
  BY LongestAreRetained
<1> QED
  BY <1>1, <1>2, <1>3, PTL DEF SummarySpec
-----------------------------------------------------------------------------
(* Hot paths.  Ancestry and TimeOf are functions over the events so far; a round makes *)
(* them longer by one, and what is said of them is said of every function that         *)
(* satisfies their recursive equation.                                                 *)

IsAncestry(c) ==
  c = [i \in 0..index |->
         IF i = 0 THEN <<>> ELSE Append(c[parent[i]], events[i].name)]

IsSum(s, set) ==
  s = [i \in 0..index |->
         IF i = 0 THEN 0 ELSE s[i - 1] + (IF i \in set THEN Duration(events[i]) ELSE 0)]

\* An event is framed under an earlier one or under none.
LEMMA ParentIsEarlier ==
  ASSUME FramingInv, NEW i \in 1..index
  PROVE  parent[i] \in 0..i - 1
<1> DEFINE S == {0} \cup {j \in 1..i - 1 : Encloses(events[j], events[i])}
<1>1. S \subseteq Nat /\ S # {} /\ i - 1 \in Nat /\ \A y \in S : y <= i - 1
  BY DEF FramingInv, Handled
<1>2. parent[i] = Max(S)
  BY DEF FramingInv, Framed, FramedUnderInnermost
<1>3. S \subseteq 0..i - 1
  BY DEF FramingInv, Handled
<1> HIDE DEF S
<1> QED
  BY <1>1, <1>2, <1>3, MaxExists

\* What a round does to the functions that Ancestry and TimeOf are chosen from.
LEMMA RoundParent ==
  ASSUME FramingInv, HandleEvent
  PROVE  /\ index \in Nat /\ index' = index + 1 /\ events' = events
         /\ \A i \in 1..index : parent'[i] = parent[i] /\ parent[i] \in 0..i - 1
         /\ parent'[index + 1] \in 0..index
<1>1. PICK m \in 0..Len(stack) : parent' = Append(parent, IF m = 0 THEN 0 ELSE stack[m])
  BY Round
<1>2. index \in Nat /\ index' = index + 1 /\ events' = events
  BY Round DEF FramingInv, Handled
<1>3. (IF m = 0 THEN 0 ELSE stack[m]) \in 0..index
  BY <1>2 DEF FramingInv, Nested
<1> QED
  BY <1>1, <1>2, <1>3, ParentIsEarlier DEF FramingInv, Framed

LEMMA AncestryGrows ==
  ASSUME FramingInv, HandleEvent, NEW c, IsAncestry(c)
  PROVE  \E d : IsAncestry(d)'
<1> DEFINE d == [i \in 0..index + 1 |->
                   IF i = index + 1 THEN Append(c[parent'[i]], events[i].name) ELSE c[i]]
<1>1. /\ index \in Nat /\ index' = index + 1 /\ events' = events
      /\ \A i \in 1..index : parent'[i] = parent[i] /\ parent[i] \in 0..i - 1
      /\ parent'[index + 1] \in 0..index
  BY RoundParent
<1>2. ASSUME NEW i \in 0..index + 1
      PROVE  d[i] = IF i = 0 THEN <<>> ELSE Append(d[parent'[i]], events[i].name)
  <2>1. CASE i = index + 1
    BY <1>1, <2>1
  <2>2. CASE i \in 1..index
    <3>1. c[i] = Append(c[parent[i]], events[i].name)
      <4>1. i \in 0..index /\ i # 0
        BY <1>1, <2>2
      <4> QED
        BY <4>1, Zenon DEF IsAncestry
    <3>2. parent[i] \in 0..index /\ parent'[i] = parent[i] /\ i # 0
      BY <1>1, <2>2
    <3>3. \A j \in 0..index : d[j] = c[j]
      BY <1>1
    <3>4. d[i] = c[i] /\ d[parent[i]] = c[parent[i]]
      BY <1>1, <2>2, <3>2, <3>3
    <3> QED
      BY <1>1, <2>2, <3>1, <3>2, <3>4, Zenon
  <2>3. CASE i = 0
    BY <1>1, <2>3 DEF IsAncestry
  <2> QED
    BY <1>1, <2>1, <2>2, <2>3
<1>3. d = [i \in 0..index + 1 |->
             IF i = 0 THEN <<>> ELSE Append(d[parent'[i]], events[i].name)]
  BY <1>2
<1> HIDE DEF d
<1> QED
  BY <1>1, <1>3 DEF IsAncestry

LEMMA AncestryShrinks ==
  ASSUME FramingInv, HandleEvent, NEW d, IsAncestry(d)'
  PROVE  \E c : /\ IsAncestry(c) /\ \A i \in 0..index : d[i] = c[i]
                /\ d[index + 1] = Append(c[parent'[index + 1]], events[index + 1].name)
<1> DEFINE c == [i \in 0..index |-> d[i]]
<1>1. /\ index \in Nat /\ index' = index + 1 /\ events' = events
      /\ \A i \in 1..index : parent'[i] = parent[i] /\ parent[i] \in 0..i - 1
      /\ parent'[index + 1] \in 0..index
  BY RoundParent
<1>2. d = [i \in 0..index + 1 |->
             IF i = 0 THEN <<>> ELSE Append(d[parent'[i]], events[i].name)]
  BY <1>1 DEF IsAncestry
<1>3. ASSUME NEW i \in 0..index
      PROVE  c[i] = IF i = 0 THEN <<>> ELSE Append(c[parent[i]], events[i].name)
  <2>1. i \in 0..index + 1 /\ (i # 0 => i \in 1..index)
    BY <1>1
  <2>2. d[i] = IF i = 0 THEN <<>> ELSE Append(d[parent'[i]], events[i].name)
    BY <1>2, <2>1, Zenon
  <2>3. i # 0 => parent'[i] = parent[i] /\ parent[i] \in 0..index
    BY <1>1, <2>1
  <2> QED
    BY <2>2, <2>3
<1>4. d[index + 1] = Append(c[parent'[index + 1]], events[index + 1].name)
  <2>1. index + 1 \in 0..index + 1 /\ index + 1 # 0
    BY <1>1
  <2>2. d[index + 1] = Append(d[parent'[index + 1]], events[index + 1].name)
    BY <1>2, <2>1, Zenon
  <2> QED
    BY <1>1, <2>2
<1>5. IsAncestry(c)
  BY <1>3 DEF IsAncestry
<1> QED
  BY <1>4, <1>5

LEMMA SumGrows ==
  ASSUME FramingInv, HandleEvent, NEW set, NEW s, IsSum(s, set)
  PROVE  \E t : IsSum(t, set)'
<1> DEFINE Part(i) == IF i \in set THEN Duration(events[i]) ELSE 0
           t == [i \in 0..index + 1 |-> IF i = index + 1 THEN s[index] + Part(i) ELSE s[i]]
<1>1. index \in Nat /\ index' = index + 1 /\ events' = events
  BY RoundParent
<1>2. \A i \in 0..index : s[i] = IF i = 0 THEN 0 ELSE s[i - 1] + Part(i)
  BY DEF IsSum
<1>3. \A i : (IF i \in set THEN Duration(events'[i]) ELSE 0) = Part(i)
  BY <1>1
<1> HIDE DEF Part
<1>4. t = [i \in 0..index + 1 |-> IF i = 0 THEN 0 ELSE t[i - 1] + Part(i)]
  BY <1>1, <1>2
<1> HIDE DEF t
<1>5. t = [i \in 0..index' |-> IF i = 0 THEN 0 ELSE t[i - 1] + Part(i)]
  BY <1>1, <1>4
<1>6. ASSUME NEW u
      PROVE  IsSum(u, set)' <=>
               u = [i \in 0..index' |->
                      IF i = 0 THEN 0
                      ELSE u[i - 1] + (IF i \in set THEN Duration(events'[i]) ELSE 0)]
  BY DEF IsSum, Duration
<1>7. \A u : IsSum(u, set)' <=> u = [i \in 0..index' |-> IF i = 0 THEN 0 ELSE u[i - 1] + Part(i)]
  BY <1>3, <1>6
<1> QED
  BY <1>5, <1>7

LEMMA SumShrinks ==
  ASSUME FramingInv, HandleEvent, NEW new, NEW t, IsSum(t, new)'
  PROVE  \E s : /\ IsSum(s, new \ {index + 1})
                /\ t[index + 1] =
                     s[index] + (IF index + 1 \in new THEN Duration(events[index + 1]) ELSE 0)
<1> DEFINE set == new \ {index + 1}
           Part(i) == IF i \in set THEN Duration(events[i]) ELSE 0
           New(i) == IF i \in new THEN Duration(events[i]) ELSE 0
           s == [i \in 0..index |-> t[i]]
<1>1. index \in Nat /\ index' = index + 1 /\ events' = events
  BY RoundParent
<1>2. \A i \in 0..index + 1 : t[i] = IF i = 0 THEN 0 ELSE t[i - 1] + New(i)
  BY <1>1 DEF IsSum, Duration
<1>3. \A i \in 1..index : New(i) = Part(i)
  BY <1>1
<1> HIDE DEF Part, New, set
<1>4. s = [i \in 0..index |-> IF i = 0 THEN 0 ELSE s[i - 1] + Part(i)]
  BY <1>1, <1>2, <1>3
<1>5. t[index + 1] = s[index] + New(index + 1)
  BY <1>1, <1>2
<1> HIDE DEF s
<1>6. IsSum(s, set)
  BY <1>4 DEF IsSum, Part
<1> QED
  BY <1>5, <1>6 DEF New, set

\* The frames of a path are the last MaxDepth of the names.
LEMMA PathIsSuffix ==
  ASSUME NEW p \in Seq(Names), NEW full \in Seq(Names)
  PROVE  /\ Path(full) \in Seq(Names)
         /\ (IsSuffix(p, full) /\ Len(p) = Min({Len(full), MaxDepth})) <=> p = Path(full)
<1> DEFINE n == Len(full)
           m == IF n > MaxDepth THEN MaxDepth ELSE n
<1>1. MaxDepth \in Nat /\ n \in Nat /\ Len(p) \in Nat
  BY TraceAssumption DEF TraceAssumption
<1>2. Min({n, MaxDepth}) = m
  <2>1. m \in {n, MaxDepth} /\ \A y \in {n, MaxDepth} : m <= y
    BY <1>1
  <2>2. \A x \in {n, MaxDepth} : (\A y \in {n, MaxDepth} : x <= y) => x = m
    BY <1>1
  <2> HIDE DEF n, m
  <2> QED
    BY <2>1, <2>2, Zenon DEF Min
<1>3. /\ Path(full) \in Seq(Names) /\ Len(Path(full)) = m
      /\ \A i \in 1..m : Path(full)[i] = full[n - m + i]
  <2>1. m \in Nat /\ m <= n /\ n - m + 1 = IF n > MaxDepth THEN n - MaxDepth + 1 ELSE 1
    BY <1>1
  <2> HIDE DEF m
  <2>2. Path(full) = SubSeq(full, n - m + 1, n)
    BY <2>1 DEF Path
  <2> QED
    BY <1>1, <2>1, <2>2
<1>m. m \in Nat /\ m <= n
  BY <1>1
<1> HIDE DEF n, m
<1>4. ASSUME Len(p) = m
      PROVE  IsSuffix(p, full) <=> \A i \in 1..m : p[m + 1 - i] = full[n + 1 - i]
  <2>1. /\ Reverse(p) \in Seq(Names) /\ Len(Reverse(p)) = m
        /\ \A i \in 1..m : Reverse(p)[i] = p[m + 1 - i]
    BY <1>1, <1>m, <1>4 DEF Reverse
  <2>2. /\ Reverse(full) \in Seq(Names) /\ Len(Reverse(full)) = n
        /\ \A i \in 1..n : Reverse(full)[i] = full[n + 1 - i]
    BY <1>1 DEF Reverse, n
  <2>3. IsSuffix(p, full) <=> SubSeq(Reverse(p), 1, m) = SubSeq(Reverse(full), 1, m)
    BY <1>1, <1>m, <2>1, <2>2 DEF IsSuffix, IsPrefix
  <2>4. SubSeq(Reverse(p), 1, m) = [i \in 1..m |-> p[m + 1 - i]]
    BY <1>1, <1>m, <2>1
  <2>5. SubSeq(Reverse(full), 1, m) = [i \in 1..m |-> full[n + 1 - i]]
    BY <1>1, <1>m, <2>2
  <2> QED
    BY <2>3, <2>4, <2>5
<1>5. ASSUME Len(p) = m
      PROVE  p = Path(full) <=> \A i \in 1..m : p[m + 1 - i] = full[n + 1 - i]
  <2>1. p = Path(full) <=> \A i \in 1..m : p[i] = full[n - m + i]
    BY <1>3, <1>5, SeqEqual
  <2>2. ASSUME \A i \in 1..m : p[m + 1 - i] = full[n + 1 - i], NEW i \in 1..m
        PROVE  p[i] = full[n - m + i]
    <3>1. m + 1 - i \in 1..m /\ m + 1 - (m + 1 - i) = i /\ n + 1 - (m + 1 - i) = n - m + i
      BY <1>1, <1>m
    <3> QED
      BY <2>2, <3>1
  <2>3. ASSUME \A i \in 1..m : p[i] = full[n - m + i], NEW i \in 1..m
        PROVE  p[m + 1 - i] = full[n + 1 - i]
    <3>1. m + 1 - i \in 1..m /\ n - m + (m + 1 - i) = n + 1 - i
      BY <1>1, <1>m
    <3> QED
      BY <2>3, <3>1
  <2> QED
    BY <2>1, <2>2, <2>3
<1> QED
  BY <1>2, <1>3, <1>4, <1>5 DEF n

\* What every function that satisfies the equation of Ancestry says of the events so far.
Named(c) ==
  /\ \A i \in 0..index : c[i] \in Seq(Names)
  /\ \A k \in 1..Len(stack) : /\ Len(c[stack[k]]) = k
                              /\ \A l \in 1..k : c[stack[k]][l] = events[stack[l]].name

PathsUnder(c, p) == {i \in 1..index : p = Path(c[i])}

Tabled(c) ==
  /\ \A i \in 1..index :
       Path(c[i]) \notin DOMAIN paths =>
         pathsTruncated /\ Cardinality(DOMAIN paths) >= MaxUniquePaths
  /\ \A p \in DOMAIN paths : paths[p].occurrences = Cardinality(PathsUnder(c, p))
  /\ \A p \in DOMAIN paths : \A s : IsSum(s, PathsUnder(c, p)) => paths[p].total = s[index]
  /\ depthTruncated <=> \E i \in 1..index : Len(c[i]) > MaxDepth

Summed ==
  /\ \A set : \E s : IsSum(s, set)
  /\ \A set, s : IsSum(s, set) => s[index] \in Nat
  /\ \A s : IsSum(s, {}) => s[index] = 0

TableTyped ==
  /\ paths \in [DOMAIN paths -> Aggregate] /\ DOMAIN paths \subseteq Seq(Names)
  /\ IsFiniteSet(DOMAIN paths) /\ depthTruncated \in BOOLEAN /\ pathsTruncated \in BOOLEAN

Ended ==
  reported # {} =>
    /\ index = Len(events) /\ reported \subseteq DOMAIN paths
    /\ pathsTruncated \/ reported = DOMAIN paths

PathInv ==
  /\ TableTyped /\ Ended /\ Summed
  /\ \E c : IsAncestry(c)
  /\ \A c : IsAncestry(c) => Named(c) /\ Tabled(c)

LEMMA PathInit == SummaryInit => PathInv
<1> SUFFICES ASSUME SummaryInit
             PROVE  PathInv
  OBVIOUS
<1>1. /\ index = 0 /\ stack = <<>> /\ paths = [p \in {} |-> NoAggregate] /\ reported = {}
      /\ depthTruncated = FALSE /\ pathsTruncated = FALSE
  BY DEF SummaryInit, Init
<1>2. TableTyped /\ Ended
  BY <1>1, FS_EmptySet DEF TableTyped, Ended
<1>3. /\ \A c : IsAncestry(c) => c = [i \in 0..0 |-> <<>>]
      /\ IsAncestry([i \in 0..0 |-> <<>>])
  <2>1. \A c : [i \in 0..0 |-> IF i = 0 THEN <<>> ELSE Append(c[parent[i]], events[i].name)]
               = [i \in 0..0 |-> <<>>]
    OBVIOUS
  <2> QED
    BY <1>1, <2>1 DEF IsAncestry
<1>4. ASSUME NEW c, IsAncestry(c)
      PROVE  Named(c) /\ Tabled(c)
  BY <1>1, <1>3, <1>4 DEF Named, Tabled
<1>5. \A set, s : IsSum(s, set) <=> s = [i \in 0..0 |-> 0]
  <2>1. \A set, s : [i \in 0..0 |-> IF i = 0 THEN 0 ELSE
                       s[i - 1] + (IF i \in set THEN Duration(events[i]) ELSE 0)]
                    = [i \in 0..0 |-> 0]
    OBVIOUS
  <2> QED
    BY <1>1, <2>1 DEF IsSum
<1>6. Summed
  <2> DEFINE zero == [i \in 0..0 |-> 0]
  <2>1. zero[0] = 0 /\ zero[0] \in Nat
    OBVIOUS
  <2> HIDE DEF zero
  <2>2. \A set, s : IsSum(s, set) <=> s = zero
    BY <1>5 DEF zero
  <2> QED
    BY <1>1, <2>1, <2>2, Zenon DEF Summed
<1> QED
  BY <1>2, <1>3, <1>4, <1>6 DEF PathInv

LEMMA RoundSummed ==
  ASSUME FramingInv, Summed, HandleEvent
  PROVE  Summed'
<1>1. index \in Nat /\ index' = index + 1 /\ Duration(events[index + 1]) \in Nat
  BY Round, LongerIsOrder DEF FramingInv, Handled
<1>2. \A set : \E t : IsSum(t, set)'
  BY SumGrows DEF Summed
<1>3. ASSUME NEW set, NEW t, IsSum(t, set)'
      PROVE  t[index'] \in Nat /\ (set = {} => t[index'] = 0)
  <2>1. PICK s : /\ IsSum(s, set \ {index + 1})
                 /\ t[index + 1] =
                      s[index] + (IF index + 1 \in set THEN Duration(events[index + 1]) ELSE 0)
    BY <1>3, SumShrinks
  <2>2. s[index] \in Nat
    BY <2>1 DEF Summed
  <2>3. ASSUME set = {}
        PROVE  s[index] = 0
    <3>1. set \ {index + 1} = {}
      BY <2>3
    <3> QED
      BY <2>1, <3>1 DEF Summed
  <2> QED
    BY <1>1, <2>1, <2>2, <2>3
<1> QED
  BY <1>2, <1>3 DEF Summed

\* The path under which a round counts is that of the event's ancestry.
LEMMA RoundNamed ==
  ASSUME FramingInv, HandleEvent, NEW c, NEW d, Named(c),
         \A i \in 0..index : d[i] = c[i],
         d[index + 1] = Append(c[parent'[index + 1]], events[index + 1].name),
         c[0] = <<>>
  PROVE  Named(d)' /\ d[index + 1] = FullPath(Enclosing(events[index + 1]), index + 1)
<1> DEFINE e == events[index + 1]
<1>1. PICK m \in 0..Len(stack) :
        /\ Enclosing(e) \in Seq(Nat) /\ Len(Enclosing(e)) = m
        /\ \A k \in 1..m : Enclosing(e)[k] = stack[k]
        /\ Len(stack') = m + 1
        /\ stack'[m + 1] = index + 1 /\ \A k \in 1..m : stack'[k] = stack[k]
        /\ parent' = Append(parent, IF m = 0 THEN 0 ELSE stack[m])
  BY Round
<1>2. /\ index \in Nat /\ index' = index + 1 /\ events' = events
      /\ e \in Event /\ Len(stack) \in Nat
  BY Round DEF FramingInv, Handled, Nested
<1>3. parent'[index + 1] = IF m = 0 THEN 0 ELSE stack[m]
  BY <1>1, <1>2 DEF FramingInv, Framed, Nested
<1>4. \A k \in 1..m : stack[k] \in 1..index
  BY <1>2 DEF FramingInv, Nested
<1>5. /\ c[parent'[index + 1]] \in Seq(Names) /\ Len(c[parent'[index + 1]]) = m
      /\ \A l \in 1..m : c[parent'[index + 1]][l] = events[stack[l]].name
  <2>1. CASE m = 0
    <3>1. c[parent'[index + 1]] = <<>>
      BY <1>3, <2>1
    <3> QED
      BY <2>1, <3>1
  <2>2. CASE m # 0
    <3>1. m \in 1..Len(stack) /\ stack[m] \in 0..index
      BY <1>2, <1>4, <2>2
    <3> QED
      BY <1>3, <2>2, <3>1 DEF Named
  <2> QED
    BY <2>1, <2>2
<1>6. /\ d[index + 1] \in Seq(Names) /\ Len(d[index + 1]) = m + 1
      /\ d[index + 1][m + 1] = e.name
      /\ \A l \in 1..m : d[index + 1][l] = events[stack[l]].name
  <2>1. e.name \in Names
    BY <1>2 DEF Event
  <2> QED
    BY <1>5, <2>1
<1>7. \A i \in 0..index + 1 : d[i] \in Seq(Names)
  <2>1. \A i \in 0..index + 1 : i \in 0..index \/ i = index + 1
    BY <1>2
  <2> QED
    BY <1>6, <2>1 DEF Named
<1>8. ASSUME NEW k \in 1..m + 1
      PROVE  /\ Len(d[stack'[k]]) = k
             /\ \A l \in 1..k : d[stack'[k]][l] = events[stack'[l]].name
  <2>1. CASE k = m + 1
    <3>1. \A l \in 1..m + 1 : l \in 1..m \/ l = m + 1
      OBVIOUS
    <3>2. \A l \in 1..m + 1 : d[index + 1][l] = events[stack'[l]].name
      BY <1>1, <1>6, <3>1
    <3> QED
      BY <1>1, <1>6, <2>1, <3>2
  <2>2. CASE k \in 1..m
    <3>1. k \in 1..Len(stack) /\ stack[k] \in 0..index /\ stack'[k] = stack[k]
      BY <1>1, <1>2, <1>4, <2>2
    <3>2. \A l \in 1..k : stack'[l] = stack[l]
      BY <1>1, <2>2
    <3>3. d[stack'[k]] = c[stack[k]]
      BY <3>1
    <3> QED
      BY <3>1, <3>2, <3>3 DEF Named
  <2> QED
    BY <2>1, <2>2
<1>9. Named(d)'
  BY <1>1, <1>2, <1>7, <1>8 DEF Named
<1>10. d[index + 1] = FullPath(Enclosing(e), index + 1)
  <2> DEFINE f == FullPath(Enclosing(e), index + 1)
  <2>1. f = [k \in 1..m + 1 |-> IF k <= m THEN events[stack[k]].name ELSE e.name]
    BY <1>1 DEF FullPath
  <2>2. d[index + 1] = [k \in 1..m + 1 |-> d[index + 1][k]]
    BY <1>6
  <2>3. \A k \in 1..m + 1 : d[index + 1][k] = IF k <= m THEN events[stack[k]].name ELSE e.name
    BY <1>6
  <2> HIDE DEF f
  <2> QED
    BY <2>1, <2>2, <2>3 DEF f
<1> QED
  BY <1>9, <1>10

\* What CountPath does to the table.
LEMMA CountPathIs ==
  ASSUME TableTyped, NEW p \in Seq(Names), NEW d \in Nat, CountPath(p, d)
  PROVE  \/ /\ DOMAIN paths' = DOMAIN paths \cup {p} /\ pathsTruncated' = pathsTruncated
            /\ p \in DOMAIN paths \/ Cardinality(DOMAIN paths) < MaxUniquePaths
            /\ paths' \in [DOMAIN paths' -> Aggregate]
            /\ \A q \in DOMAIN paths \ {p} : paths'[q] = paths[q]
            /\ LET a == IF p \in DOMAIN paths THEN paths[p] ELSE NoAggregate
               IN /\ paths'[p].total = a.total + d
                  /\ paths'[p].occurrences = a.occurrences + 1
         \/ /\ paths' = paths /\ pathsTruncated' = TRUE /\ p \notin DOMAIN paths
            /\ ~(Cardinality(DOMAIN paths) < MaxUniquePaths)
<1>1. CASE p \in DOMAIN paths \/ Cardinality(DOMAIN paths) < MaxUniquePaths
  <2> DEFINE a == IF p \in DOMAIN paths THEN paths[p] ELSE NoAggregate
             Old(q) == IF q \in DOMAIN paths THEN paths[q] ELSE NoAggregate
  <2>1. /\ paths' = [q \in DOMAIN paths \cup {p} |->
                       IF q = p THEN Update(Old(q), d) ELSE Old(q)]
        /\ pathsTruncated' = pathsTruncated
    BY <1>1 DEF CountPath
  <2>2. \A q : Old(q) \in Aggregate
    BY DEF TableTyped, NoAggregate, Aggregate
  <2>3. /\ Update(a, d) \in Aggregate /\ Update(a, d).total = a.total + d
        /\ Update(a, d).occurrences = a.occurrences + 1
    <3>1. a \in Aggregate
      BY <2>2
    <3> HIDE DEF a
    <3> QED
      BY <3>1, UpdateIs
  <2>4. a = Old(p)
    OBVIOUS
  <2>5. \A q \in DOMAIN paths \ {p} : Old(q) = paths[q]
    OBVIOUS
  <2> HIDE DEF a, Old
  <2>6. /\ DOMAIN paths' = DOMAIN paths \cup {p}
        /\ \A q \in DOMAIN paths \cup {p} :
             paths'[q] = IF q = p THEN Update(a, d) ELSE Old(q)
    BY <2>1, <2>4
  <2>7. paths' \in [DOMAIN paths' -> Aggregate]
    BY <2>1, <2>2, <2>3, <2>4
  <2> QED
    BY <1>1, <2>1, <2>3, <2>5, <2>6, <2>7 DEF a
<1>2. CASE ~(p \in DOMAIN paths \/ Cardinality(DOMAIN paths) < MaxUniquePaths)
  BY <1>2 DEF CountPath
<1> QED
  BY <1>1, <1>2

LEMMA RoundTable ==
  ASSUME FramingInv, HandleEvent, TableTyped,
         NEW full \in Seq(Names), full = FullPath(Enclosing(events[index + 1]), index + 1)
  PROVE  /\ CountPath(Path(full), Duration(events[index + 1]))
         /\ Path(full) \in Seq(Names) /\ Duration(events[index + 1]) \in Nat
         /\ depthTruncated' = (depthTruncated \/ Len(full) > MaxDepth)
         /\ TableTyped'
<1>1. Duration(events[index + 1]) \in Nat
  BY Round, LongerIsOrder DEF FramingInv
<1>2. Path(full) \in Seq(Names)
  BY PathIsSuffix
<1>3. /\ CountPath(Path(full), Duration(events[index + 1]))
      /\ depthTruncated' = (depthTruncated \/ Len(full) > MaxDepth)
  BY DEF HandleEvent
<1>4. IsFiniteSet(DOMAIN paths \cup {Path(full)})
  BY FS_AddElement DEF TableTyped
<1>5. TableTyped'
  <2>1. /\ paths' \in [DOMAIN paths' -> Aggregate] /\ DOMAIN paths' \subseteq Seq(Names)
        /\ IsFiniteSet(DOMAIN paths') /\ pathsTruncated' \in BOOLEAN
    BY <1>1, <1>2, <1>3, <1>4, CountPathIs DEF TableTyped
  <2> QED
    BY <1>3, <2>1 DEF TableTyped
<1> QED
  BY <1>1, <1>2, <1>3, <1>5

LEMMA RoundTabled ==
  ASSUME FramingInv, HandleEvent, TableTyped, Summed,
         NEW c, NEW d, Named(c), Tabled(c), Named(d)',
         \A i \in 0..index : d[i] = c[i],
         d[index + 1] = FullPath(Enclosing(events[index + 1]), index + 1)
  PROVE  Tabled(d)'
<1> DEFINE e == events[index + 1]
           full == d[index + 1]
           p0 == Path(full)
           t == Duration(e)
<1>1. index \in Nat /\ index' = index + 1 /\ events' = events
  BY RoundParent
<1>2. full \in Seq(Names) /\ Len(full) \in Nat
  BY <1>1 DEF Named
<1>3. /\ CountPath(p0, t) /\ p0 \in Seq(Names) /\ t \in Nat
      /\ depthTruncated' = (depthTruncated \/ Len(full) > MaxDepth)
  BY <1>2, RoundTable
<1>4. \A i \in 1..index : d[i] = c[i]
  BY <1>1
<1>5. \A i \in 1..index' : i \in 1..index \/ i = index + 1
  BY <1>1
<1> DEFINE Old(p) == PathsUnder(c, p)
           New(p) == {i \in 1..index' : p = Path(d[i])}
<1>6. \A p : New(p) = IF p = p0 THEN Old(p) \cup {index + 1} ELSE Old(p)
  BY <1>1, <1>4, <1>5 DEF PathsUnder
<1>7. \A p : /\ IsFiniteSet(Old(p)) /\ Cardinality(Old(p)) \in Nat
             /\ index + 1 \notin Old(p) /\ Old(p) \subseteq 1..index
  <2>1. IsFiniteSet(1..index)
    BY <1>1, FS_Interval
  <2>2. \A p : Old(p) \subseteq 1..index /\ index + 1 \notin Old(p)
    BY <1>1 DEF PathsUnder
  <2> QED
    BY <2>1, <2>2, FS_Subset, FS_CardinalityType
<1>8. \A p : Cardinality(New(p)) = Cardinality(Old(p)) + (IF p = p0 THEN 1 ELSE 0)
  <2> SUFFICES ASSUME NEW p
               PROVE  Cardinality(New(p)) = Cardinality(Old(p)) + (IF p = p0 THEN 1 ELSE 0)
    OBVIOUS
  <2>1. CASE p = p0
    <3>1. New(p) = Old(p) \cup {index + 1}
      BY <1>6, <2>1
    <3>2. Cardinality(Old(p) \cup {index + 1}) = Cardinality(Old(p)) + 1
      <4> HIDE DEF Old
      <4> QED
        BY <1>7, FS_AddElement
    <3> QED
      BY <2>1, <3>1, <3>2
  <2>2. CASE p # p0
    <3>1. New(p) = Old(p)
      BY <1>6, <2>2
    <3> HIDE DEF Old, New
    <3> QED
      BY <1>7, <2>2, <3>1
  <2> QED
    BY <2>1, <2>2
<1>9. ASSUME NEW p, NEW s, NEW new, new = New(p), IsSum(s, new)', NEW old, old = Old(p)
      PROVE  \E u : /\ IsSum(u, old) /\ u[index] \in Nat
                    /\ s[index'] = u[index] + (IF p = p0 THEN t ELSE 0)
  <2>1. /\ old = new \ {index + 1}
        /\ index + 1 \in new <=> p = p0
    BY <1>1, <1>6, <1>7, <1>9
  <2> HIDE DEF New, Old
  <2>2. PICK u : /\ IsSum(u, old)
                 /\ s[index + 1] = u[index]
                      + (IF index + 1 \in new THEN Duration(events[index + 1]) ELSE 0)
    <3>1. PICK u : /\ IsSum(u, new \ {index + 1})
                   /\ s[index + 1] = u[index]
                        + (IF index + 1 \in new THEN Duration(events[index + 1]) ELSE 0)
      <4>1. IsSum(s, new)'
        BY <1>9
      <4> HIDE DEF e, full, p0, t
      <4> QED
        BY <4>1, SumShrinks
    <3> QED
      BY <2>1, <3>1
  <2>3. u[index] \in Nat
    BY <2>2 DEF Summed
  <2> QED
    BY <1>1, <2>1, <2>2, <2>3
<1>12. depthTruncated' <=> \E i \in 1..index' : Len(d[i]) > MaxDepth
  <2>1. (\E i \in 1..index' : Len(d[i]) > MaxDepth)
        <=> (\E i \in 1..index : Len(c[i]) > MaxDepth) \/ Len(full) > MaxDepth
    BY <1>1, <1>4, <1>5
  <2>2. depthTruncated <=> \E i \in 1..index : Len(c[i]) > MaxDepth
    BY DEF Tabled
  <2>3. depthTruncated' = (depthTruncated \/ Len(full) > MaxDepth)
    BY <1>3
  <2>4. depthTruncated' \in BOOLEAN /\ depthTruncated \in BOOLEAN
    BY <1>2, RoundTable DEF TableTyped
  <2> HIDE DEF full
  <2> QED
    BY <2>1, <2>2, <2>3, <2>4
<1> DEFINE Found == \A i \in 1..index' : Path(d[i]) \notin DOMAIN paths' =>
                      pathsTruncated' /\ Cardinality(DOMAIN paths') >= MaxUniquePaths
           Counted == \A p \in DOMAIN paths' :
                        paths'[p].occurrences = Cardinality(New(p))
           Timed == \A p \in DOMAIN paths' : \A s, new :
                      new = New(p) /\ IsSum(s, new)' => paths'[p].total = s[index']
<1>10. ASSUME
            /\ DOMAIN paths' = DOMAIN paths \cup {p0} /\ pathsTruncated' = pathsTruncated
            /\ p0 \in DOMAIN paths \/ Cardinality(DOMAIN paths) < MaxUniquePaths
            /\ \A q \in DOMAIN paths \ {p0} : paths'[q] = paths[q]
            /\ LET a == IF p0 \in DOMAIN paths THEN paths[p0] ELSE NoAggregate
               IN /\ paths'[p0].total = a.total + t
                  /\ paths'[p0].occurrences = a.occurrences + 1
       PROVE  Found /\ Counted /\ Timed
  <2>1. ASSUME NEW i \in 1..index', Path(d[i]) \notin DOMAIN paths'
        PROVE  pathsTruncated' /\ Cardinality(DOMAIN paths') >= MaxUniquePaths
    <3>1. i \in 1..index /\ Path(c[i]) \notin DOMAIN paths
      BY <1>4, <1>5, <1>10, <2>1
    <3>2. pathsTruncated /\ Cardinality(DOMAIN paths) >= MaxUniquePaths
      BY <3>1 DEF Tabled
    <3>3. Cardinality(DOMAIN paths) \in Nat /\ MaxUniquePaths \in Nat
      BY FS_CardinalityType, TraceAssumption DEF TableTyped, TraceAssumption
    <3>4. DOMAIN paths' = DOMAIN paths
      BY <1>10, <3>2, <3>3
    <3> QED
      BY <1>10, <3>2, <3>4
  <2>2. ASSUME p0 \notin DOMAIN paths
        PROVE  Old(p0) = {}
    <3>1. ~(Cardinality(DOMAIN paths) >= MaxUniquePaths)
      BY <1>10, <2>2, FS_CardinalityType, TraceAssumption DEF TableTyped, TraceAssumption
    <3> QED
      BY <2>2, <3>1 DEF Tabled, PathsUnder
  <2>3. ASSUME NEW p \in DOMAIN paths'
        PROVE  paths'[p].occurrences = Cardinality(New(p))
    <3>1. CASE p # p0
      <4>1. p \in DOMAIN paths /\ paths'[p] = paths[p]
        BY <1>10, <2>3, <3>1
      <4>2. paths[p].occurrences = Cardinality(Old(p))
        BY <4>1 DEF Tabled
      <4>3. Cardinality(New(p)) = Cardinality(Old(p))
        BY <1>7, <1>8, <3>1
      <4> QED
        BY <4>1, <4>2, <4>3, Zenon
    <3>2. CASE p = p0 /\ p0 \in DOMAIN paths
      BY <1>8, <1>10, <3>2 DEF Tabled
    <3>3. CASE p = p0 /\ p0 \notin DOMAIN paths
      <4>1. Cardinality(Old(p0)) = 0
        BY <2>2, <3>3, FS_EmptySet
      <4> QED
        BY <1>8, <1>10, <3>3, <4>1 DEF NoAggregate
    <3> QED
      BY <3>1, <3>2, <3>3
  <2>4. ASSUME NEW p \in DOMAIN paths', NEW s, NEW new, new = New(p), IsSum(s, new)'
        PROVE  paths'[p].total = s[index']
    <3>1. PICK u : /\ IsSum(u, Old(p)) /\ u[index] \in Nat
                   /\ s[index'] = u[index] + (IF p = p0 THEN t ELSE 0)
      BY <1>9, <2>4
    <3>2. CASE p # p0
      BY <1>10, <3>1, <3>2 DEF Tabled
    <3>3. CASE p = p0 /\ p0 \in DOMAIN paths
      BY <1>10, <3>1, <3>3 DEF Tabled
    <3>4. CASE p = p0 /\ p0 \notin DOMAIN paths
      <4>1. u[index] = 0
        BY <2>2, <3>1, <3>4 DEF Summed
      <4> QED
        BY <1>3, <1>10, <3>1, <3>4, <4>1 DEF NoAggregate
    <3> QED
      BY <3>2, <3>3, <3>4
  <2> QED
    BY <2>1, <2>3, <2>4
<1>11. ASSUME
            /\ paths' = paths /\ pathsTruncated' = TRUE /\ p0 \notin DOMAIN paths
            /\ ~(Cardinality(DOMAIN paths) < MaxUniquePaths)
       PROVE  Found /\ Counted /\ Timed
  <2>1. Cardinality(DOMAIN paths) >= MaxUniquePaths
    BY <1>11, FS_CardinalityType, TraceAssumption DEF TableTyped, TraceAssumption
  <2>2. DOMAIN paths' = DOMAIN paths
    BY <1>11
  <2>3. Found
    BY <1>11, <2>1, <2>2, Zenon
  <2>4. ASSUME NEW p \in DOMAIN paths'
        PROVE  paths'[p].occurrences = Cardinality(New(p))
    <3>1. p # p0 /\ p \in DOMAIN paths /\ paths'[p] = paths[p]
      BY <1>11, <2>2, <2>4
    <3>2. paths[p].occurrences = Cardinality(Old(p))
      BY <3>1 DEF Tabled
    <3>3. Cardinality(New(p)) = Cardinality(Old(p))
      BY <1>7, <1>8, <3>1
    <3> QED
      BY <3>1, <3>2, <3>3, Zenon
  <2>5. ASSUME NEW p \in DOMAIN paths', NEW s, NEW new, new = New(p), IsSum(s, new)'
        PROVE  paths'[p].total = s[index']
    <3>1. p # p0 /\ p \in DOMAIN paths /\ paths'[p] = paths[p]
      BY <1>11, <2>2, <2>5
    <3>2. PICK u : /\ IsSum(u, Old(p)) /\ u[index] \in Nat
                   /\ s[index'] = u[index] + (IF p = p0 THEN t ELSE 0)
      BY <1>9, <2>5
    <3> QED
      BY <3>1, <3>2 DEF Tabled
  <2> QED
    BY <2>3, <2>4, <2>5
<1>13. Found /\ Counted /\ Timed
  <2>1. LET p == p0 IN p \in Seq(Names)
    BY <1>3
  <2> HIDE DEF Found, Counted, Timed
  <2> QED
    BY <1>3, <1>10, <1>11, CountPathIs
<1> QED
  <2>1. \A p : New(p) = PathsUnder(d, p)'
    BY DEF PathsUnder
  <2>2. Found /\ Counted /\ Timed
    BY <1>13
  <2> HIDE DEF New
  <2> QED
    BY <1>12, <2>1, <2>2 DEF Tabled

\* A round extends every ancestry by one event, and with it the table.
LEMMA RoundPaths ==
  ASSUME FramingInv, PathInv, HandleEvent
  PROVE  PathInv'
<1>1. /\ index \in Nat /\ index' = index + 1 /\ events' = events
      /\ reported' = reported /\ index < Len(events)
  BY RoundParent DEF HandleEvent
<1>2. TableTyped /\ Ended /\ Summed /\ \A c : IsAncestry(c) => Named(c) /\ Tabled(c)
  BY DEF PathInv
<1>3. Ended'
  <2>1. reported = {}
    BY <1>1, <1>2 DEF Ended
  <2> QED
    BY <1>1, <2>1 DEF Ended
<1>4. \E d : IsAncestry(d)'
  BY AncestryGrows DEF PathInv
<1>5. ASSUME NEW d, IsAncestry(d)'
      PROVE  /\ Named(d)' /\ Tabled(d)' /\ d[index + 1] \in Seq(Names)
             /\ d[index + 1] = FullPath(Enclosing(events[index + 1]), index + 1)
  <2>1. PICK c : /\ IsAncestry(c) /\ \A i \in 0..index : d[i] = c[i]
                 /\ d[index + 1] = Append(c[parent'[index + 1]], events[index + 1].name)
    BY <1>5, AncestryShrinks
  <2>2. Named(c) /\ Tabled(c)
    BY <1>2, <2>1
  <2>3. c[0] = <<>>
    BY <1>1, <2>1 DEF IsAncestry
  <2>4. /\ Named(d)'
        /\ d[index + 1] = FullPath(Enclosing(events[index + 1]), index + 1)
    BY <2>1, <2>2, <2>3, RoundNamed
  <2>5. Tabled(d)'
    BY <1>2, <2>1, <2>2, <2>4, RoundTabled
  <2>6. d[index + 1] \in Seq(Names)
    BY <1>1, <2>4 DEF Named
  <2> QED
    BY <2>4, <2>5, <2>6
<1>6. TableTyped'
  <2>1. PICK d : IsAncestry(d)'
    BY <1>4
  <2>2. /\ d[index + 1] \in Seq(Names)
        /\ d[index + 1] = FullPath(Enclosing(events[index + 1]), index + 1)
    BY <1>5, <2>1
  <2> QED
    BY <1>2, <2>2, RoundTable
<1>7. Summed'
  BY <1>2, RoundSummed
<1> QED
  BY <1>3, <1>4, <1>5, <1>6, <1>7 DEF PathInv

\* The end of the pass reports the whole table, or it says that it does not.
LEMMA FinishPaths ==
  ASSUME PathInv, Finish
  PROVE  PathInv'
<1>1. /\ index' = index /\ events' = events /\ stack' = stack /\ parent' = parent
      /\ paths' = paths /\ depthTruncated' = depthTruncated
  BY DEF Finish
<1>2. /\ index = Len(events) /\ Reports(reported')
      /\ pathsTruncated' = (pathsTruncated \/ Cardinality(DOMAIN paths) > MaxPaths)
  BY DEF Finish
<1>3. TableTyped /\ pathsTruncated \in BOOLEAN
  BY DEF PathInv, TableTyped
<1>4. pathsTruncated' \in BOOLEAN /\ (pathsTruncated => pathsTruncated')
  BY <1>2, <1>3
<1>5. TableTyped'
  BY <1>1, <1>3, <1>4 DEF TableTyped
<1>6. Summed'
  BY <1>1 DEF PathInv, Summed, IsSum, Duration
<1>7. \A c : IsAncestry(c)' <=> IsAncestry(c)
  BY <1>1 DEF IsAncestry
<1>8. ASSUME NEW c, IsAncestry(c)
      PROVE  Named(c)' /\ Tabled(c)'
  <2>1. Named(c) /\ Tabled(c)
    BY <1>8 DEF PathInv
  <2>2. Named(c)'
    BY <1>1, <2>1 DEF Named
  <2>3. Tabled(c)'
    BY <1>1, <1>4, <2>1 DEF Tabled, PathsUnder, IsSum, Duration
  <2> QED
    BY <2>2, <2>3
<1>9. Ended'
  <2>1. reported' \subseteq DOMAIN paths
    BY <1>2 DEF Reports
  <2>2. ASSUME ~pathsTruncated'
        PROVE  reported' = DOMAIN paths
    <3> DEFINE n == Cardinality(DOMAIN paths)
    <3>1. n \in Nat /\ MaxPaths \in Nat /\ ~(n > MaxPaths)
      BY <1>2, <1>3, <2>2, FS_CardinalityType, TraceAssumption DEF TableTyped, TraceAssumption
    <3>2. n \in {MaxPaths, n} /\ \A y \in {MaxPaths, n} : n <= y
      BY <3>1
    <3>3. \A x \in {MaxPaths, n} : (\A y \in {MaxPaths, n} : x <= y) => x = n
      BY <3>1
    <3>4. Cardinality(reported') = Min({MaxPaths, n})
      BY <1>2 DEF Reports
    <3> HIDE DEF n
    <3>5. Min({MaxPaths, n}) = n
      BY <3>2, <3>3, Zenon DEF Min
    <3> QED
      BY <1>3, <2>1, <3>4, <3>5, FS_Subset DEF n, TableTyped
  <2> QED
    BY <1>1, <1>2, <2>1, <2>2 DEF Ended
<1> QED
  BY <1>5, <1>6, <1>7, <1>8, <1>9 DEF PathInv

LEMMA PathStep == FramingInv /\ PathInv /\ [SummaryNext]_summaryVars => PathInv'
<1> SUFFICES ASSUME FramingInv, PathInv, [SummaryNext]_summaryVars
             PROVE  PathInv'
  OBVIOUS
<1> DEFINE unmoved ==
      UNCHANGED <<events, index, stack, parent, paths, depthTruncated, pathsTruncated, reported>>
<1>1. CASE unmoved
  <2>1. TableTyped' /\ Ended' /\ Summed'
    BY <1>1 DEF PathInv, TableTyped, Ended, Summed, IsSum, Duration
  <2>2. \A c : IsAncestry(c)' <=> IsAncestry(c)
    BY <1>1 DEF IsAncestry
  <2>3. ASSUME NEW c, IsAncestry(c)
        PROVE  Named(c)' /\ Tabled(c)'
    <3>1. Named(c) /\ Tabled(c)
      BY <2>3 DEF PathInv
    <3>2. Named(c)'
      BY <1>1, <3>1 DEF Named
    <3>3. Tabled(c)'
      BY <1>1, <3>1 DEF Tabled, PathsUnder, IsSum, Duration
    <3> QED
      BY <3>2, <3>3
  <2> QED
    BY <2>1, <2>2, <2>3 DEF PathInv
<1>2. HandleEvent \/ Finish \/ unmoved
  BY DEF SummaryNext, PairBoundaries, CountMarkers, FrameEvents, ReportMarkers, Next,
         summaryVars, vars, tasks
<1> QED
  BY <1>1, <1>2, RoundPaths, FinishPaths

\* The definitions of the model are the one function each equation has.
LEMMA AncestryIs ==
  ASSUME PathInv
  PROVE  IsAncestry(Ancestry)
<1>1. PICK c : IsAncestry(c)
  BY DEF PathInv
<1>2. Ancestry = CHOOSE names : IsAncestry(names)
  BY DEF Ancestry, IsAncestry
<1> QED
  BY <1>1, <1>2, Zenon

LEMMA TimeIs ==
  ASSUME PathInv, NEW set
  PROVE  \E s : IsSum(s, set) /\ TimeOf(set) = s[index]
<1> DEFINE sum == CHOOSE s : IsSum(s, set)
<1>1. \E s : IsSum(s, set)
  BY DEF PathInv, Summed
<1>2. IsSum(sum, set)
  BY <1>1, Zenon
<1>3. TimeOf(set) = sum[index]
  BY DEF TimeOf, IsSum
<1> QED
  BY <1>2, <1>3, Zenon

LEMMA TableIsComplete ==
  ASSUME FramingInv, PathInv
  PROVE  TruncationIsReported
<1> DEFINE a == Ancestry
<1>1. /\ IsAncestry(a) /\ Named(a) /\ Tabled(a) /\ TableTyped /\ Ended
      /\ index \in Nat /\ index <= Len(events) /\ events \in Seq(Event)
  BY AncestryIs DEF PathInv, FramingInv, Handled
<1> HIDE DEF a
<1>2. \A i \in 1..index : a[i] \in Seq(Names)
  BY <1>1 DEF Named
<1>3. ASSUME NEW p \in Seq(Names)
      PROVE  Under(a, p) = PathsUnder(a, p)
  BY <1>2, PathIsSuffix DEF Under, PathsUnder
<1>4. ASSUME NEW p \in reported
      PROVE  /\ paths[p].occurrences = Cardinality(Under(a, p))
             /\ paths[p].total = TimeOf(Under(a, p))
  <2>1. p \in DOMAIN paths /\ p \in Seq(Names)
    BY <1>1, <1>4 DEF Ended, TableTyped
  <2>2. PICK s : IsSum(s, PathsUnder(a, p)) /\ TimeOf(PathsUnder(a, p)) = s[index]
    BY TimeIs
  <2> QED
    BY <1>1, <1>3, <2>1, <2>2 DEF Tabled
<1>5. ASSUME reported # {}, ~pathsTruncated
      PROVE  UNION {Under(a, p) : p \in reported} = DOMAIN events
  <2>1. reported = DOMAIN paths /\ DOMAIN events = 1..index
    BY <1>1, <1>5 DEF Ended
  <2>2. \A p \in reported : Under(a, p) \subseteq 1..index
    BY DEF Under
  <2>3. ASSUME NEW i \in 1..index
        PROVE  \E p \in reported : i \in Under(a, p)
    <3>1. Path(a[i]) \in DOMAIN paths
      BY <1>1, <1>5 DEF Tabled
    <3>2. i \in PathsUnder(a, Path(a[i]))
      BY DEF PathsUnder
    <3>3. Path(a[i]) \in Seq(Names)
      BY <1>1, <3>1 DEF TableTyped
    <3> QED
      BY <1>3, <2>1, <3>1, <3>2, <3>3
  <2> QED
    BY <2>1, <2>2, <2>3
<1>6. depthTruncated <=> \E i \in 1..index : Len(a[i]) > MaxDepth
  BY <1>1 DEF Tabled
<1> QED
  BY <1>4, <1>5, <1>6 DEF TruncationIsReported, a

\* Whatever the bounds of the table, of the depth and of the report, a finished summary is
\* right about the paths it reports and says what it leaves out
\* (summarize_complete_events).
THEOREM LacksAreReported == SummarySpec => []TruncationIsReported
<1>1. SummaryInit => FramingInv /\ PathInv
  BY FramingInit, PathInit
<1>2. FramingInv /\ PathInv /\ [SummaryNext]_summaryVars => (FramingInv /\ PathInv)'
  BY FramingStep, PathStep
<1>3. FramingInv /\ PathInv => TruncationIsReported
  BY TableIsComplete
<1> QED
  BY <1>1, <1>2, <1>3, PTL DEF SummarySpec
-----------------------------------------------------------------------------
(* Counting. *)

\* The places among the first n of a sequence that hold an element of a set.
Hits(s, n, S) == {i \in 1..n : s[i] \in S}
Count(s, n, S) == Cardinality(Hits(s, n, S))
Total(s, S) == Count(s, Len(s), S)

LEMMA CountIs ==
  ASSUME NEW s, NEW n \in Nat, NEW S
  PROVE  IsFiniteSet(Hits(s, n, S)) /\ Count(s, n, S) \in Nat
<1>1. IsFiniteSet(1..n)
  BY FS_Interval
<1>2. Hits(s, n, S) \in SUBSET (1..n)
  BY DEF Hits
<1>3. IsFiniteSet(Hits(s, n, S))
  BY <1>1, <1>2, FS_Subset
<1> QED
  BY <1>3, FS_CardinalityType DEF Count

LEMMA CountNothing ==
  ASSUME NEW s, NEW S
  PROVE  Count(s, 0, S) = 0
<1>1. Hits(s, 0, S) = {}
  BY DEF Hits
<1> QED
  BY <1>1, FS_EmptySet DEF Count

\* Where the same places hold elements, the counts are equal.
LEMMA CountAgrees ==
  ASSUME NEW s, NEW t, NEW n, NEW S, NEW R, \A i \in 1..n : s[i] \in S <=> t[i] \in R
  PROVE  Count(s, n, S) = Count(t, n, R)
<1>1. Hits(s, n, S) = Hits(t, n, R)
  BY DEF Hits
<1> QED
  BY <1>1 DEF Count

LEMMA CountGrows ==
  ASSUME NEW s, NEW n \in Nat, NEW S
  PROVE  Count(s, n + 1, S) = IF s[n + 1] \in S THEN Count(s, n, S) + 1 ELSE Count(s, n, S)
<1>1. IsFiniteSet(Hits(s, n, S))
  BY CountIs
<1>2. n + 1 \notin Hits(s, n, S)
  BY DEF Hits
<1>3. Hits(s, n + 1, S) = IF s[n + 1] \in S THEN Hits(s, n, S) \cup {n + 1} ELSE Hits(s, n, S)
  BY DEF Hits
<1>4. Cardinality(Hits(s, n, S) \cup {n + 1}) = Cardinality(Hits(s, n, S)) + 1
  BY <1>1, <1>2, FS_AddElement
<1> QED
  BY <1>3, <1>4, Zenon DEF Count

LEMMA TotalAppended ==
  ASSUME NEW T, NEW s \in Seq(T), NEW x \in T, NEW S
  PROVE  Total(Append(s, x), S) = IF x \in S THEN Total(s, S) + 1 ELSE Total(s, S)
<1> DEFINE t == Append(s, x)
           n == Len(s)
<1>1. n \in Nat /\ Len(t) = n + 1 /\ t[n + 1] = x /\ \A i \in 1..n : t[i] = s[i]
  OBVIOUS
<1> HIDE DEF t, n
<1>2. Count(t, n + 1, S) = IF x \in S THEN Count(t, n, S) + 1 ELSE Count(t, n, S)
  BY <1>1, CountGrows
<1>3. Count(t, n, S) = Count(s, n, S)
  <2>1. \A i \in 1..n : t[i] \in S <=> s[i] \in S
    BY <1>1
  <2> QED
    BY <2>1, CountAgrees
<1> QED
  BY <1>1, <1>2, <1>3 DEF Total, t, n

LEMMA FrontIs ==
  ASSUME NEW T, NEW s \in Seq(T), s # <<>>
  PROVE  /\ Front(s) \in Seq(T) /\ Last(s) \in T /\ Last(s) = s[Len(s)]
         /\ Len(s) \in Nat \ {0} /\ Len(Front(s)) = Len(s) - 1
         /\ \A i \in 1..Len(s) - 1 : Front(s)[i] = s[i]
  BY DEF Front, Last

LEMMA TotalOfFront ==
  ASSUME NEW T, NEW s \in Seq(T), s # <<>>, NEW S
  PROVE  Total(s, S) = IF Last(s) \in S THEN Total(Front(s), S) + 1 ELSE Total(Front(s), S)
<1> DEFINE t == Front(s)
           n == Len(s) - 1
           x == Last(s)
<1>1. n \in Nat /\ Len(s) = n + 1 /\ Len(t) = n /\ s[n + 1] = x /\ \A i \in 1..n : t[i] = s[i]
  BY FrontIs
<1> HIDE DEF t, n, x
<1>2. Count(s, n + 1, S) = IF x \in S THEN Count(s, n, S) + 1 ELSE Count(s, n, S)
  BY <1>1, CountGrows
<1>3. Count(s, n, S) = Count(t, n, S)
  <2>1. \A i \in 1..n : s[i] \in S <=> t[i] \in S
    BY <1>1
  <2> QED
    BY <2>1, CountAgrees
<1> QED
  BY <1>1, <1>2, <1>3 DEF Total, t, x

\* More places and a larger set give no smaller count.
LEMMA CountIncreases ==
  ASSUME NEW s, NEW m \in Nat, NEW n \in Nat, m <= n, NEW S, NEW R,
         \A i \in 1..m : s[i] \in S => s[i] \in R
  PROVE  /\ Count(s, m, S) <= Count(s, n, R)
         /\ (\E i \in 1..n : s[i] \in R /\ (i > m \/ s[i] \notin S)) => Count(s, m, S) < Count(s, n, R)
<1> DEFINE A == Hits(s, m, S)
           B == Hits(s, n, R)
<1>1. A \in SUBSET B
  BY DEF Hits
<1>2. IsFiniteSet(B) /\ Cardinality(A) \in Nat /\ Cardinality(B) \in Nat
  BY CountIs DEF Count
<1>3. (\E i \in 1..n : s[i] \in R /\ (i > m \/ s[i] \notin S)) => A # B
  BY DEF Hits
<1> HIDE DEF A, B
<1>4. Cardinality(A) <= Cardinality(B) /\ (Cardinality(B) = Cardinality(A) => B = A)
  BY <1>1, <1>2, FS_Subset
<1>5. Count(s, m, S) = Cardinality(A) /\ Count(s, n, R) = Cardinality(B)
  BY DEF A, B, Count
<1> QED
  BY <1>2, <1>3, <1>4, <1>5

LEMMA CountedIsThere ==
  ASSUME NEW s, NEW n \in Nat, NEW S
  PROVE  Count(s, n, S) # 0 <=> \E i \in 1..n : s[i] \in S
<1>1. IsFiniteSet(Hits(s, n, S))
  BY CountIs
<1>2. Cardinality(Hits(s, n, S)) = 0 <=> Hits(s, n, S) = {}
  BY <1>1, FS_EmptySet
<1> QED
  BY <1>2 DEF Count, Hits

\* A rearranged sequence has the same counts.
LEMMA CountPermuted ==
  ASSUME NEW s, NEW t, NEW n \in Nat, NEW p \in Bijection(1..n, 1..n),
         \A i \in 1..n : t[i] = s[p[i]], NEW S
  PROVE  Count(t, n, S) = Count(s, n, S)
<1> DEFINE A == Hits(t, n, S)
           B == Hits(s, n, S)
           f == [i \in A |-> p[i]]
<1>1. /\ p \in [1..n -> 1..n]
      /\ \A i, j \in 1..n : p[i] = p[j] => i = j
      /\ \A j \in 1..n : \E i \in 1..n : p[i] = j
  <2> DEFINE N == 1..n
  <2> HIDE DEF N
  <2>1. p \in Bijection(N, N)
    BY DEF N
  <2>2. p \in [N -> N] /\ (\A i, j \in N : p[i] = p[j] => i = j) /\ \A j \in N : \E i \in N : p[i] = j
    BY <2>1, Fun_BijectionProperties
  <2> QED
    BY <2>2 DEF N
<1>2. f \in [A -> B]
  BY <1>1 DEF Hits
<1>3. \A i, j \in A : f[i] = f[j] => i = j
  BY <1>1 DEF Hits
<1>4. \A j \in B : \E i \in A : f[i] = j
  BY <1>1 DEF Hits
<1>5. IsFiniteSet(A)
  BY CountIs
<1> HIDE DEF A, B, f
<1>6. f \in Bijection(A, B)
  BY <1>2, <1>3, <1>4, Fun_IsBij
<1>7. ExistsBijection(A, B)
  BY <1>6 DEF ExistsBijection
<1>8. Cardinality(A) = Cardinality(B)
  BY <1>5, <1>7, FS_Bijection
<1> QED
  BY <1>8 DEF A, B, Count
-----------------------------------------------------------------------------
(* Sorting. *)

\* No endpoint precedes an earlier one.
InTimeOrder(s) == \A i, j \in 1..Len(s) : i < j => ~Precedes(s[j], s[i])

\* s and t have the same endpoints.
Permutes(t, s) ==
  /\ Len(t) = Len(s)
  /\ \E p \in Bijection(1..Len(s), 1..Len(s)) : \A i \in 1..Len(s) : t[i] = s[p[i]]

LEMMA EndpointIs ==
  ASSUME NEW x \in Endpoint
  PROVE  x.time \in Nat /\ x.time \in 0..MaxInstant /\ x.end \in BOOLEAN /\ x.key \in Keys /\ x.key \in Nat
<1>1. x.time \in 0..MaxInstant /\ x.end \in BOOLEAN /\ x.key \in Keys
  BY DEF Endpoint
<1>2. x.key \in Nat
  BY <1>1, KeysAssumption DEF KeysAssumption
<1>3. x.time \in Nat
  BY <1>1
<1> QED
  BY <1>1, <1>2, <1>3

LEMMA PrecedesOrders ==
  ASSUME NEW x \in Endpoint, NEW y \in Endpoint, NEW z \in Endpoint
  PROVE  /\ ~Precedes(x, x)
         /\ Precedes(x, y) => ~Precedes(y, x)
         /\ Precedes(x, y) /\ Precedes(y, z) => Precedes(x, z)
         /\ Precedes(x, y) \/ Precedes(y, x) \/ x = y
<1>1. /\ x.time \in Int /\ y.time \in Int /\ z.time \in Int
      /\ x.end \in BOOLEAN /\ y.end \in BOOLEAN /\ z.end \in BOOLEAN
      /\ x.key \in Int /\ y.key \in Int /\ z.key \in Int
  BY EndpointIs
<1>2. x.time = y.time /\ x.end = y.end /\ x.key = y.key => x = y
  BY DEF Endpoint
<1> QED
  BY <1>1, <1>2 DEF Precedes

\* Sorting rearranges, and leaves nothing before what precedes it.
LEMMA ArrangedIs ==
  ASSUME NEW s \in Seq(Endpoint)
  PROVE  /\ Arranged(s) \in Seq(Endpoint)
         /\ Permutes(Arranged(s), s) /\ InTimeOrder(Arranged(s))
<1> DEFINE n == Len(s)
           N == 1..n
           Comes(i, j) == Precedes(s[i], s[j]) \/ (s[i] = s[j] /\ i <= j)
           Below(i) == {j \in N : Comes(j, i)}
           place(i) == Cardinality(Below(i))
<1>1. n \in Nat /\ DOMAIN s = N /\ \A i \in N : s[i] \in Endpoint /\ i \in Nat
  OBVIOUS
<1>2. \A i \in N : Place(s, i) = place(i)
  BY <1>1 DEF Place
<1>3. /\ \A i \in N : Comes(i, i)
      /\ \A i, j \in N : i # j => (Comes(i, j) <=> ~Comes(j, i))
      /\ \A i, j, k \in N : Comes(i, j) /\ Comes(j, k) => Comes(i, k)
  <2> SUFFICES ASSUME NEW i \in N, NEW j \in N, NEW k \in N
               PROVE  /\ Comes(i, i)
                      /\ i # j => (Comes(i, j) <=> ~Comes(j, i))
                      /\ Comes(i, j) /\ Comes(j, k) => Comes(i, k)
    OBVIOUS
  <2>1. s[i] \in Endpoint /\ s[j] \in Endpoint /\ s[k] \in Endpoint /\ i \in Nat /\ j \in Nat /\ k \in Nat
    BY <1>1
  <2> HIDE DEF N, n
  <2>2. /\ ~Precedes(s[i], s[i])
        /\ Precedes(s[i], s[j]) => ~Precedes(s[j], s[i])
        /\ Precedes(s[i], s[j]) /\ Precedes(s[j], s[k]) => Precedes(s[i], s[k])
        /\ Precedes(s[i], s[j]) \/ Precedes(s[j], s[i]) \/ s[i] = s[j]
    BY <2>1, PrecedesOrders
  <2> QED
    BY <2>1, <2>2
<1>4. IsFiniteSet(N) /\ Cardinality(N) = n
  <2>1. IsFiniteSet(1..n) /\ Cardinality(1..n) = IF 1 > n THEN 0 ELSE n - 1 + 1
    BY <1>1, FS_Interval
  <2> HIDE DEF n
  <2> QED
    BY <1>1, <2>1
<1> HIDE DEF Comes, N, n
<1>5. \A i \in N : IsFiniteSet(Below(i)) /\ place(i) \in N
  <2> SUFFICES ASSUME NEW i \in N
               PROVE  IsFiniteSet(Below(i)) /\ place(i) \in N
    OBVIOUS
  <2>1. Below(i) \in SUBSET N /\ i \in Below(i)
    BY <1>3
  <2> HIDE DEF Below
  <2>2. IsFiniteSet(Below(i)) /\ Cardinality(Below(i)) <= Cardinality(N)
    BY <1>4, <2>1, FS_Subset
  <2>3. Cardinality(Below(i)) \in Nat /\ Cardinality(Below(i)) # 0
    BY <2>1, <2>2, FS_CardinalityType, FS_EmptySet
  <2> QED
    BY <1>1, <1>4, <2>2, <2>3 DEF N
<1>5a. \A i \in N : place(i) \in Int
  BY <1>1, <1>5
<1>6. \A i, j \in N : i # j /\ Comes(i, j) => place(i) < place(j)
  <2> SUFFICES ASSUME NEW i \in N, NEW j \in N, i # j, Comes(i, j)
               PROVE  place(i) < place(j)
    OBVIOUS
  <2>1. Below(i) \in SUBSET Below(j) /\ j \in Below(j) /\ j \notin Below(i)
    BY <1>3
  <2>2. IsFiniteSet(Below(j)) /\ place(i) \in Int /\ place(j) \in Int
    BY <1>5, <1>5a
  <2> HIDE DEF Below
  <2>3. /\ Cardinality(Below(i)) <= Cardinality(Below(j))
        /\ Cardinality(Below(j)) = Cardinality(Below(i)) => Below(j) = Below(i)
    BY <2>1, <2>2, FS_Subset
  <2> QED
    BY <2>1, <2>2, <2>3
<1> HIDE DEF place
<1> DEFINE f == [i \in N |-> place(i)]
           at(m) == CHOOSE i \in N : place(i) = m
<1>7. \A i, j \in N : place(i) = place(j) => i = j
  <2> SUFFICES ASSUME NEW i \in N, NEW j \in N, i # j, place(i) = place(j)
               PROVE  FALSE
    OBVIOUS
  <2>1. place(i) < place(j) \/ place(j) < place(i)
    BY <1>3, <1>6
  <2>2. place(i) \in Int /\ place(j) \in Int
    BY <1>5a
  <2> QED
    BY <2>1, <2>2
<1>8. \A m \in N : \E i \in N : place(i) = m
  <2>1. f \in [N -> N]
    BY <1>5
  <2>2. \A i, j \in N : f[i] = f[j] => i = j
    BY <1>7
  <2>3. \A m \in N : (\E i \in N : f[i] = m) => \E i \in N : place(i) = m
    OBVIOUS
  <2> HIDE DEF f
  <2>4. f \in Injection(N, N)
    BY <2>1, <2>2, Fun_IsInj
  <2>5. f \in Surjection(N, N)
    BY <1>4, <2>4, FS_Injection
  <2>6. \A m \in N : \E i \in N : f[i] = m
    BY <2>5, Fun_SurjectionProperties
  <2> QED
    BY <2>3, <2>6
<1>9. \A m \in N : at(m) \in N /\ place(at(m)) = m
  BY <1>8
<1>10. Arranged(s) = [m \in N |-> s[at(m)]]
  <2>1. Arranged(s) = [m \in N |-> s[CHOOSE i \in N : Place(s, i) = m]]
    BY <1>1 DEF Arranged
  <2>2. \A m \in N : (CHOOSE i \in N : Place(s, i) = m) = (CHOOSE i \in N : place(i) = m)
    BY <1>2
  <2> QED
    BY <2>1, <2>2
<1> DEFINE p == [m \in N |-> at(m)]
           t == Arranged(s)
<1>11. p \in Bijection(N, N)
  <2>1. p \in [N -> N] /\ \A m \in N : place(p[m]) = m
    BY <1>9
  <2>2. \A i \in N : p[place(i)] = i
    <3> SUFFICES ASSUME NEW i \in N
                 PROVE  p[place(i)] = i
      OBVIOUS
    <3>1. place(i) \in N /\ p[place(i)] \in N /\ place(p[place(i)]) = place(i)
      BY <1>5, <2>1
    <3> HIDE DEF p
    <3> QED
      BY <1>7, <3>1
  <2> HIDE DEF p
  <2>3. \A i, j \in N : p[i] = p[j] => i = j
    BY <2>1
  <2>4. \A i \in N : \E m \in N : p[m] = i
    BY <1>5, <2>2
  <2> QED
    BY <2>1, <2>3, <2>4, Fun_IsBij
<1>12. t \in Seq(Endpoint) /\ Len(t) = n /\ \A m \in N : t[m] = s[p[m]]
  <2>1. t \in [1..n -> Endpoint] /\ \A m \in N : t[m] = s[p[m]]
    BY <1>1, <1>9, <1>10 DEF N
  <2> QED
    BY <1>1, <2>1
<1>13. InTimeOrder(t)
  <2> SUFFICES ASSUME NEW i \in N, NEW j \in N, i < j, Precedes(t[j], t[i])
               PROVE  FALSE
    BY <1>12 DEF InTimeOrder, N
  <2>1. p[i] \in N /\ p[j] \in N /\ place(p[i]) = i /\ place(p[j]) = j
    BY <1>9
  <2>2. t[i] = s[p[i]] /\ t[j] = s[p[j]] /\ i # j /\ i \in Int /\ j \in Int
    BY <1>1, <1>12
  <2> HIDE DEF p, t
  <2>3. p[i] # p[j] /\ Comes(p[j], p[i])
    BY <2>1, <2>2 DEF Comes
  <2>4. place(p[j]) < place(p[i])
    BY <1>6, <2>1, <2>3
  <2> QED
    BY <2>1, <2>2, <2>4
<1> HIDE DEF p, t
<1>14. Permutes(t, s)
  BY <1>11, <1>12 DEF Permutes, N, n
<1> QED
  BY <1>12, <1>13, <1>14 DEF t
-----------------------------------------------------------------------------
(* What the application did. *)

Begins(k) == {x \in Endpoint : ~x.end /\ x.key = k}
Ends(k) == {x \in Endpoint : x.end /\ x.key = k}
By(t) == {x \in Endpoint : x.time <= t}
At(t) == {x \in Endpoint : x.time = t}

Stop(s) == s.start + s.duration
StartsAt(k, t) == {s \in Section : s.key = k /\ s.start = t}
StopsAt(k, t) == {s \in Section : s.key = k /\ Stop(s) = t}

Instants == 0..MaxInstant

PairingTyped ==
  /\ pc \in {"record", "pair", "done", "error"} /\ now \in Instants
  /\ open \in [Keys -> Seq(Instants)] /\ truth \in Seq(Section)
  /\ trace \in Seq(Endpoint) /\ paired \in 0..Len(trace)
  /\ pending \in [Keys -> Seq(Instants)] /\ pairs \in Seq(Section)

\* Nothing that was recorded lies in the future.
Recorded ==
  /\ \A i \in 1..Len(truth) : Stop(truth[i]) <= now
  /\ pc = "record" =>
    /\ paired = 0 /\ pending = NothingOpen /\ pairs = <<>>
    /\ \A i \in 1..Len(trace) : trace[i].time <= now
    /\ \A k \in Keys : \A a \in 1..Len(open[k]) : open[k][a] <= now

\* A section of a key that begins within another ends within it.
SectionsNest ==
  \A k \in Keys :
    /\ \A a, b \in 1..Len(open[k]) : a < b => open[k][a] <= open[k][b]
    /\ \A a \in 1..Len(open[k]) : \A j \in 1..Len(truth) :
         truth[j].key = k => ~(truth[j].start < open[k][a] /\ open[k][a] < Stop(truth[j]))
    /\ \A i, j \in 1..Len(truth) :
         truth[i].key = k /\ truth[j].key = k =>
           ~(truth[i].start < truth[j].start /\ truth[j].start < Stop(truth[i])
             /\ Stop(truth[i]) < Stop(truth[j]))

\* The endpoints are those of the sections, and by no instant have more ended than begun.
EndpointsOf(s, k) ==
  /\ \A t \in Instants :
       /\ Total(s, Begins(k) \cap At(t)) = Total(truth, StartsAt(k, t)) + Total(open[k], {t})
       /\ Total(s, Ends(k) \cap At(t)) = Total(truth, StopsAt(k, t))
       /\ Total(s, Ends(k) \cap By(t)) <= Total(s, Begins(k) \cap By(t))
  /\ Total(s, Begins(k)) = Total(s, Ends(k)) + Len(open[k])
EndpointsAgree == \A k \in Keys : EndpointsOf(trace, k)

RecordInv == Recorded /\ SectionsNest /\ EndpointsAgree

LEMMA SectionIs ==
  ASSUME NEW s \in Section
  PROVE  /\ s.key \in Keys /\ s.start \in Instants /\ s.duration \in Nat
         /\ s.start \in Nat /\ Stop(s) \in Nat
<1>1. s.key \in Keys /\ s.start \in Instants /\ s.duration \in Nat
  BY DEF Section, Instants
<1>2. s.start \in Nat
  BY <1>1 DEF Instants
<1> QED
  BY <1>1, <1>2 DEF Stop

LEMMA TotalNothing ==
  ASSUME NEW S
  PROVE  Total(<<>>, S) = 0
  BY CountNothing DEF Total

LEMMA PairingTypedInit == PairingInit => PairingTyped
<1> SUFFICES ASSUME PairingInit
             PROVE  PairingTyped
  OBVIOUS
<1>1. NothingOpen \in [Keys -> Seq(Instants)]
  BY DEF NothingOpen
<1>2. 0 \in Instants
  BY BoundsAssumption DEF BoundsAssumption, Instants
<1> QED
  BY <1>1, <1>2 DEF PairingInit, PairingTyped

LEMMA RecordInit == PairingInit => RecordInv
<1> SUFFICES ASSUME PairingInit
             PROVE  RecordInv
  OBVIOUS
<1>1. /\ truth = <<>> /\ trace = <<>> /\ paired = 0 /\ pending = NothingOpen /\ pairs = <<>>
      /\ \A k \in Keys : open[k] = <<>>
  BY DEF PairingInit, NothingOpen
<1>2. Recorded
  BY <1>1 DEF Recorded
<1>3. SectionsNest
  BY <1>1 DEF SectionsNest
<1>4. ASSUME NEW k \in Keys
      PROVE  EndpointsOf(trace, k)
  <2>1. open[k] = <<>> /\ Len(open[k]) = 0
    BY <1>1
  <2>2. \A S : Total(trace, S) = 0 /\ Total(truth, S) = 0 /\ Total(open[k], S) = 0
    BY <1>1, <2>1, TotalNothing
  <2> QED
    BY <2>1, <2>2 DEF EndpointsOf
<1> QED
  BY <1>2, <1>3, <1>4 DEF RecordInv, EndpointsAgree

\* What each step does.
LEMMA TickTyped ==
  ASSUME PairingTyped, Tick
  PROVE  PairingTyped'
<1>1. now + 1 \in Instants
  BY BoundsAssumption DEF PairingTyped, Tick, Instants, BoundsAssumption
<1> QED
  BY <1>1 DEF PairingTyped, Tick, Instants

LEMMA TickRecorded ==
  ASSUME PairingTyped, RecordInv, Tick
  PROVE  RecordInv'
<1>1. /\ pc = "record" /\ now' = now + 1 /\ now \in Nat
      /\ UNCHANGED <<pc, open, truth, trace, paired, pending, pairs>>
  BY DEF Tick, PairingTyped, Instants
<1>2. Recorded'
  <2>1. /\ \A i \in 1..Len(trace) : trace[i].time \in Nat
        /\ \A i \in 1..Len(truth) : Stop(truth[i]) \in Nat
        /\ \A k \in Keys : \A a \in 1..Len(open[k]) : open[k][a] \in Nat
    <3>1. \A k \in Keys : \A a \in 1..Len(open[k]) : open[k][a] \in Instants
      BY DEF PairingTyped
    <3>2. /\ \A i \in 1..Len(trace) : trace[i] \in Endpoint
          /\ \A i \in 1..Len(truth) : truth[i] \in Section
      BY DEF PairingTyped
    <3> QED
      BY <3>1, <3>2, EndpointIs, SectionIs DEF Instants
  <2>2. /\ \A i \in 1..Len(trace) : trace[i].time <= now + 1
        /\ \A i \in 1..Len(truth) : Stop(truth[i]) <= now + 1
        /\ \A k \in Keys : \A a \in 1..Len(open[k]) : open[k][a] <= now + 1
    BY <1>1, <2>1 DEF RecordInv, Recorded
  <2> QED
    BY <1>1, <2>2 DEF RecordInv, Recorded, Stop
<1>3. SectionsNest'
  BY <1>1 DEF RecordInv, SectionsNest, Stop
<1>4. EndpointsAgree'
  BY <1>1 DEF RecordInv, EndpointsAgree, EndpointsOf
<1> QED
  BY <1>2, <1>3, <1>4 DEF RecordInv

\* A begin is recorded.
LEMMA BeginIs ==
  ASSUME PairingTyped, RecordInv, NEW k \in Keys, Begin(k),
         NEW x, x = [time |-> now, end |-> FALSE, key |-> k]
  PROVE  /\ x \in Endpoint /\ now \in Instants /\ now \in Nat
         /\ trace' = Append(trace, x)
         /\ open' \in [Keys -> Seq(Instants)] /\ open'[k] = Append(open[k], now)
         /\ \A j \in Keys : j # k => open'[j] = open[j]
<1>1. now \in Instants /\ now \in Nat
  BY DEF PairingTyped, Instants
<1>2. x \in Endpoint
  BY <1>1 DEF Endpoint, Instants
<1>3. open' = [open EXCEPT ![k] = Append(open[k], now)] /\ trace' = Append(trace, x)
  BY DEF Begin
<1>4. open \in [Keys -> Seq(Instants)] /\ Append(open[k], now) \in Seq(Instants)
  BY <1>1 DEF PairingTyped
<1> QED
  BY <1>1, <1>2, <1>3, <1>4

LEMMA BeginTyped ==
  ASSUME PairingTyped, RecordInv, NEW k \in Keys, Begin(k)
  PROVE  PairingTyped'
<1> DEFINE x == [time |-> now, end |-> FALSE, key |-> k]
<1> HIDE DEF x
<1>1. x \in Endpoint /\ trace' = Append(trace, x) /\ open' \in [Keys -> Seq(Instants)]
  BY BeginIs DEF x
<1>2. trace' \in Seq(Endpoint) /\ Len(trace') = Len(trace) + 1 /\ Len(trace) \in Nat
  BY <1>1 DEF PairingTyped
<1>3. UNCHANGED <<pc, now, truth, paired, pending, pairs>>
  BY DEF Begin
<1>4. Instants' = Instants
  BY DEF Instants
<1> QED
  BY <1>1, <1>2, <1>3, <1>4 DEF PairingTyped

LEMMA BeginRecorded ==
  ASSUME PairingTyped, RecordInv, NEW k \in Keys, Begin(k)
  PROVE  Recorded'
<1> DEFINE x == [time |-> now, end |-> FALSE, key |-> k]
<1>0. x.time = now
  OBVIOUS
<1> HIDE DEF x
<1>1. /\ x \in Endpoint /\ now \in Nat /\ trace' = Append(trace, x)
      /\ open'[k] = Append(open[k], now) /\ \A j \in Keys : j # k => open'[j] = open[j]
  BY BeginIs DEF x
<1>2. pc = "record" /\ UNCHANGED <<pc, now, truth, paired, pending, pairs>>
  BY DEF Begin
<1>3. /\ paired = 0 /\ pending = NothingOpen /\ pairs = <<>>
      /\ \A i \in 1..Len(trace) : trace[i].time <= now
      /\ \A i \in 1..Len(truth) : Stop(truth[i]) <= now
      /\ \A j \in Keys : \A a \in 1..Len(open[j]) : open[j][a] <= now
  BY <1>2 DEF RecordInv, Recorded
<1>4. trace \in Seq(Endpoint) /\ open[k] \in Seq(Instants)
  BY DEF PairingTyped
<1>5. \A i \in 1..Len(trace') : trace'[i].time <= now
  <2>1. \A i \in 1..Len(trace') : IF i = Len(trace) + 1 THEN trace'[i] = x
                                   ELSE i \in 1..Len(trace) /\ trace'[i] = trace[i]
    BY <1>1, <1>4
  <2> QED
    BY <1>0, <1>1, <1>3, <2>1
<1>6. \A j \in Keys : \A a \in 1..Len(open'[j]) : open'[j][a] <= now
  <2>1. \A a \in 1..Len(open'[k]) : open'[k][a] <= now
    BY <1>1, <1>3, <1>4
  <2> QED
    BY <1>1, <1>3, <2>1
<1> QED
  BY <1>2, <1>3, <1>5, <1>6 DEF Recorded, Stop, NothingOpen

LEMMA BeginNests ==
  ASSUME PairingTyped, RecordInv, NEW k \in Keys, Begin(k)
  PROVE  SectionsNest'
<1> DEFINE x == [time |-> now, end |-> FALSE, key |-> k]
           n == Len(open[k])
<1>1. /\ now \in Nat /\ open'[k] = Append(open[k], now)
      /\ \A j \in Keys : j # k => open'[j] = open[j]
  BY BeginIs
<1>2. pc = "record" /\ truth' = truth
  BY DEF Begin
<1>3. /\ \A i \in 1..Len(truth) : Stop(truth[i]) <= now
      /\ \A a \in 1..n : open[k][a] <= now
  BY <1>2 DEF RecordInv, Recorded
<1>4. open[k] \in Seq(Instants) /\ n \in Nat
  BY DEF PairingTyped
<1>5. \A i \in 1..Len(truth) : Stop(truth[i]) \in Nat /\ truth[i].start \in Nat
  BY SectionIs DEF PairingTyped
<1>6. /\ Len(open'[k]) = n + 1 /\ open'[k][n + 1] = now
      /\ \A a \in 1..n : open'[k][a] = open[k][a]
  BY <1>1, <1>4
<1> HIDE DEF n
<1>7. \A a, b \in 1..n + 1 : a < b => open'[k][a] <= open'[k][b]
  <2> SUFFICES ASSUME NEW a \in 1..n + 1, NEW b \in 1..n + 1, a < b
               PROVE  open'[k][a] <= open'[k][b]
    OBVIOUS
  <2>1. a \in 1..n
    BY <1>4
  <2>2. CASE b \in 1..n
    BY <1>6, <2>1, <2>2 DEF RecordInv, SectionsNest, n
  <2>3. CASE b = n + 1
    BY <1>3, <1>6, <2>1, <2>3
  <2> QED
    BY <1>4, <2>2, <2>3
<1>8. \A a \in 1..n + 1 : \A j \in 1..Len(truth) :
         truth[j].key = k => ~(truth[j].start < open'[k][a] /\ open'[k][a] < Stop(truth[j]))
  <2> SUFFICES ASSUME NEW a \in 1..n + 1, NEW j \in 1..Len(truth), truth[j].key = k
               PROVE  ~(truth[j].start < open'[k][a] /\ open'[k][a] < Stop(truth[j]))
    OBVIOUS
  <2>1. CASE a \in 1..n
    BY <1>6, <2>1 DEF RecordInv, SectionsNest, n
  <2>2. CASE a = n + 1
    BY <1>1, <1>3, <1>5, <1>6, <2>2
  <2> QED
    BY <1>4, <2>1, <2>2
<1>9. \A i : Stop(truth[i])' = Stop(truth[i])
  BY <1>2 DEF Stop
<1>10. ASSUME NEW j \in Keys, j # k
       PROVE  /\ \A a, b \in 1..Len(open'[j]) : a < b => open'[j][a] <= open'[j][b]
              /\ \A a \in 1..Len(open'[j]) : \A i \in 1..Len(truth) :
                   truth[i].key = j => ~(truth[i].start < open'[j][a] /\ open'[j][a] < Stop(truth[i]))
  BY <1>1, <1>10 DEF RecordInv, SectionsNest
<1>11. ASSUME NEW l \in Keys
       PROVE  \A i, j \in 1..Len(truth) :
                truth[i].key = l /\ truth[j].key = l =>
                  ~(truth[i].start < truth[j].start /\ truth[j].start < Stop(truth[i])
                    /\ Stop(truth[i]) < Stop(truth[j]))
  BY DEF RecordInv, SectionsNest
<1>12. ASSUME NEW j \in Keys
       PROVE  /\ \A a, b \in 1..Len(open'[j]) : a < b => open'[j][a] <= open'[j][b]
              /\ \A a \in 1..Len(open'[j]) : \A i \in 1..Len(truth) :
                   truth[i].key = j => ~(truth[i].start < open'[j][a] /\ open'[j][a] < Stop(truth[i]))
  BY <1>6, <1>7, <1>8, <1>10
<1> QED
  BY <1>2, <1>11, <1>12 DEF SectionsNest, Stop

LEMMA BeginAgrees ==
  ASSUME PairingTyped, RecordInv, NEW k \in Keys, Begin(k)
  PROVE  EndpointsAgree'
<1> DEFINE x == [time |-> now, end |-> FALSE, key |-> k]
<1>0. x.time = now /\ x.end = FALSE /\ x.key = k
  OBVIOUS
<1> HIDE DEF x
<1>1. /\ x \in Endpoint /\ now \in Nat /\ now \in Instants /\ trace' = Append(trace, x)
      /\ open'[k] = Append(open[k], now) /\ \A j \in Keys : j # k => open'[j] = open[j]
  BY BeginIs DEF x
<1>2. truth' = truth /\ trace \in Seq(Endpoint) /\ open[k] \in Seq(Instants)
  BY DEF Begin, PairingTyped
<1>3. \A S : Total(trace', S) = IF x \in S THEN Total(trace, S) + 1 ELSE Total(trace, S)
  BY <1>1, <1>2, TotalAppended
<1>4. \A S : Total(open'[k], S) = IF now \in S THEN Total(open[k], S) + 1 ELSE Total(open[k], S)
  BY <1>1, <1>2, TotalAppended
<1>5. \A j \in Keys : \A t \in Instants :
         /\ x \in Begins(j) <=> j = k
         /\ x \in Begins(j) \cap At(t) <=> j = k /\ t = now
         /\ x \notin Ends(j) /\ x \notin Ends(j) \cap At(t) /\ x \notin Ends(j) \cap By(t)
  BY <1>0, <1>1 DEF Begins, Ends, At, By
<1>6. \A S : Total(trace, S) \in Nat /\ Total(truth, S) \in Nat
  BY <1>2, CountIs DEF Total, PairingTyped
<1>7. ASSUME NEW j \in Keys
      PROVE  EndpointsOf(trace, j)'
  <2> SUFFICES /\ \A t \in Instants :
                    /\ Total(trace', Begins(j) \cap At(t)) = Total(truth', StartsAt(j, t)) + Total(open'[j], {t})
                    /\ Total(trace', Ends(j) \cap At(t)) = Total(truth', StopsAt(j, t))
                    /\ Total(trace', Ends(j) \cap By(t)) <= Total(trace', Begins(j) \cap By(t))
               /\ Total(trace', Begins(j)) = Total(trace', Ends(j)) + Len(open'[j])
    BY DEF EndpointsOf, Instants, Total, Count, Hits, Begins, Ends, At, By, StartsAt, StopsAt,
                Stop, Endpoint, Section
  <2>1. EndpointsOf(trace, j)
    BY DEF RecordInv, EndpointsAgree
  <2>2. Total(open[j], {now}) \in Nat /\ Len(open[j]) \in Nat /\ \A t \in Instants : Total(open[j], {t}) \in Nat
    BY <1>1, CountIs DEF Total, PairingTyped
  <2>3. ASSUME NEW t \in Instants
        PROVE  Total(trace', Begins(j) \cap At(t)) = Total(truth, StartsAt(j, t)) + Total(open'[j], {t})
    <3>1. Total(trace, Begins(j) \cap At(t)) = Total(truth, StartsAt(j, t)) + Total(open[j], {t})
      BY <2>1 DEF EndpointsOf
    <3>2. CASE j = k /\ t = now
      <4>1. Total(trace', Begins(j) \cap At(t)) = Total(trace, Begins(j) \cap At(t)) + 1
        BY <1>3, <1>5, <3>2
      <4>2. Total(open'[j], {t}) = Total(open[j], {t}) + 1
        BY <1>4, <3>2
      <4> QED
        BY <1>6, <2>2, <3>1, <4>1, <4>2
    <3>3. CASE ~(j = k /\ t = now)
      <4>1. Total(trace', Begins(j) \cap At(t)) = Total(trace, Begins(j) \cap At(t))
        BY <1>3, <1>5, <3>3
      <4>2. Total(open'[j], {t}) = Total(open[j], {t})
        BY <1>1, <1>4, <3>3
      <4> QED
        BY <3>1, <4>1, <4>2
    <3> QED
      BY <3>2, <3>3
  <2>4. ASSUME NEW t \in Instants
        PROVE  /\ Total(trace', Ends(j) \cap At(t)) = Total(truth, StopsAt(j, t))
               /\ Total(trace', Ends(j) \cap By(t)) <= Total(trace', Begins(j) \cap By(t))
    <3>1. /\ Total(trace, Ends(j) \cap At(t)) = Total(truth, StopsAt(j, t))
          /\ Total(trace, Ends(j) \cap By(t)) <= Total(trace, Begins(j) \cap By(t))
      BY <2>1 DEF EndpointsOf
    <3>2. /\ Total(trace', Ends(j) \cap At(t)) = Total(trace, Ends(j) \cap At(t))
          /\ Total(trace', Ends(j) \cap By(t)) = Total(trace, Ends(j) \cap By(t))
      BY <1>3, <1>5
    <3>3. Total(trace', Begins(j) \cap By(t)) >= Total(trace, Begins(j) \cap By(t))
      BY <1>3, <1>6
    <3>4. /\ Total(trace, Ends(j) \cap By(t)) \in Nat /\ Total(trace, Begins(j) \cap By(t)) \in Nat
          /\ Total(trace', Begins(j) \cap By(t)) \in Nat
      BY <1>3, <1>6
    <3>5. Total(trace, Ends(j) \cap By(t)) <= Total(trace', Begins(j) \cap By(t))
      BY <3>1, <3>3, <3>4
    <3> QED
      BY <3>1, <3>2, <3>5
  <2>5. Total(trace', Begins(j)) = Total(trace', Ends(j)) + Len(open'[j])
    <3>1. Total(trace, Begins(j)) = Total(trace, Ends(j)) + Len(open[j])
      BY <2>1 DEF EndpointsOf
    <3>2. now \in Instants
      BY <1>1
    <3>3. Total(trace', Ends(j)) = Total(trace, Ends(j))
      BY <1>3, <1>5, <3>2
    <3>4. Total(trace', Begins(j)) = IF j = k THEN Total(trace, Begins(j)) + 1 ELSE Total(trace, Begins(j))
      BY <1>3, <1>5, <3>2
    <3>5. Len(open'[j]) = IF j = k THEN Len(open[j]) + 1 ELSE Len(open[j])
      BY <1>1, <1>2
    <3> QED
      BY <1>6, <2>2, <3>1, <3>3, <3>4, <3>5
  <2> QED
    BY <1>2, <2>3, <2>4, <2>5
<1> QED
  BY <1>7 DEF EndpointsAgree

\* An end is recorded: the section that began last is closed.
LEMMA EndIs ==
  ASSUME PairingTyped, RecordInv, NEW k \in Keys, End(k),
         NEW x, x = [time |-> now, end |-> TRUE, key |-> k],
         NEW s, s = Close(open[k], k, now)
  PROVE  /\ x \in Endpoint /\ now \in Instants /\ now \in Nat
         /\ trace' = Append(trace, x)
         /\ open[k] # <<>> /\ open[k] \in Seq(Instants) /\ Last(open[k]) \in Instants
         /\ s \in Section /\ s.key = k /\ s.start = Last(open[k]) /\ Stop(s) = now
         /\ truth' = Append(truth, s)
         /\ open' \in [Keys -> Seq(Instants)] /\ open'[k] = Front(open[k])
         /\ \A j \in Keys : j # k => open'[j] = open[j]
<1>1. now \in Instants /\ now \in Nat
  BY DEF PairingTyped, Instants
<1>2. x \in Endpoint
  BY <1>1 DEF Endpoint, Instants
<1>3. /\ open' = [open EXCEPT ![k] = Front(open[k])] /\ trace' = Append(trace, x)
      /\ open[k] # <<>> /\ truth' = Append(truth, s) /\ pc = "record"
  BY DEF End
<1>4. open \in [Keys -> Seq(Instants)] /\ open[k] \in Seq(Instants)
  BY DEF PairingTyped
<1>5. /\ Front(open[k]) \in Seq(Instants) /\ Last(open[k]) \in Instants
      /\ Last(open[k]) = open[k][Len(open[k])] /\ Len(open[k]) \in Nat \ {0}
  BY <1>3, <1>4, FrontIs
<1>6. Last(open[k]) <= now
  <2>1. Len(open[k]) \in 1..Len(open[k])
    BY <1>5
  <2> QED
    BY <1>3, <1>5, <2>1 DEF RecordInv, Recorded
<1>7. Last(open[k]) \in Nat
  BY <1>5 DEF Instants
<1>8. s = [key |-> k, start |-> Last(open[k]), duration |-> now - Last(open[k])]
  BY DEF Close
<1>9. now - Last(open[k]) \in Nat /\ Last(open[k]) + (now - Last(open[k])) = now
  BY <1>1, <1>6, <1>7
<1>10. s \in Section /\ s.key = k /\ s.start = Last(open[k]) /\ s.duration = now - Last(open[k])
  BY <1>5, <1>8, <1>9 DEF Section, Instants
<1>11. Stop(s) = now
  BY <1>9, <1>10 DEF Stop
<1> QED
  BY <1>1, <1>2, <1>3, <1>4, <1>5, <1>10, <1>11

LEMMA EndTyped ==
  ASSUME PairingTyped, RecordInv, NEW k \in Keys, End(k)
  PROVE  PairingTyped'
<1> DEFINE x == [time |-> now, end |-> TRUE, key |-> k]
           s == Close(open[k], k, now)
<1> HIDE DEF x, s
<1>1. /\ x \in Endpoint /\ trace' = Append(trace, x) /\ open' \in [Keys -> Seq(Instants)]
      /\ s \in Section /\ truth' = Append(truth, s)
  BY EndIs DEF x, s
<1>2. /\ trace' \in Seq(Endpoint) /\ Len(trace') = Len(trace) + 1 /\ Len(trace) \in Nat
      /\ truth' \in Seq(Section)
  BY <1>1 DEF PairingTyped
<1>3. UNCHANGED <<pc, now, paired, pending, pairs>>
  BY DEF End
<1>4. Instants' = Instants
  BY DEF Instants
<1> QED
  BY <1>1, <1>2, <1>3, <1>4 DEF PairingTyped

LEMMA EndRecorded ==
  ASSUME PairingTyped, RecordInv, NEW k \in Keys, End(k)
  PROVE  Recorded'
<1> DEFINE x == [time |-> now, end |-> TRUE, key |-> k]
           s == Close(open[k], k, now)
<1>0. x.time = now
  OBVIOUS
<1> HIDE DEF x, s
<1>1. /\ x \in Endpoint /\ now \in Nat /\ trace' = Append(trace, x)
      /\ open[k] # <<>> /\ open[k] \in Seq(Instants)
      /\ s \in Section /\ Stop(s) = now /\ truth' = Append(truth, s)
      /\ open'[k] = Front(open[k]) /\ \A j \in Keys : j # k => open'[j] = open[j]
  BY EndIs DEF x, s
<1>2. pc = "record" /\ UNCHANGED <<pc, now, paired, pending, pairs>>
  BY DEF End
<1>3. /\ paired = 0 /\ pending = NothingOpen /\ pairs = <<>>
      /\ \A i \in 1..Len(trace) : trace[i].time <= now
      /\ \A i \in 1..Len(truth) : Stop(truth[i]) <= now
      /\ \A j \in Keys : \A a \in 1..Len(open[j]) : open[j][a] <= now
  BY <1>2 DEF RecordInv, Recorded
<1>4. trace \in Seq(Endpoint) /\ truth \in Seq(Section)
  BY DEF PairingTyped
<1>5. \A i \in 1..Len(trace') : trace'[i].time <= now
  <2>1. \A i \in 1..Len(trace') : IF i = Len(trace) + 1 THEN trace'[i] = x
                                   ELSE i \in 1..Len(trace) /\ trace'[i] = trace[i]
    BY <1>1, <1>4
  <2> QED
    BY <1>0, <1>1, <1>3, <2>1
<1>6. \A i \in 1..Len(truth') : Stop(truth'[i]) <= now
  <2>1. \A i \in 1..Len(truth') : IF i = Len(truth) + 1 THEN truth'[i] = s
                                   ELSE i \in 1..Len(truth) /\ truth'[i] = truth[i]
    BY <1>1, <1>4
  <2> QED
    BY <1>1, <1>3, <2>1
<1>7. \A j \in Keys : \A a \in 1..Len(open'[j]) : open'[j][a] <= now
  <2>1. \A a \in 1..Len(open'[k]) : open'[k][a] <= now
    <3>1. /\ Len(open[k]) \in Nat \ {0} /\ Len(Front(open[k])) = Len(open[k]) - 1
          /\ \A i \in 1..Len(open[k]) - 1 : Front(open[k])[i] = open[k][i]
      BY <1>1, FrontIs
    <3> QED
      BY <1>1, <1>3, <3>1
  <2> QED
    BY <1>1, <1>3, <2>1
<1>8. \A i : Stop(truth[i])' = Stop(truth'[i])
  BY DEF Stop
<1> QED
  BY <1>2, <1>3, <1>5, <1>6, <1>7, <1>8 DEF Recorded, NothingOpen

LEMMA EndNests ==
  ASSUME PairingTyped, RecordInv, NEW k \in Keys, End(k)
  PROVE  SectionsNest'
<1> DEFINE x == [time |-> now, end |-> TRUE, key |-> k]
           s == Close(open[k], k, now)
           n == Len(open[k])
           m == Len(truth)
<1> HIDE DEF x, s
<1>1. /\ open[k] # <<>> /\ open[k] \in Seq(Instants)
      /\ s \in Section /\ s.key = k /\ s.start = Last(open[k]) /\ Stop(s) = now
      /\ truth' = Append(truth, s) /\ now \in Nat
      /\ open'[k] = Front(open[k]) /\ \A j \in Keys : j # k => open'[j] = open[j]
  BY EndIs DEF x, s
<1>2. /\ Last(open[k]) = open[k][n] /\ n \in Nat \ {0} /\ Len(open'[k]) = n - 1
      /\ \A i \in 1..n - 1 : open'[k][i] = open[k][i]
  <2>1. /\ Last(open[k]) = open[k][Len(open[k])] /\ Len(open[k]) \in Nat \ {0}
        /\ Len(Front(open[k])) = Len(open[k]) - 1
        /\ \A i \in 1..Len(open[k]) - 1 : Front(open[k])[i] = open[k][i]
    BY <1>1, FrontIs
  <2> QED
    BY <1>1, <2>1
<1>3. \A i \in 1..n : open[k][i] \in Nat
  <2>1. \A i \in 1..n : open[k][i] \in Instants
    BY <1>1
  <2> QED
    BY <2>1 DEF Instants
<1>4. truth \in Seq(Section) /\ m \in Nat
  BY DEF PairingTyped
<1>5. \A i \in 1..m : Stop(truth[i]) \in Nat /\ truth[i].start \in Nat /\ Stop(truth[i]) <= now
  BY <1>4, SectionIs DEF RecordInv, Recorded, End
<1>6. Len(truth') = m + 1 /\ truth'[m + 1] = s /\ \A i \in 1..m : truth'[i] = truth[i]
  BY <1>1, <1>4
<1>7. SectionsNest
  BY DEF RecordInv
<1> HIDE DEF n, m
<1>8. ASSUME NEW l \in Keys, NEW a \in 1..Len(open'[l])
      PROVE  /\ a \in 1..Len(open[l]) /\ open'[l][a] = open[l][a]
             /\ l = k => a \in 1..n /\ a < n /\ open[k][a] <= open[k][n]
  <2>1. CASE l = k
    <3>1. a \in 1..n - 1
      BY <1>2, <2>1
    <3>2. a \in 1..n /\ a < n /\ n \in 1..n
      BY <1>2, <3>1
    <3>3. open[k][a] <= open[k][n]
      BY <1>7, <3>2 DEF SectionsNest, n
    <3> QED
      BY <1>2, <2>1, <3>1, <3>2, <3>3 DEF n
  <2>2. CASE l # k
    BY <1>1, <2>2
  <2> QED
    BY <2>1, <2>2
<1>9. ASSUME NEW l \in Keys
      PROVE  \A a, b \in 1..Len(open'[l]) : a < b => open'[l][a] <= open'[l][b]
  BY <1>7, <1>8 DEF SectionsNest
<1>10. ASSUME NEW l \in Keys, NEW a \in 1..Len(open'[l]), NEW j \in 1..m + 1, truth'[j].key = l
       PROVE  ~(truth'[j].start < open'[l][a] /\ open'[l][a] < Stop(truth'[j]))
  <2>1. CASE j \in 1..m
    BY <1>6, <1>7, <1>8, <1>10, <2>1 DEF SectionsNest, m
  <2>2. CASE j = m + 1
    <3>1. l = k /\ truth'[j].start = open[k][n]
      BY <1>1, <1>2, <1>6, <1>10, <2>2
    <3>2. open'[l][a] = open[k][a] /\ open[k][a] <= open[k][n] /\ a \in 1..n /\ n \in 1..n
      BY <1>2, <1>8, <3>1
    <3> QED
      BY <1>3, <3>1, <3>2
  <2> QED
    BY <1>4, <2>1, <2>2
<1>11. ASSUME NEW l \in Keys, NEW i \in 1..m + 1, NEW j \in 1..m + 1,
              truth'[i].key = l, truth'[j].key = l
       PROVE  ~(truth'[i].start < truth'[j].start /\ truth'[j].start < Stop(truth'[i])
                /\ Stop(truth'[i]) < Stop(truth'[j]))
  <2>1. CASE i \in 1..m /\ j \in 1..m
    BY <1>6, <1>7, <1>11, <2>1 DEF SectionsNest, m
  <2>2. CASE i = m + 1
    <3>1. Stop(truth'[i]) = now
      BY <1>1, <1>6, <2>2
    <3>2. Stop(truth'[j]) \in Nat /\ Stop(truth'[j]) <= now
      BY <1>1, <1>4, <1>5, <1>6
    <3>3. ~(Stop(truth'[i]) < Stop(truth'[j]))
      <4> DEFINE p == Stop(truth'[i])
                 q == Stop(truth'[j])
      <4>1. p = now /\ q \in Nat /\ q <= now /\ now \in Nat
        BY <1>1, <3>1, <3>2
      <4> HIDE DEF p, q
      <4>2. ~(p < q)
        BY <4>1
      <4> QED
        BY <4>2 DEF p, q
    <3> QED
      BY <3>3
  <2>3. CASE i \in 1..m /\ j = m + 1
    <3>1. l = k /\ truth'[j].start = open[k][n] /\ n \in 1..n
      BY <1>1, <1>2, <1>6, <1>11, <2>3
    <3>2. ~(truth[i].start < open[k][n] /\ open[k][n] < Stop(truth[i]))
      BY <1>6, <1>7, <1>11, <2>3, <3>1 DEF SectionsNest, n, m
    <3> QED
      BY <1>6, <2>3, <3>1, <3>2
  <2> QED
    BY <1>4, <2>1, <2>2, <2>3
<1>12. \A i : Stop(truth[i])' = Stop(truth'[i])
  BY DEF Stop
<1> QED
  BY <1>6, <1>9, <1>10, <1>11, <1>12 DEF SectionsNest

LEMMA EndAgrees ==
  ASSUME PairingTyped, RecordInv, NEW k \in Keys, End(k)
  PROVE  EndpointsAgree'
<1> DEFINE x == [time |-> now, end |-> TRUE, key |-> k]
           s == Close(open[k], k, now)
<1>0. x.time = now /\ x.end = TRUE /\ x.key = k
  OBVIOUS
<1> HIDE DEF x, s
<1>1. /\ x \in Endpoint /\ now \in Nat /\ now \in Instants /\ trace' = Append(trace, x)
      /\ open[k] # <<>> /\ open[k] \in Seq(Instants) /\ Last(open[k]) \in Instants
      /\ s \in Section /\ s.key = k /\ s.start = Last(open[k]) /\ Stop(s) = now
      /\ truth' = Append(truth, s)
      /\ open'[k] = Front(open[k]) /\ \A j \in Keys : j # k => open'[j] = open[j]
  BY EndIs DEF x, s
<1>2. truth \in Seq(Section) /\ trace \in Seq(Endpoint)
  BY DEF PairingTyped
<1>3. \A S : Total(trace', S) = IF x \in S THEN Total(trace, S) + 1 ELSE Total(trace, S)
  BY <1>1, <1>2, TotalAppended
<1>4. \A S : Total(truth', S) = IF s \in S THEN Total(truth, S) + 1 ELSE Total(truth, S)
  BY <1>1, <1>2, TotalAppended
<1>5. \A S : Total(open[k], S) = IF Last(open[k]) \in S THEN Total(open'[k], S) + 1 ELSE Total(open'[k], S)
  BY <1>1, TotalOfFront
<1>6. \A j \in Keys : \A t \in Instants :
         /\ x \notin Begins(j) /\ x \notin Begins(j) \cap At(t) /\ x \notin Begins(j) \cap By(t)
         /\ x \in Ends(j) <=> j = k
         /\ x \in Ends(j) \cap At(t) <=> j = k /\ t = now
         /\ x \in Ends(j) \cap By(t) <=> j = k /\ now <= t
         /\ s \in StartsAt(j, t) <=> j = k /\ t = Last(open[k])
         /\ s \in StopsAt(j, t) <=> j = k /\ t = now
  BY <1>0, <1>1 DEF Begins, Ends, At, By, StartsAt, StopsAt
<1>7. /\ \A S : Total(trace, S) \in Nat /\ Total(truth, S) \in Nat
      /\ \A S : Total(trace', S) \in Nat /\ Total(truth', S) \in Nat
      /\ \A j \in Keys : \A S : Total(open[j], S) \in Nat
      /\ \A S : Total(open'[k], S) \in Nat
  <2>1. Len(trace) \in Nat /\ Len(truth) \in Nat /\ \A j \in Keys : Len(open[j]) \in Nat
    BY DEF PairingTyped
  <2>2. Len(trace') \in Nat /\ Len(truth') \in Nat /\ Len(open'[k]) \in Nat
    BY <1>1, <1>2, <2>1, FrontIs
  <2> QED
    BY <2>1, <2>2, CountIs DEF Total
<1>8. ASSUME NEW j \in Keys
      PROVE  EndpointsOf(trace, j)'
  <2> SUFFICES /\ \A t \in Instants :
                    /\ Total(trace', Begins(j) \cap At(t)) = Total(truth', StartsAt(j, t)) + Total(open'[j], {t})
                    /\ Total(trace', Ends(j) \cap At(t)) = Total(truth', StopsAt(j, t))
                    /\ Total(trace', Ends(j) \cap By(t)) <= Total(trace', Begins(j) \cap By(t))
               /\ Total(trace', Begins(j)) = Total(trace', Ends(j)) + Len(open'[j])
    BY DEF EndpointsOf, Instants, Total, Count, Hits, Begins, Ends, At, By, StartsAt, StopsAt,
           Stop, Endpoint, Section
  <2>1. EndpointsOf(trace, j)
    BY DEF RecordInv, EndpointsAgree
  <2>2. ASSUME NEW t \in Instants
        PROVE  Total(trace', Begins(j) \cap At(t)) = Total(truth', StartsAt(j, t)) + Total(open'[j], {t})
    <3>1. Total(trace, Begins(j) \cap At(t)) = Total(truth, StartsAt(j, t)) + Total(open[j], {t})
      BY <2>1 DEF EndpointsOf
    <3>2. Total(trace', Begins(j) \cap At(t)) = Total(trace, Begins(j) \cap At(t))
      BY <1>3, <1>6
    <3>3. CASE j = k /\ t = Last(open[k])
      <4>1. Total(truth', StartsAt(j, t)) = Total(truth, StartsAt(j, t)) + 1
        BY <1>4, <1>6, <3>3
      <4>2. Total(open[j], {t}) = Total(open'[j], {t}) + 1
        BY <1>5, <3>3
      <4>3. Total(truth, StartsAt(j, t)) \in Nat /\ Total(open'[j], {t}) \in Nat
        BY <1>7, <3>3
      <4> QED
        BY <3>1, <3>2, <4>1, <4>2, <4>3
    <3>4. CASE ~(j = k /\ t = Last(open[k]))
      <4>1. Total(truth', StartsAt(j, t)) = Total(truth, StartsAt(j, t))
        BY <1>4, <1>6, <3>4
      <4>2. Total(open[j], {t}) = Total(open'[j], {t})
        BY <1>1, <1>5, <3>4
      <4> QED
        BY <3>1, <3>2, <4>1, <4>2
    <3> QED
      BY <3>3, <3>4
  <2>3. ASSUME NEW t \in Instants
        PROVE  Total(trace', Ends(j) \cap At(t)) = Total(truth', StopsAt(j, t))
    <3>1. Total(trace, Ends(j) \cap At(t)) = Total(truth, StopsAt(j, t))
      BY <2>1 DEF EndpointsOf
    <3>2. /\ Total(trace', Ends(j) \cap At(t)) = IF j = k /\ t = now THEN Total(trace, Ends(j) \cap At(t)) + 1
                                                 ELSE Total(trace, Ends(j) \cap At(t))
          /\ Total(truth', StopsAt(j, t)) = IF j = k /\ t = now THEN Total(truth, StopsAt(j, t)) + 1
                                            ELSE Total(truth, StopsAt(j, t))
      BY <1>3, <1>4, <1>6
    <3> QED
      BY <3>1, <3>2
  <2>4. Total(trace, Begins(j)) = Total(trace, Ends(j)) + Len(open[j])
    BY <2>1 DEF EndpointsOf
  <2>5. /\ Total(trace', Begins(j)) = Total(trace, Begins(j))
        /\ Total(trace', Ends(j)) = IF j = k THEN Total(trace, Ends(j)) + 1 ELSE Total(trace, Ends(j))
    <3>1. now \in Instants
      BY <1>1
    <3> QED
      BY <1>3, <1>6, <3>1
  <2>6. /\ Len(open[j]) \in Nat /\ Len(open'[j]) \in Nat
        /\ Len(open[j]) = IF j = k THEN Len(open'[j]) + 1 ELSE Len(open'[j])
    <3>1. Len(open[k]) \in Nat \ {0} /\ Len(open'[k]) = Len(open[k]) - 1
      BY <1>1, FrontIs
    <3>2. Len(open[j]) \in Nat
      BY DEF PairingTyped
    <3> QED
      BY <1>1, <3>1, <3>2
  <2>7. /\ Total(trace, Begins(j)) \in Nat /\ Total(trace, Ends(j)) \in Nat
    BY <1>7
  <2>8. Total(trace', Begins(j)) = Total(trace', Ends(j)) + Len(open'[j])
    BY <2>4, <2>5, <2>6, <2>7
  <2>9. ASSUME NEW t \in Instants
        PROVE  Total(trace', Ends(j) \cap By(t)) <= Total(trace', Begins(j) \cap By(t))
    <3>1. Total(trace, Ends(j) \cap By(t)) <= Total(trace, Begins(j) \cap By(t))
      BY <2>1 DEF EndpointsOf
    <3>2. Total(trace', Begins(j) \cap By(t)) = Total(trace, Begins(j) \cap By(t))
      BY <1>3, <1>6
    <3>3. CASE ~(j = k /\ now <= t)
      <4>1. Total(trace', Ends(j) \cap By(t)) = Total(trace, Ends(j) \cap By(t))
        BY <1>3, <1>6, <3>3
      <4> QED
        BY <3>1, <3>2, <4>1
    <3>4. CASE j = k /\ now <= t
      <4>1. ASSUME NEW i \in 1..Len(trace)
            PROVE  /\ trace[i] \in Begins(j) \cap By(t) <=> trace[i] \in Begins(j)
                   /\ trace[i] \in Ends(j) \cap By(t) <=> trace[i] \in Ends(j)
        <5>1. trace[i] \in Endpoint /\ trace[i].time <= now
          BY <1>2 DEF RecordInv, Recorded, End
        <5>2. trace[i].time \in Nat /\ t \in Nat
          BY <5>1, EndpointIs DEF Instants
        <5>3. trace[i].time <= t
          BY <1>1, <3>4, <5>1, <5>2
        <5> QED
          BY <5>1, <5>3 DEF Begins, Ends, By
      <4>2. /\ Total(trace, Begins(j) \cap By(t)) = Total(trace, Begins(j))
            /\ Total(trace, Ends(j) \cap By(t)) = Total(trace, Ends(j))
        BY <4>1, CountAgrees DEF Total
      <4>3. Total(trace', Ends(j) \cap By(t)) = Total(trace, Ends(j)) + 1
        BY <1>3, <1>6, <3>4, <4>2
      <4> QED
        BY <2>4, <2>6, <2>7, <3>2, <3>4, <4>2, <4>3
    <3> QED
      BY <3>3, <3>4
  <2> QED
    BY <2>2, <2>3, <2>8, <2>9
<1> QED
  BY <1>8 DEF EndpointsAgree
-----------------------------------------------------------------------------
(* Pairing. *)

\* The begins that wait are in the order of time, and before everything to come.
PendingInOrder ==
  \A k \in Keys :
    /\ \A a, b \in 1..Len(pending[k]) : a < b => pending[k][a] <= pending[k][b]
    /\ \A a \in 1..Len(pending[k]) : \A i \in 1..Len(trace) :
         paired < i => pending[k][a] <= trace[i].time

\* The handled endpoints are those of the pairs and of the begins that wait.
HandledOf(k) ==
  /\ \A t \in Instants :
       /\ Count(trace, paired, Begins(k) \cap At(t)) =
            Total(pairs, StartsAt(k, t)) + Total(pending[k], {t})
       /\ Count(trace, paired, Ends(k) \cap At(t)) = Total(pairs, StopsAt(k, t))
  /\ Count(trace, paired, Begins(k)) = Count(trace, paired, Ends(k)) + Len(pending[k])
HandledAgree == \A k \in Keys : HandledOf(k)

\* Each pair is a section, and no two pairs are the same one.
Matches(f) ==
  /\ f \in Injection(1..Len(pairs), 1..Len(truth))
  /\ \A i \in 1..Len(pairs) : pairs[i] = truth[f[i]]
PairsAreSections == open = NothingOpen /\ ~Touching => \E f : Matches(f)

Concluded ==
  /\ pc = "error" => open # NothingOpen
  /\ pc = "done" => paired = Len(trace) /\ open = NothingOpen /\ pending = NothingOpen

PairInv ==
  pc # "record" =>
    /\ InTimeOrder(trace) /\ PendingInOrder /\ HandledAgree
    /\ PairsAreSections /\ Concluded

LEMMA SortTyped ==
  ASSUME PairingTyped, RecordInv, SortEndpoints
  PROVE  /\ PairingTyped' /\ trace' \in Seq(Endpoint)
         /\ Permutes(trace', trace) /\ InTimeOrder(trace')
<1>1. /\ pc = "record" /\ trace' = Arranged(trace) /\ pc' = "pair"
      /\ UNCHANGED <<now, open, truth, paired, pending, pairs>>
  BY DEF SortEndpoints, application
<1>2. trace' \in Seq(Endpoint) /\ Permutes(trace', trace) /\ InTimeOrder(trace')
  BY <1>1, ArrangedIs DEF PairingTyped
<1>3. Len(trace') = Len(trace)
  BY <1>2 DEF Permutes
<1>4. Instants' = Instants
  BY DEF Instants
<1> QED
  BY <1>1, <1>2, <1>3, <1>4 DEF PairingTyped

LEMMA SortRecorded ==
  ASSUME PairingTyped, RecordInv, SortEndpoints
  PROVE  RecordInv'
<1>1. /\ pc = "record" /\ pc' = "pair"
      /\ UNCHANGED <<now, open, truth, paired, pending, pairs>>
  BY DEF SortEndpoints, application
<1>2. Recorded' /\ SectionsNest'
  BY <1>1 DEF RecordInv, Recorded, SectionsNest, Stop
<1>3. \A S : Total(trace', S) = Total(trace, S)
  <2>1. Len(trace') = Len(trace) /\ Len(trace) \in Nat
    BY SortTyped DEF Permutes, PairingTyped
  <2>2. PICK p \in Bijection(1..Len(trace), 1..Len(trace)) : \A i \in 1..Len(trace) : trace'[i] = trace[p[i]]
    BY SortTyped DEF Permutes
  <2>3. \A S : Count(trace', Len(trace), S) = Count(trace, Len(trace), S)
    BY <2>1, <2>2, CountPermuted
  <2> QED
    BY <2>1, <2>3 DEF Total
<1>4. ASSUME NEW k \in Keys
      PROVE  EndpointsOf(trace, k)'
  <2>1. EndpointsOf(trace, k)
    BY DEF RecordInv, EndpointsAgree
  <2> SUFFICES /\ \A t \in Instants :
                    /\ Total(trace', Begins(k) \cap At(t)) = Total(truth', StartsAt(k, t)) + Total(open'[k], {t})
                    /\ Total(trace', Ends(k) \cap At(t)) = Total(truth', StopsAt(k, t))
                    /\ Total(trace', Ends(k) \cap By(t)) <= Total(trace', Begins(k) \cap By(t))
               /\ Total(trace', Begins(k)) = Total(trace', Ends(k)) + Len(open'[k])
    BY DEF EndpointsOf, Instants, Total, Count, Hits, Begins, Ends, At, By, StartsAt, StopsAt,
                Stop, Endpoint, Section
  <2> QED
    BY <1>1, <1>3, <2>1 DEF EndpointsOf
<1>5. EndpointsAgree'
  BY <1>4 DEF EndpointsAgree
<1> QED
  BY <1>2, <1>5 DEF RecordInv

LEMMA SortPairs ==
  ASSUME PairingTyped, RecordInv, SortEndpoints
  PROVE  PairInv'
<1>1. /\ pc = "record" /\ pc' = "pair"
      /\ UNCHANGED <<now, open, truth, paired, pending, pairs>>
  BY DEF SortEndpoints, application
<1>2. paired = 0 /\ pending = NothingOpen /\ pairs = <<>> /\ \A k \in Keys : pending[k] = <<>>
  BY <1>1 DEF RecordInv, Recorded, NothingOpen
<1>3. InTimeOrder(trace') /\ trace' \in Seq(Endpoint)
  BY SortTyped
<1>4. PendingInOrder'
  BY <1>1, <1>2 DEF PendingInOrder
<1>5. ASSUME NEW k \in Keys
      PROVE  HandledOf(k)'
  <2>1. \A S : Count(trace', 0, S) = 0 /\ Total(pairs, S) = 0 /\ Total(pending[k], S) = 0
    BY <1>2, CountNothing, TotalNothing
  <2>2. Len(pending[k]) = 0
    BY <1>2
  <2> SUFFICES /\ \A t \in Instants :
                    /\ Count(trace', paired', Begins(k) \cap At(t)) =
                         Total(pairs', StartsAt(k, t)) + Total(pending'[k], {t})
                    /\ Count(trace', paired', Ends(k) \cap At(t)) = Total(pairs', StopsAt(k, t))
               /\ Count(trace', paired', Begins(k)) = Count(trace', paired', Ends(k)) + Len(pending'[k])
    BY DEF HandledOf, Instants, Total, Count, Hits, Begins, Ends, At, StartsAt, StopsAt,
                      Stop, Endpoint, Section
  <2> QED
    BY <1>1, <1>2, <2>1, <2>2
<1>6. HandledAgree'
  BY <1>5 DEF HandledAgree
<1>7. PairsAreSections'
  <2> DEFINE f == [i \in {} |-> 0]
  <2>1. 1..Len(pairs) = {}
    BY <1>2
  <2>2. f \in Injection({}, 1..Len(truth))
    <3>1. f \in [{} -> 1..Len(truth)] /\ \A i, j \in {} : f[i] = f[j] => i = j
      OBVIOUS
    <3> QED
      BY <3>1, Fun_IsInj
  <2>3. Matches(f)
    BY <2>1, <2>2 DEF Matches
  <2> HIDE DEF f
  <2>4. Matches(f)'
    BY <1>1, <2>3 DEF Matches
  <2> QED
    BY <2>4 DEF PairsAreSections
<1>8. Concluded'
  BY <1>1 DEF Concluded
<1> QED
  BY <1>3, <1>4, <1>6, <1>7, <1>8 DEF PairInv, InTimeOrder, Precedes

\* What is left of the sorted trace does not come before what was handled.
LEMMA HandledFirst ==
  ASSUME PairingTyped, InTimeOrder(trace), NEW n, n = paired + 1, n <= Len(trace)
  PROVE  /\ n \in 1..Len(trace) /\ trace[n] \in Endpoint /\ paired \in Nat
         /\ \A i \in 1..Len(trace) :
              /\ i <= n => trace[i].time <= trace[n].time
              /\ i >= n => trace[n].time <= trace[i].time
              /\ trace[i].time < trace[n].time => i <= paired
              /\ trace[n].end /\ ~trace[i].end /\ trace[i].time <= trace[n].time => i <= paired
<1>1. paired \in Nat /\ Len(trace) \in Nat /\ n \in 1..Len(trace)
  BY DEF PairingTyped
<1>2. trace[n] \in Endpoint
  BY <1>1 DEF PairingTyped
<1> SUFFICES ASSUME NEW i \in 1..Len(trace)
             PROVE  /\ i <= n => trace[i].time <= trace[n].time
                    /\ i >= n => trace[n].time <= trace[i].time
                    /\ trace[i].time < trace[n].time => i <= paired
                    /\ trace[n].end /\ ~trace[i].end /\ trace[i].time <= trace[n].time => i <= paired
  BY <1>1, <1>2
<1>3. trace[i] \in Endpoint
  BY DEF PairingTyped
<1>4. trace[i].time \in Nat /\ trace[n].time \in Nat /\ trace[i].end \in BOOLEAN /\ trace[n].end \in BOOLEAN
  BY <1>2, <1>3, EndpointIs
<1>5. i < n => ~Precedes(trace[n], trace[i])
  BY <1>1 DEF InTimeOrder
<1>6. n < i => ~Precedes(trace[i], trace[n])
  BY <1>1 DEF InTimeOrder
<1>7. i = n \/ i < n \/ n < i
  BY <1>1
<1>8. i < n <=> i <= paired
  BY <1>1
<1>9. CASE i = n
  BY <1>1, <1>4, <1>9
<1>10. CASE i < n
  BY <1>1, <1>4, <1>5, <1>8, <1>10 DEF Precedes
<1>11. CASE n < i
  BY <1>1, <1>4, <1>6, <1>8, <1>11 DEF Precedes
<1> QED
  BY <1>7, <1>9, <1>10, <1>11

LEMMA CountedByThen ==
  ASSUME NEW s, NEW m \in Nat, NEW n \in Nat, m <= n, NEW S,
         \A i \in 1..n : s[i] \in S => i <= m
  PROVE  Count(s, m, S) = Count(s, n, S)
<1>1. Hits(s, m, S) = Hits(s, n, S)
  BY DEF Hits
<1> QED
  BY <1>1 DEF Count

\* What matches is counted no more often, and equally often when nothing is left.
LEMMA MatchedCount ==
  ASSUME PairingTyped, NEW f, Matches(f), NEW S
  PROVE  /\ Total(pairs, S) \in Nat /\ Total(truth, S) \in Nat
         /\ Total(pairs, S) <= Total(truth, S)
         /\ Total(pairs, S) = Total(truth, S) <=>
              \A j \in 1..Len(truth) : truth[j] \in S => \E i \in 1..Len(pairs) : f[i] = j
<1> DEFINE m == Len(pairs)
           n == Len(truth)
           s == pairs
           u == truth
<1>0. /\ m \in Nat /\ n \in Nat /\ f \in Injection(1..m, 1..n)
      /\ \A i \in 1..m : s[i] = u[f[i]]
  BY DEF PairingTyped, Matches
<1> SUFFICES /\ Count(s, m, S) \in Nat /\ Count(u, n, S) \in Nat
             /\ Count(s, m, S) <= Count(u, n, S)
             /\ Count(s, m, S) = Count(u, n, S) <=>
                  \A j \in 1..n : u[j] \in S => \E i \in 1..m : f[i] = j
  BY DEF Total
<1> HIDE DEF m, n, s, u
<1> DEFINE A == Hits(s, m, S)
           B == Hits(u, n, S)
           g == [i \in A |-> f[i]]
<1>1. f \in [1..m -> 1..n] /\ \A i, j \in 1..m : f[i] = f[j] => i = j
  <2> DEFINE M == 1..m
             N == 1..n
  <2> HIDE DEF M, N
  <2>1. f \in Injection(M, N)
    BY <1>0 DEF M, N
  <2>2. f \in [M -> N] /\ \A i, j \in M : f[i] = f[j] => i = j
    BY <2>1, Fun_InjectionProperties
  <2> QED
    BY <2>2 DEF M, N
<1>2. g \in [A -> B] /\ \A i, j \in A : g[i] = g[j] => i = j
  BY <1>0, <1>1 DEF Hits
<1>3. (\A j \in B : \E i \in A : g[i] = j) <=>
        \A j \in 1..n : u[j] \in S => \E i \in 1..m : f[i] = j
  <2>1. \A j : j \in B <=> j \in 1..n /\ u[j] \in S
    BY DEF Hits
  <2>2. \A i \in A : i \in 1..m /\ g[i] = f[i]
    BY DEF Hits
  <2>3. \A i \in 1..m : f[i] \in B => i \in A
    BY <1>0, <1>1 DEF Hits
  <2> HIDE DEF A, B, g
  <2> QED
    BY <2>1, <2>2, <2>3
<1>4. IsFiniteSet(A) /\ IsFiniteSet(B) /\ Count(s, m, S) \in Nat /\ Count(u, n, S) \in Nat
  BY <1>0, CountIs
<1> HIDE DEF A, B, g
<1>5. g \in Injection(A, B)
  BY <1>2, Fun_IsInj
<1>6. /\ Cardinality(A) <= Cardinality(B)
      /\ Cardinality(A) = Cardinality(B) <=> g \in Surjection(A, B)
  BY <1>4, <1>5, FS_Injection
<1>7. g \in Surjection(A, B) <=> \A j \in B : \E i \in A : g[i] = j
  BY <1>2, Fun_IsSurj, Fun_SurjectionProperties
<1> QED
  BY <1>3, <1>4, <1>6, <1>7 DEF A, B, Count

\* The top of the stack is where the section began that ends here.
LEMMA TopIsNext ==
  ASSUME PairingTyped, RecordInv, InTimeOrder(trace), PendingInOrder, HandledAgree,
         open = NothingOpen, ~Touching, NEW f, Matches(f),
         NEW n, n = paired + 1, n <= Len(trace), trace[n].end,
         NEW k, k = trace[n].key, pending[k] # <<>>
  PROVE  \E m \in 1..Len(truth) :
           /\ \A i \in 1..Len(pairs) : f[i] # m
           /\ truth[m] = Close(pending[k], k, trace[n].time)
<1> DEFINE x == trace[n]
           t == x.time
           last == Len(trace)
           top == Last(pending[k])
           unmatched(j) == \A i \in 1..Len(pairs) : f[i] # j
<1>1. n \in 1..last /\ x \in Endpoint /\ paired \in Nat /\ paired <= last /\ last \in Nat
  BY HandledFirst DEF PairingTyped
<1>2. \A i \in 1..last :
         /\ i >= n => t <= trace[i].time
         /\ trace[i].time < t => i <= paired
         /\ ~trace[i].end /\ trace[i].time <= t => i <= paired
  BY HandledFirst
<1>3. k \in Keys /\ t \in Nat /\ t \in Instants /\ x.end /\ x.key = k
  BY <1>1, EndpointIs DEF Instants
<1>4. /\ truth \in Seq(Section) /\ pairs \in Seq(Section) /\ pending[k] \in Seq(Instants)
      /\ Len(truth) \in Nat /\ Len(pairs) \in Nat /\ Len(pending[k]) \in Nat
      /\ open[k] = <<>>
  BY <1>3 DEF PairingTyped, NothingOpen
<1>5. \A j \in 1..Len(truth) :
         /\ truth[j].start \in Nat /\ truth[j].start \in Instants /\ Stop(truth[j]) \in Nat
         /\ truth[j].start <= Stop(truth[j]) /\ truth[j] \in Section
  <2> SUFFICES ASSUME NEW j \in 1..Len(truth)
               PROVE  /\ truth[j].start \in Nat /\ truth[j].start \in Instants /\ Stop(truth[j]) \in Nat
                      /\ truth[j].start <= Stop(truth[j]) /\ truth[j] \in Section
    OBVIOUS
  <2>1. truth[j] \in Section
    BY <1>4
  <2>2. /\ truth[j].start \in Nat /\ truth[j].start \in Instants /\ Stop(truth[j]) \in Nat
        /\ truth[j].duration \in Nat
    BY <2>1, SectionIs
  <2>3. truth[j].start <= Stop(truth[j])
    BY <2>2 DEF Stop
  <2> QED
    BY <2>1, <2>2, <2>3
<1> HIDE DEF x, t
<1>6. EndpointsOf(trace, k) /\ HandledOf(k)
  BY <1>3 DEF RecordInv, EndpointsAgree, HandledAgree
\* By the count of what was handled, a section is left over exactly where a count differs.
<1>7. \A S : /\ Total(pairs, S) <= Total(truth, S)
              /\ Total(pairs, S) = Total(truth, S) <=>
                   \A j \in 1..Len(truth) : truth[j] \in S => ~unmatched(j)
  <2>2. ASSUME NEW S
        PROVE  /\ Total(pairs, S) <= Total(truth, S)
               /\ Total(pairs, S) = Total(truth, S) <=>
                   \A j \in 1..Len(truth) : truth[j] \in S => \E i \in 1..Len(pairs) : f[i] = j
    BY MatchedCount
  <2> QED
    BY <2>2
<1>8. \A S : Total(pairs, S) \in Nat /\ Total(truth, S) \in Nat /\ Total(pending[k], S) \in Nat
  BY <1>4, CountIs DEF Total
<1> HIDE DEF unmatched
\* A start on the stack belongs to a section that is left over, and the other way round.
<1>9. ASSUME NEW v \in Instants, v <= t
      PROVE  (\E a \in 1..Len(pending[k]) : pending[k][a] = v) <=>
               \E j \in 1..Len(truth) : unmatched(j) /\ truth[j].key = k /\ truth[j].start = v
  <2> DEFINE B == Begins(k) \cap At(v)
             S == StartsAt(k, v)
  <2>1. Count(trace, paired, B) = Count(trace, last, B)
    <3>1. ASSUME NEW i \in 1..last, trace[i] \in B
          PROVE  i <= paired
      <4>1. ~trace[i].end /\ trace[i].time = v
        BY <3>1 DEF Begins, At
      <4> QED
        BY <1>2, <1>9, <4>1
    <3> QED
      BY <1>1, <3>1, CountedByThen
  <2>2. /\ Count(trace, last, B) = Total(truth, S) + Total(open[k], {v})
        /\ Count(trace, paired, B) = Total(pairs, S) + Total(pending[k], {v})
    BY <1>6 DEF EndpointsOf, HandledOf, Total
  <2>3. Total(open[k], {v}) = 0
    BY <1>4, TotalNothing
  <2> HIDE DEF S
  <2>4. Total(pending[k], {v}) # 0 <=> Total(pairs, S) # Total(truth, S)
    BY <1>8, <2>1, <2>2, <2>3
  <2>5. Total(pending[k], {v}) # 0 <=> \E a \in 1..Len(pending[k]) : pending[k][a] = v
    <3>1. Total(pending[k], {v}) # 0 <=> \E a \in 1..Len(pending[k]) : pending[k][a] \in {v}
      BY <1>4, CountedIsThere DEF Total
    <3> QED
      BY <3>1
  <2>6. \A j \in 1..Len(truth) : truth[j] \in S <=> truth[j].key = k /\ truth[j].start = v
    BY <1>5 DEF S, StartsAt
  <2> QED
    <3>1. Total(pairs, S) = Total(truth, S) <=>
            \A j \in 1..Len(truth) : truth[j] \in S => ~unmatched(j)
      BY <1>7, <1>8
    <3>2. Total(pairs, S) # Total(truth, S) <=>
            \E j \in 1..Len(truth) : truth[j] \in S /\ unmatched(j)
      BY <3>1
    <3> QED
      BY <2>4, <2>5, <2>6, <3>2
\* What ended earlier is matched.
<1>10. ASSUME NEW j \in 1..Len(truth), unmatched(j), truth[j].key = k
       PROVE  t <= Stop(truth[j])
  <2> SUFFICES ASSUME Stop(truth[j]) < t
               PROVE  FALSE
    BY <1>3, <1>5
  <2> DEFINE e == Stop(truth[j])
             E == Ends(k) \cap At(e)
             S == StopsAt(k, e)
  <2>1. e \in Instants
    BY <1>3, <1>5, BoundsAssumption DEF Instants, BoundsAssumption
  <2>2. Count(trace, paired, E) = Count(trace, last, E)
    <3>1. ASSUME NEW i \in 1..last, trace[i] \in E
          PROVE  i <= paired
      <4>1. trace[i].time = e
        BY <3>1 DEF At
      <4> QED
        BY <1>2, <4>1
    <3> QED
      BY <1>1, <3>1, CountedByThen
  <2>3. /\ Count(trace, last, E) = Total(truth, S)
        /\ Count(trace, paired, E) = Total(pairs, S)
    BY <1>6, <2>1 DEF EndpointsOf, HandledOf, Total
  <2>4. truth[j] \in S
    BY <1>5, <1>10 DEF StopsAt
  <2> QED
    <3>1. Total(pairs, S) = Total(truth, S)
      BY <2>2, <2>3
    <3> HIDE DEF S
    <3>2. ~unmatched(j)
      BY <1>7, <1>8, <2>4, <3>1
    <3> QED
      BY <1>10, <3>2
\* A section that ends here is left over.
<1>11. \E j \in 1..Len(truth) : unmatched(j) /\ truth[j].key = k /\ Stop(truth[j]) = t
  <2> DEFINE E == Ends(k) \cap At(t)
             S == StopsAt(k, t)
  <2>1. /\ Count(trace, last, E) = Total(truth, S)
        /\ Count(trace, paired, E) = Total(pairs, S)
    BY <1>3, <1>6 DEF EndpointsOf, HandledOf, Total
  <2>2. trace[n] \in E
    BY <1>1, <1>3 DEF Ends, At, x, t
  <2>3. Count(trace, paired, E) < Count(trace, last, E)
    <3>1. \E i \in 1..last : trace[i] \in E /\ (i > paired \/ trace[i] \notin E)
      BY <1>1, <2>2
    <3> QED
      BY <1>1, <3>1, CountIncreases
  <2>4. PICK j \in 1..Len(truth) : truth[j] \in S /\ unmatched(j)
    BY <1>7, <1>8, <2>1, <2>3
  <2> QED
    BY <2>4 DEF StopsAt
\* The one of them that began last.
<1> DEFINE Left == {j \in 1..Len(truth) : unmatched(j) /\ truth[j].key = k /\ Stop(truth[j]) = t}
           Starts == {truth[j].start : j \in Left}
<1>12. PICK m \in Left : \A j \in Left : truth[j].start <= truth[m].start
  <2>1. Starts \subseteq Nat /\ Starts # {} /\ \A y \in Starts : y <= t
    BY <1>5, <1>11
  <2> HIDE DEF Starts
  <2>2. Max(Starts) \in Starts /\ \A y \in Starts : y <= Max(Starts)
    BY <1>3, <2>1, MaxExists
  <2> QED
    BY <2>2 DEF Starts
<1>13. /\ m \in 1..Len(truth) /\ unmatched(m) /\ truth[m].key = k /\ Stop(truth[m]) = t
       /\ truth[m].start \in Nat /\ truth[m].start \in Instants /\ truth[m].start <= t
  BY <1>5, <1>12
<1>14. /\ top = pending[k][Len(pending[k])] /\ Len(pending[k]) \in 1..Len(pending[k])
       /\ top \in Instants /\ top \in Nat
  <2>1. Last(pending[k]) = pending[k][Len(pending[k])] /\ Len(pending[k]) \in Nat \ {0}
        /\ Last(pending[k]) \in Instants
    BY <1>4, FrontIs
  <2> QED
    BY <2>1 DEF Instants
<1> HIDE DEF top
<1>15. top <= t
  BY <1>1, <1>3, <1>14 DEF PendingInOrder, x, t
<1>16. truth[m].start <= top
  <2>1. PICK a \in 1..Len(pending[k]) : pending[k][a] = truth[m].start
    BY <1>9, <1>13
  <2>2. a < Len(pending[k]) => pending[k][a] <= pending[k][Len(pending[k])]
    BY <1>3, <1>14 DEF PendingInOrder
  <2>3. a = Len(pending[k]) \/ a < Len(pending[k])
    BY <1>4
  <2> QED
    BY <1>14, <2>1, <2>2, <2>3
<1>17. top <= truth[m].start
  <2> SUFFICES ASSUME truth[m].start < top
               PROVE  FALSE
    BY <1>13, <1>14
  <2>1. PICK j \in 1..Len(truth) : unmatched(j) /\ truth[j].key = k /\ truth[j].start = top
    BY <1>9, <1>14, <1>15
  <2>2. t <= Stop(truth[j]) /\ Stop(truth[j]) \in Nat
    BY <1>5, <1>10, <2>1
  <2>3. CASE Stop(truth[j]) = t
    <3>1. truth[j].start <= truth[m].start
      BY <1>12, <2>1, <2>3
    <3> QED
      BY <1>13, <1>14, <2>1, <3>1
  <2>4. CASE top = t
    <3>1. truth[m] \in ToSet(truth) /\ truth[j] \in ToSet(truth)
      BY <1>4, <1>13 DEF ToSet
    <3>2. truth[m] # truth[j]
      BY <1>13, <1>14, <2>1
    <3>3. truth[m].start + truth[m].duration = truth[j].start
      BY <1>13, <2>1, <2>4 DEF Stop
    <3> QED
      BY <1>13, <2>1, <3>1, <3>2, <3>3 DEF Touching
  <2>5. CASE t < Stop(truth[j]) /\ top < t
    <3>1. ~(truth[m].start < truth[j].start /\ truth[j].start < Stop(truth[m])
            /\ Stop(truth[m]) < Stop(truth[j]))
      BY <1>3, <1>13, <2>1 DEF RecordInv, SectionsNest
    <3> QED
      BY <1>13, <2>1, <2>5, <3>1
  <2> QED
    BY <1>3, <1>14, <1>15, <2>2, <2>3, <2>4, <2>5
<1>18. truth[m] = [key |-> k, start |-> top, duration |-> t - top]
  <2>1. truth[m].start = top
    BY <1>13, <1>14, <1>16, <1>17
  <2>2. truth[m].duration \in Nat /\ truth[m].start + truth[m].duration = t
    BY <1>5, <1>13, SectionIs DEF Stop
  <2>3. truth[m].duration = t - top
    <3> DEFINE d == truth[m].duration
    <3>1. d \in Nat /\ top + d = t
      BY <2>1, <2>2
    <3> HIDE DEF d
    <3>2. d = t - top
      BY <1>3, <1>14, <3>1
    <3> QED
      BY <3>2 DEF d
  <2>4. truth[m] \in [key : Keys, start : 0..MaxInstant, duration : Nat]
    BY <1>5, <1>13 DEF Section
  <2> QED
    BY <1>13, <2>1, <2>3, <2>4
<1> QED
  BY <1>13, <1>18 DEF Close, top, t, x, unmatched
-----------------------------------------------------------------------------
(* One round of the pairing. *)

\* The endpoint a round handles, and what the round does with it.
Entry == trace[paired + 1]
Pushed ==
  /\ ~Entry.end
  /\ pending' = [pending EXCEPT ![Entry.key] = Append(@, Entry.time)]
  /\ UNCHANGED <<pc, pairs>>
Popped ==
  /\ Entry.end /\ pending[Entry.key] # <<>>
  /\ pending' = [pending EXCEPT ![Entry.key] = Front(@)]
  /\ pairs' = Append(pairs, Close(pending[Entry.key], Entry.key, Entry.time))
  /\ UNCHANGED pc
Refused ==
  /\ Entry.end /\ pending[Entry.key] = <<>> /\ pc' = "error"
  /\ UNCHANGED <<pending, pairs>>

LEMMA PairIs ==
  ASSUME PairingTyped, Pair
  PROVE  /\ pc = "pair" /\ paired \in Nat /\ paired + 1 \in 1..Len(trace) /\ paired + 1 <= Len(trace)
         /\ Entry \in Endpoint /\ Entry.key \in Keys /\ Entry.time \in Instants /\ Entry.time \in Nat
         /\ Entry.end \in BOOLEAN /\ pending[Entry.key] \in Seq(Instants)
         /\ paired' = paired + 1 /\ UNCHANGED <<now, open, truth, trace>>
         /\ Pushed \/ Popped \/ Refused
<1>1. pc = "pair" /\ paired < Len(trace) /\ paired' = paired + 1 /\ UNCHANGED <<now, open, truth, trace>>
  BY DEF Pair, application
<1>2. paired \in Nat /\ Len(trace) \in Nat /\ paired + 1 \in 1..Len(trace) /\ paired + 1 <= Len(trace)
  BY <1>1 DEF PairingTyped
<1>3. Entry \in Endpoint
  BY <1>2 DEF PairingTyped, Entry
<1>4. /\ Entry.key \in Keys /\ Entry.time \in Instants /\ Entry.time \in Nat
      /\ Entry.end \in BOOLEAN
  BY <1>3, EndpointIs DEF Instants
<1>5. pending[Entry.key] \in Seq(Instants)
  BY <1>4 DEF PairingTyped
<1>6. Pushed \/ Popped \/ Refused
  BY DEF Pair, Pushed, Popped, Refused, Entry
<1> QED
  BY <1>1, <1>2, <1>3, <1>4, <1>5, <1>6

\* A begin is put on its stack.
LEMMA PushIs ==
  ASSUME PairingTyped, Pair, Pushed
  PROVE  /\ pending' \in [Keys -> Seq(Instants)]
         /\ pending'[Entry.key] = Append(pending[Entry.key], Entry.time)
         /\ \A j \in Keys : j # Entry.key => pending'[j] = pending[j]
<1>1. Entry.key \in Keys /\ Append(pending[Entry.key], Entry.time) \in Seq(Instants)
  BY PairIs
<1> QED
  BY <1>1 DEF Pushed, PairingTyped

\* An end takes the top of its stack, and the two are a section.
LEMMA PopIs ==
  ASSUME PairingTyped, PairInv, Pair, Popped,
         NEW s, s = Close(pending[Entry.key], Entry.key, Entry.time)
  PROVE  /\ pending' \in [Keys -> Seq(Instants)]
         /\ pending[Entry.key] # <<>> /\ pending'[Entry.key] = Front(pending[Entry.key])
         /\ \A j \in Keys : j # Entry.key => pending'[j] = pending[j]
         /\ Last(pending[Entry.key]) \in Instants
         /\ s \in Section /\ s.key = Entry.key /\ s.start = Last(pending[Entry.key]) /\ Stop(s) = Entry.time
         /\ pairs' = Append(pairs, s)
<1> DEFINE k == Entry.key
           t == Entry.time
           top == Last(pending[k])
<1>1. /\ pc = "pair" /\ paired \in Nat /\ paired + 1 \in 1..Len(trace)
      /\ k \in Keys /\ t \in Nat /\ pending[k] \in Seq(Instants)
  BY PairIs
<1>2. /\ pending[k] # <<>> /\ pending' = [pending EXCEPT ![k] = Front(pending[k])]
      /\ pairs' = Append(pairs, s)
  BY DEF Popped
<1>3. /\ Front(pending[k]) \in Seq(Instants) /\ top \in Instants
      /\ top = pending[k][Len(pending[k])] /\ Len(pending[k]) \in Nat \ {0}
  BY <1>1, <1>2, FrontIs
<1>4. top <= t
  <2>1. Len(pending[k]) \in 1..Len(pending[k]) /\ paired < paired + 1
    BY <1>1, <1>3
  <2> QED
    BY <1>1, <1>3, <2>1 DEF PairInv, PendingInOrder, Entry
<1>5. s = [key |-> k, start |-> top, duration |-> t - top]
  BY DEF Close
<1>6. pending \in [Keys -> Seq(Instants)]
  BY DEF PairingTyped
<1> HIDE DEF k, t, top
<1>7. top \in Nat
  BY <1>3 DEF Instants
<1>8. t - top \in Nat /\ top + (t - top) = t
  BY <1>1, <1>4, <1>7
<1>9. s \in Section /\ s.key = k /\ s.start = top /\ s.duration = t - top
  BY <1>1, <1>3, <1>5, <1>8 DEF Section, Instants
<1>10. Stop(s) = t
  BY <1>8, <1>9 DEF Stop
<1>11. /\ pending' \in [Keys -> Seq(Instants)] /\ pending'[k] = Front(pending[k])
       /\ \A j \in Keys : j # k => pending'[j] = pending[j]
  BY <1>1, <1>2, <1>3, <1>6
<1> QED
  BY <1>2, <1>3, <1>9, <1>10, <1>11 DEF k, t, top

LEMMA PairTyped ==
  ASSUME PairingTyped, PairInv, Pair
  PROVE  PairingTyped'
<1>1. /\ pc = "pair" /\ paired + 1 \in 0..Len(trace) /\ paired' = paired + 1
      /\ UNCHANGED <<now, open, truth, trace>>
  BY PairIs
<1>0. Pushed \/ Popped \/ Refused
  BY PairIs
<1>2. Instants' = Instants
  BY DEF Instants
<1>3. CASE Pushed
  <2>1. pending' \in [Keys -> Seq(Instants)]
    BY <1>3, PushIs
  <2> QED
    BY <1>1, <1>2, <1>3, <2>1 DEF PairingTyped, Pushed
<1>4. CASE Popped
  <2> DEFINE s == Close(pending[Entry.key], Entry.key, Entry.time)
  <2> HIDE DEF s
  <2>1. pending' \in [Keys -> Seq(Instants)] /\ s \in Section /\ pairs' = Append(pairs, s)
    BY <1>4, PopIs DEF s
  <2>2. pairs' \in Seq(Section) /\ pc' = pc
    BY <1>4, <2>1 DEF PairingTyped, Popped
  <2> QED
    BY <1>1, <1>2, <2>1, <2>2 DEF PairingTyped
<1>5. CASE Refused
  BY <1>1, <1>2, <1>5 DEF PairingTyped, Refused
<1> QED
  BY <1>0, <1>3, <1>4, <1>5

LEMMA PairRecorded ==
  ASSUME PairingTyped, RecordInv, Pair
  PROVE  RecordInv'
<1>1. UNCHANGED <<now, open, truth, trace>> /\ pc' # "record"
  BY PairIs DEF Pushed, Popped, Refused
<1>2. Recorded'
  BY <1>1 DEF RecordInv, Recorded, Stop
<1>3. SectionsNest'
  BY <1>1 DEF RecordInv, SectionsNest, Stop
<1>4. EndpointsAgree'
  BY <1>1 DEF RecordInv, EndpointsAgree, EndpointsOf
<1> QED
  BY <1>2, <1>3, <1>4 DEF RecordInv

\* The stacks stay in order.
LEMMA PairOrders ==
  ASSUME PairingTyped, PairInv, Pair
  PROVE  InTimeOrder(trace)' /\ PendingInOrder'
<1> DEFINE k == Entry.key
           t == Entry.time
           n == Len(pending[k])
<1>1. /\ pc = "pair" /\ paired \in Nat /\ paired + 1 \in 1..Len(trace) /\ paired + 1 <= Len(trace)
      /\ k \in Keys /\ t \in Nat /\ pending[k] \in Seq(Instants) /\ n \in Nat /\ Len(trace) \in Nat
      /\ paired' = paired + 1 /\ trace' = trace
  BY PairIs DEF PairingTyped
<1>0. Pushed \/ Popped \/ Refused
  BY PairIs
<1>2. InTimeOrder(trace) /\ PendingInOrder
  BY <1>1 DEF PairInv
<1>3. InTimeOrder(trace)'
  BY <1>1, <1>2 DEF InTimeOrder, Precedes
<1>4. \A i \in 1..Len(trace) : i >= paired + 1 => t <= trace[i].time
  BY <1>1, <1>2, HandledFirst DEF Entry
<1>5. \A a \in 1..n : pending[k][a] <= t
  BY <1>1, <1>2 DEF PendingInOrder, Entry
<1>6. \A i \in 1..Len(trace) : paired + 1 < i => paired < i /\ i >= paired + 1
  BY <1>1
<1>7. ASSUME NEW j \in Keys
      PROVE  /\ \A a, b \in 1..Len(pending'[j]) : a < b => pending'[j][a] <= pending'[j][b]
             /\ \A a \in 1..Len(pending'[j]) : \A i \in 1..Len(trace) :
                  paired + 1 < i => pending'[j][a] <= trace[i].time
  <2>1. /\ \A a, b \in 1..Len(pending[j]) : a < b => pending[j][a] <= pending[j][b]
        /\ \A a \in 1..Len(pending[j]) : \A i \in 1..Len(trace) :
             paired + 1 < i => pending[j][a] <= trace[i].time
    BY <1>2, <1>6 DEF PendingInOrder
  <2>2. CASE pending'[j] = pending[j]
    BY <2>1, <2>2
  <2>3. CASE Pushed /\ j = k
    <3> DEFINE s == pending'[j]
    <3>0. pending[k] \in Seq(Instants) /\ t \in Instants /\ s = Append(pending[k], t) /\ j = k
      BY <2>3, PairIs, PushIs
    <3> HIDE DEF s, t, k
    <3>1. Len(s) = n + 1 /\ s[n + 1] = t /\ \A a \in 1..n : s[a] = pending[j][a]
      BY <3>0
    <3>2. \A a \in 1..Len(s) : a \in 1..n \/ a = n + 1
      BY <1>1, <3>1
    <3>3. ASSUME NEW a \in 1..Len(s), NEW b \in 1..Len(s), a < b
          PROVE  s[a] <= s[b]
      <4>1. a \in 1..n
        BY <1>1, <3>1, <3>3
      <4>2. CASE b \in 1..n
        BY <2>1, <2>3, <3>1, <3>3, <4>1, <4>2
      <4>3. CASE b = n + 1
        BY <1>5, <2>3, <3>1, <4>1, <4>3
      <4> QED
        BY <3>2, <4>2, <4>3
    <3>4. ASSUME NEW a \in 1..Len(s), NEW i \in 1..Len(trace), paired + 1 < i
          PROVE  s[a] <= trace[i].time
      <4>1. CASE a \in 1..n
        BY <2>1, <2>3, <3>1, <3>4, <4>1
      <4>2. CASE a = n + 1
        BY <1>4, <1>6, <3>1, <3>4, <4>2
      <4> QED
        BY <3>2, <4>1, <4>2
    <3> QED
      BY <3>3, <3>4 DEF s
  <2>4. CASE Popped /\ j = k
    <3> DEFINE s == pending'[j]
    <3>1. pending[k] \in Seq(Instants) /\ pending[k] # <<>> /\ s = Front(pending[k]) /\ j = k
      BY <2>4, PairIs, PopIs
    <3> HIDE DEF s, k
    <3>2. Len(s) = n - 1 /\ \A a \in 1..n - 1 : s[a] = pending[j][a]
      BY <3>1, FrontIs
    <3>3. \A a \in 1..Len(s) : a \in 1..n /\ s[a] = pending[j][a]
      BY <1>1, <3>2
    <3> QED
      BY <2>1, <2>4, <3>3 DEF s
  <2> QED
    <3>1. CASE Pushed
      BY <2>2, <2>3, <3>1, PushIs
    <3>2. CASE Popped
      BY <2>2, <2>4, <3>2, PopIs
    <3>3. CASE Refused
      BY <2>2, <3>3 DEF Refused
    <3> QED
      BY <1>0, <3>1, <3>2, <3>3
<1>8. PendingInOrder'
  BY <1>1, <1>7 DEF PendingInOrder
<1> QED
  BY <1>3, <1>8

\* By no instant have more ended than begun, so no end finds its stack empty.
LEMMA NeverRefused ==
  ASSUME PairingTyped, RecordInv, PairInv, Pair
  PROVE  Pushed \/ Popped
<1> SUFFICES ASSUME Refused
             PROVE  FALSE
  BY PairIs
<1> DEFINE k == Entry.key
           t == Entry.time
           last == Len(trace)
           B == Begins(k) \cap By(t)
           E == Ends(k) \cap By(t)
<1>1. /\ pc = "pair" /\ paired \in Nat /\ k \in Keys /\ t \in Instants /\ Entry \in Endpoint
      /\ paired + 1 \in 1..last /\ paired + 1 <= last
  BY PairIs
<1>2. last \in Nat /\ paired <= last
  BY <1>1 DEF PairingTyped
<1>3. Entry.end /\ pending[k] = <<>>
  BY DEF Refused
<1>4. InTimeOrder(trace) /\ HandledOf(k) /\ EndpointsOf(trace, k)
  BY <1>1 DEF PairInv, HandledAgree, RecordInv, EndpointsAgree
<1>5. \A i \in 1..last :
         /\ i <= paired + 1 => trace[i].time <= t
         /\ ~trace[i].end /\ trace[i].time <= t => i <= paired
  BY <1>1, <1>3, <1>4, HandledFirst DEF Entry
<1>6. Count(trace, last, E) <= Count(trace, last, B)
  BY <1>1, <1>4 DEF EndpointsOf, Total
<1>7. Count(trace, paired, Begins(k)) = Count(trace, paired, Ends(k))
  <2>1. Count(trace, paired, Begins(k)) = Count(trace, paired, Ends(k)) + 0
    BY <1>3, <1>4 DEF HandledOf
  <2>2. Count(trace, paired, Ends(k)) \in Nat
    BY <1>1, CountIs
  <2> QED
    BY <2>1, <2>2
<1>8. Count(trace, last, B) <= Count(trace, paired, Begins(k))
  <2>1. ASSUME NEW i \in 1..last, trace[i] \in B
        PROVE  i <= paired
    <3>1. ~trace[i].end /\ trace[i].time <= t
      BY <2>1 DEF Begins, By
    <3> QED
      BY <1>5, <3>1
  <2>2. Count(trace, paired, B) = Count(trace, last, B)
    BY <1>1, <1>2, <2>1, CountedByThen
  <2>3. \A i \in 1..paired : trace[i] \in B => trace[i] \in Begins(k)
    OBVIOUS
  <2>4. Count(trace, paired, B) <= Count(trace, paired, Begins(k))
    <3>1. paired \in Nat /\ paired <= paired
      BY <1>1
    <3> HIDE DEF B, k
    <3> QED
      BY <2>3, <3>1, CountIncreases
  <2> QED
    BY <2>2, <2>4
<1>9. Count(trace, paired, Ends(k)) < Count(trace, last, E)
  <2>1. ASSUME NEW i \in 1..paired, trace[i] \in Ends(k)
        PROVE  trace[i] \in E
    <3>1. i \in 1..last /\ i <= paired + 1
      BY <1>1, <1>2
    <3> QED
      BY <1>5, <2>1, <3>1 DEF Ends, By
  <2>2. trace[paired + 1] \in E
    <3>1. Entry \in E
      <4>1. Entry.time <= t
        BY <1>1 DEF Instants
      <4> QED
        BY <1>1, <1>3, <4>1 DEF Ends, By
    <3> QED
      BY <3>1 DEF Entry
  <2>3. paired + 1 > paired
    BY <1>1
  <2>4. \E i \in 1..last : trace[i] \in E /\ (i > paired \/ trace[i] \notin Ends(k))
    BY <1>1, <2>2, <2>3
  <2> HIDE DEF E
  <2> QED
    BY <1>1, <1>2, <2>1, <2>4, CountIncreases
<1>10. /\ Count(trace, paired, Ends(k)) \in Nat /\ Count(trace, last, E) \in Nat
       /\ Count(trace, last, B) \in Nat
  BY <1>1, <1>2, CountIs
<1> QED
  BY <1>6, <1>7, <1>8, <1>9, <1>10

\* The counts follow.
LEMMA PairAgrees ==
  ASSUME PairingTyped, RecordInv, PairInv, Pair
  PROVE  HandledAgree'
<1> DEFINE x == Entry
           k == Entry.key
           t == Entry.time
           C(S) == Count(trace, paired, S)
           D(S) == Count(trace', paired', S)
<1>1. /\ pc = "pair" /\ paired \in Nat /\ k \in Keys /\ t \in Instants /\ x \in Endpoint
      /\ pending[k] \in Seq(Instants) /\ paired' = paired + 1 /\ trace' = trace
  BY PairIs
<1>2. pairs \in Seq(Section) /\ pending \in [Keys -> Seq(Instants)]
  BY DEF PairingTyped
<1>3. \A S : C(S) \in Nat /\ D(S) = IF x \in S THEN C(S) + 1 ELSE C(S)
  BY <1>1, CountIs, CountGrows DEF Entry
<1>4. \A j \in Keys : \A u \in Instants :
         /\ x \in Begins(j) <=> ~x.end /\ j = k
         /\ x \in Ends(j) <=> x.end /\ j = k
         /\ x \in Begins(j) \cap At(u) <=> ~x.end /\ j = k /\ u = t
         /\ x \in Ends(j) \cap At(u) <=> x.end /\ j = k /\ u = t
  BY <1>1 DEF Begins, Ends, At
<1>5. ASSUME NEW j \in Keys, NEW u \in Instants
      PROVE  /\ C(Begins(j) \cap At(u)) = Total(pairs, StartsAt(j, u)) + Total(pending[j], {u})
             /\ C(Ends(j) \cap At(u)) = Total(pairs, StopsAt(j, u))
             /\ C(Begins(j)) = C(Ends(j)) + Len(pending[j])
  BY <1>1 DEF PairInv, HandledAgree, HandledOf
<1>6. /\ \A S : Total(pairs, S) \in Nat
      /\ \A j \in Keys : Len(pending[j]) \in Nat /\ \A S : Total(pending[j], S) \in Nat
  BY <1>2, CountIs DEF Total
<1> SUFFICES ASSUME NEW j \in Keys
             PROVE  /\ \A u \in Instants :
                         /\ D(Begins(j) \cap At(u)) = Total(pairs', StartsAt(j, u)) + Total(pending'[j], {u})
                         /\ D(Ends(j) \cap At(u)) = Total(pairs', StopsAt(j, u))
                    /\ D(Begins(j)) = D(Ends(j)) + Len(pending'[j])
  BY DEF HandledAgree, HandledOf, Instants, Total, Count, Hits, Begins, Ends, At, StartsAt, StopsAt,
              Stop, Endpoint, Section
<1> HIDE DEF C, D
<1> SUFFICES ASSUME NEW u \in Instants
             PROVE  /\ D(Begins(j) \cap At(u)) = Total(pairs', StartsAt(j, u)) + Total(pending'[j], {u})
                    /\ D(Ends(j) \cap At(u)) = Total(pairs', StopsAt(j, u))
                    /\ D(Begins(j)) = D(Ends(j)) + Len(pending'[j])
  BY <1>1
<1>10. /\ C(Begins(j) \cap At(u)) = Total(pairs, StartsAt(j, u)) + Total(pending[j], {u})
       /\ C(Ends(j) \cap At(u)) = Total(pairs, StopsAt(j, u))
       /\ C(Begins(j)) = C(Ends(j)) + Len(pending[j])
  BY <1>5
<1>11. /\ C(Begins(j)) \in Nat /\ C(Ends(j)) \in Nat
       /\ Total(pairs, StartsAt(j, u)) \in Nat /\ Total(pairs, StopsAt(j, u)) \in Nat
       /\ Total(pending[j], {u}) \in Nat /\ Len(pending[j]) \in Nat
  BY <1>3, <1>6
<1>7. CASE Pushed
  <2>1. ~x.end /\ pairs' = pairs
    BY <1>7 DEF Pushed
  <2>2. pending'[k] = Append(pending[k], t) /\ (j # k => pending'[j] = pending[j])
    BY <1>7, PushIs
  <2>3. \A S : Total(pending'[k], S) = IF t \in S THEN Total(pending[k], S) + 1 ELSE Total(pending[k], S)
    BY <1>1, <2>2, TotalAppended
  <2>4. Len(pending'[k]) = Len(pending[k]) + 1
    BY <1>1, <2>2
  <2>5. D(Begins(j) \cap At(u)) = IF j = k /\ u = t THEN C(Begins(j) \cap At(u)) + 1 ELSE C(Begins(j) \cap At(u))
    BY <1>3, <1>4, <2>1
  <2>6. /\ D(Begins(j)) = IF j = k THEN C(Begins(j)) + 1 ELSE C(Begins(j))
        /\ D(Ends(j)) = C(Ends(j)) /\ D(Ends(j) \cap At(u)) = C(Ends(j) \cap At(u))
    BY <1>3, <1>4, <2>1
  <2>7. Total(pending'[j], {u}) = IF j = k /\ u = t THEN Total(pending[j], {u}) + 1 ELSE Total(pending[j], {u})
    BY <2>2, <2>3
  <2>8. Len(pending'[j]) = IF j = k THEN Len(pending[j]) + 1 ELSE Len(pending[j])
    BY <2>2, <2>4
  <2>9. D(Begins(j) \cap At(u)) = Total(pairs, StartsAt(j, u)) + Total(pending'[j], {u})
    BY <1>10, <1>11, <2>5, <2>7
  <2>10. D(Begins(j)) = D(Ends(j)) + Len(pending'[j])
    BY <1>10, <1>11, <2>6, <2>8
  <2> QED
    BY <1>10, <2>1, <2>6, <2>9, <2>10
<1>8. CASE Popped
  <2> DEFINE s == Close(pending[Entry.key], Entry.key, Entry.time)
  <2> HIDE DEF s
  <2>1. /\ pending[k] # <<>> /\ pending'[k] = Front(pending[k]) /\ (j # k => pending'[j] = pending[j])
        /\ s \in Section /\ s.key = k /\ s.start = Last(pending[k]) /\ Stop(s) = t
        /\ pairs' = Append(pairs, s)
    BY <1>8, PopIs DEF s
  <2>2. x.end
    BY <1>8 DEF Popped
  <2>3. \A S : Total(pairs', S) = IF s \in S THEN Total(pairs, S) + 1 ELSE Total(pairs, S)
    BY <1>2, <2>1, TotalAppended
  <2>4. /\ s \in StartsAt(j, u) <=> j = k /\ u = Last(pending[k])
        /\ s \in StopsAt(j, u) <=> j = k /\ u = t
    BY <2>1 DEF StartsAt, StopsAt
  <2>5. \A S : Total(pending[k], S) =
                 IF Last(pending[k]) \in S THEN Total(pending'[k], S) + 1 ELSE Total(pending'[k], S)
    BY <1>1, <2>1, TotalOfFront
  <2>6. Len(pending[k]) \in Nat \ {0} /\ Len(pending'[k]) = Len(pending[k]) - 1
        /\ pending'[k] \in Seq(Instants)
    BY <1>1, <2>1, FrontIs
  <2>7. \A S : Total(pending'[k], S) \in Nat
    BY <2>6, CountIs DEF Total
  <2>8. /\ D(Begins(j) \cap At(u)) = C(Begins(j) \cap At(u)) /\ D(Begins(j)) = C(Begins(j))
        /\ D(Ends(j)) = IF j = k THEN C(Ends(j)) + 1 ELSE C(Ends(j))
        /\ D(Ends(j) \cap At(u)) = IF j = k /\ u = t THEN C(Ends(j) \cap At(u)) + 1 ELSE C(Ends(j) \cap At(u))
    BY <1>3, <1>4, <2>2
  <2>9. D(Begins(j) \cap At(u)) = Total(pairs', StartsAt(j, u)) + Total(pending'[j], {u})
    <3>1. CASE j = k /\ u = Last(pending[k])
      <4>1. Total(pairs', StartsAt(j, u)) = Total(pairs, StartsAt(j, u)) + 1
        BY <2>3, <2>4, <3>1
      <4>2. Total(pending[j], {u}) = Total(pending'[j], {u}) + 1
        BY <2>5, <3>1
      <4>3. Total(pending'[j], {u}) \in Nat /\ Total(pairs, StartsAt(j, u)) \in Nat
        BY <1>6, <2>7, <3>1
      <4> QED
        BY <1>10, <2>8, <4>1, <4>2, <4>3
    <3>2. CASE ~(j = k /\ u = Last(pending[k]))
      <4>1. Total(pairs', StartsAt(j, u)) = Total(pairs, StartsAt(j, u))
        BY <2>3, <2>4, <3>2
      <4>2. Total(pending[j], {u}) = Total(pending'[j], {u})
        BY <2>1, <2>5, <3>2
      <4> QED
        BY <1>10, <2>8, <4>1, <4>2
    <3> QED
      BY <3>1, <3>2
  <2>10. D(Ends(j) \cap At(u)) = Total(pairs', StopsAt(j, u))
    BY <1>10, <2>3, <2>4, <2>8
  <2>11. D(Begins(j)) = D(Ends(j)) + Len(pending'[j])
    <3>1. CASE j = k
      <4>1. Len(pending[j]) \in Nat \ {0} /\ Len(pending'[j]) = Len(pending[j]) - 1
        BY <2>6, <3>1
      <4>2. D(Begins(j)) = C(Begins(j)) /\ D(Ends(j)) = C(Ends(j)) + 1 /\ C(Ends(j)) \in Nat
        BY <1>3, <2>8, <3>1
      <4> QED
        BY <1>10, <4>1, <4>2
    <3>2. CASE j # k
      BY <1>10, <2>1, <2>8, <3>2
    <3> QED
      BY <3>1, <3>2
  <2> QED
    BY <2>9, <2>10, <2>11
<1> QED
  <2>1. Pushed \/ Popped
    BY NeverRefused
  <2> QED
    BY <1>7, <1>8, <2>1

\* Every pair is a section, and no section is found twice.
LEMMA PairMatches ==
  ASSUME PairingTyped, RecordInv, PairInv, Pair
  PROVE  PairsAreSections'
<1>1. /\ pc = "pair" /\ paired + 1 <= Len(trace) /\ UNCHANGED <<now, open, truth, trace>>
      /\ Entry.key \in Keys
  BY PairIs
<1>2. (open = NothingOpen /\ ~Touching)' <=> open = NothingOpen /\ ~Touching
  BY <1>1 DEF NothingOpen, Touching
<1> SUFFICES ASSUME open = NothingOpen, ~Touching
             PROVE  \E f : Matches(f)'
  BY <1>2 DEF PairsAreSections
<1>3. PICK f : Matches(f)
  BY <1>1 DEF PairInv, PairsAreSections
<1>4. CASE Pushed
  <2>1. pairs' = pairs
    BY <1>4 DEF Pushed
  <2>2. Matches(f)'
    BY <1>1, <1>3, <2>1 DEF Matches
  <2> QED
    BY <2>2
<1>5. CASE Popped
  <2> DEFINE k == Entry.key
             s == Close(pending[k], k, Entry.time)
             p == Len(pairs)
             q == Len(truth)
  <2>1. /\ pairs' = Append(pairs, s) /\ pairs \in Seq(Section) /\ s \in Section
        /\ p \in Nat /\ q \in Nat
    BY <1>5, PopIs DEF PairingTyped
  <2>2. PICK m \in 1..q :
           /\ \A i \in 1..p : f[i] # m
           /\ truth[m] = s
    <3>1. InTimeOrder(trace) /\ PendingInOrder /\ HandledAgree
      BY <1>1 DEF PairInv
    <3>2. trace[paired + 1].end /\ k = trace[paired + 1].key /\ pending[k] # <<>>
          /\ Entry.time = trace[paired + 1].time
      BY <1>5 DEF Popped, Entry
    <3> HIDE DEF k
    <3> QED
      BY <1>1, <1>3, <3>1, <3>2, TopIsNext
  <2> HIDE DEF s, k, p, q
  <2> DEFINE g == [i \in 1..p + 1 |-> IF i = p + 1 THEN m ELSE f[i]]
  <2>3. Len(pairs') = p + 1 /\ pairs'[p + 1] = s /\ \A i \in 1..p : pairs'[i] = pairs[i]
    BY <2>1 DEF p
  <2>4. f \in [1..p -> 1..q] /\ \A i, j \in 1..p : f[i] = f[j] => i = j
    <3> DEFINE M == 1..p
               N == 1..q
    <3> HIDE DEF M, N
    <3>1. f \in Injection(M, N)
      BY <1>3 DEF Matches, M, N, p, q
    <3>2. f \in [M -> N] /\ \A i, j \in M : f[i] = f[j] => i = j
      BY <3>1, Fun_InjectionProperties
    <3> QED
      BY <3>2 DEF M, N
  <2>5. \A i \in 1..p + 1 : i = p + 1 \/ i \in 1..p
    BY <2>1
  <2>6. \A i \in 1..p : i # p + 1 /\ i \in 1..p + 1
    BY <2>1
  <2>7. p + 1 \in 1..p + 1
    BY <2>1
  <2>8. g[p + 1] = m /\ \A i \in 1..p : g[i] = f[i]
    BY <2>6, <2>7
  <2>9. g \in [1..p + 1 -> 1..q]
    BY <2>2, <2>4, <2>5
  <2> HIDE DEF g
  <2>10. \A i, j \in 1..p + 1 : g[i] = g[j] => i = j
    BY <2>2, <2>4, <2>5, <2>8
  <2>11. g \in Injection(1..p + 1, 1..q)
    BY <2>9, <2>10, Fun_IsInj
  <2>12. \A i \in 1..p : pairs[i] = truth[f[i]]
    BY <1>3 DEF Matches, p
  <2>13. \A i \in 1..p + 1 : pairs'[i] = truth[g[i]]
    BY <2>2, <2>3, <2>5, <2>8, <2>12
  <2>14. PICK h : h = g
    OBVIOUS
  <2>15. Len(pairs') = p + 1 /\ Len(truth') = q /\ truth' = truth
    BY <1>1, <2>3 DEF q
  <2>16. /\ h \in Injection(1..Len(pairs'), 1..Len(truth'))
         /\ \A i \in 1..Len(pairs') : pairs'[i] = truth'[h[i]]
    BY <2>11, <2>13, <2>14, <2>15
  <2>17. Matches(h)'
    BY <2>16 DEF Matches
  <2> QED
    BY <2>17
<1> QED
  <2>1. Pushed \/ Popped
    BY NeverRefused
  <2> QED
    BY <1>4, <1>5, <2>1

LEMMA PairPairs ==
  ASSUME PairingTyped, RecordInv, PairInv, Pair
  PROVE  PairInv'
<1>1. Pushed \/ Popped
  BY NeverRefused
<1>2. pc = "pair" /\ pc' = pc
  BY <1>1, PairIs DEF Pushed, Popped
<1>3. Concluded'
  BY <1>2 DEF Concluded
<1>4. InTimeOrder(trace)' /\ PendingInOrder'
  BY PairOrders
<1>5. HandledAgree'
  BY PairAgrees
<1>6. PairsAreSections'
  BY PairMatches
<1> QED
  BY <1>3, <1>4, <1>5, <1>6 DEF PairInv
-----------------------------------------------------------------------------
(* The end of the pairing. *)

\* Nothing waits at the end exactly where nothing was left open.
LEMMA FinishPairs ==
  ASSUME PairingTyped, RecordInv, PairInv, FinishPairing
  PROVE  PairInv'
<1>1. /\ pc = "pair" /\ paired = Len(trace) /\ UNCHANGED <<now, open, truth, trace, paired, pending, pairs>>
      /\ pc' = IF pending = NothingOpen THEN "done" ELSE "error"
  BY DEF FinishPairing, application
<1>2. InTimeOrder(trace) /\ PendingInOrder /\ HandledAgree /\ PairsAreSections
  BY <1>1 DEF PairInv
<1>3. \A k \in Keys : Len(pending[k]) = Len(open[k])
  <2> SUFFICES ASSUME NEW k \in Keys
               PROVE  Len(pending[k]) = Len(open[k])
    OBVIOUS
  <2>1. /\ Total(trace, Begins(k)) = Total(trace, Ends(k)) + Len(open[k])
        /\ Total(trace, Begins(k)) = Total(trace, Ends(k)) + Len(pending[k])
    BY <1>1, <1>2 DEF RecordInv, EndpointsAgree, EndpointsOf, HandledAgree, HandledOf, Total
  <2>2. Total(trace, Ends(k)) \in Nat
    BY CountIs DEF Total, PairingTyped
  <2>3. Len(pending[k]) \in Nat /\ Len(open[k]) \in Nat
    BY DEF PairingTyped
  <2> QED
    BY <2>1, <2>2, <2>3
<1>4. pending = NothingOpen <=> open = NothingOpen
  <2>1. /\ pending = NothingOpen <=> \A k \in Keys : pending[k] = <<>>
        /\ open = NothingOpen <=> \A k \in Keys : open[k] = <<>>
    BY DEF PairingTyped, NothingOpen
  <2>2. \A k \in Keys : pending[k] = <<>> <=> open[k] = <<>>
    <3> SUFFICES ASSUME NEW k \in Keys
                 PROVE  pending[k] = <<>> <=> open[k] = <<>>
      OBVIOUS
    <3>1. /\ pending[k] = <<>> <=> Len(pending[k]) = 0
          /\ open[k] = <<>> <=> Len(open[k]) = 0
      <4>1. pending[k] \in Seq(Instants) /\ open[k] \in Seq(Instants)
        BY DEF PairingTyped
      <4> QED
        BY <4>1
    <3> QED
      BY <1>3, <3>1
  <2> QED
    BY <2>1, <2>2
<1>5. Concluded'
  BY <1>1, <1>4 DEF Concluded, NothingOpen
<1>6. /\ InTimeOrder(trace)' /\ PendingInOrder'
  BY <1>1, <1>2 DEF InTimeOrder, PendingInOrder, Precedes
<1>7. HandledAgree'
  BY <1>1, <1>2 DEF HandledAgree, HandledOf
<1>8. PairsAreSections'
  BY <1>1, <1>2 DEF PairsAreSections, Matches, NothingOpen, Touching
<1> QED
  BY <1>5, <1>6, <1>7, <1>8 DEF PairInv

LEMMA FinishTyped ==
  ASSUME PairingTyped, RecordInv, FinishPairing
  PROVE  PairingTyped' /\ RecordInv'
<1>1. /\ pc = "pair" /\ UNCHANGED <<now, open, truth, trace, paired, pending, pairs>>
      /\ pc' \in {"done", "error"}
  BY DEF FinishPairing, application
<1>2. Instants' = Instants
  BY DEF Instants
<1>3. PairingTyped'
  BY <1>1, <1>2 DEF PairingTyped
<1>4. RecordInv'
  BY <1>1 DEF RecordInv, Recorded, SectionsNest, EndpointsAgree, EndpointsOf, Stop
<1> QED
  BY <1>3, <1>4

-----------------------------------------------------------------------------
(* The theorem. *)

PairingInv == PairingTyped /\ RecordInv /\ PairInv

LEMMA PairingInvInit == PairingInit => PairingInv
<1> SUFFICES ASSUME PairingInit
             PROVE  PairingInv
  OBVIOUS
<1>1. PairInv
  BY DEF PairingInit, PairInv
<1> QED
  BY <1>1, PairingTypedInit, RecordInit DEF PairingInv

LEMMA PairingInvStep == PairingInv /\ [PairingNext]_pairingVars => PairingInv'
<1> SUFFICES ASSUME PairingTyped, RecordInv, PairInv, [PairingNext]_pairingVars
             PROVE  PairingTyped' /\ RecordInv' /\ PairInv'
  BY DEF PairingInv
<1>1. CASE Tick
  <2>1. pc' = "record"
    BY <1>1 DEF Tick
  <2> QED
    BY <1>1, <2>1, TickTyped, TickRecorded DEF PairInv
<1>2. CASE SortEndpoints
  BY <1>2, SortTyped, SortRecorded, SortPairs
<1>3. CASE Pair
  BY <1>3, PairTyped, PairRecorded, PairPairs
<1>4. CASE FinishPairing
  BY <1>4, FinishTyped, FinishPairs
<1>5. ASSUME NEW k \in Keys, Begin(k)
      PROVE  PairingTyped' /\ RecordInv' /\ PairInv'
  <2>1. pc' = "record"
    BY <1>5 DEF Begin
  <2>2. RecordInv'
    BY <1>5, BeginRecorded, BeginNests, BeginAgrees DEF RecordInv
  <2> QED
    BY <1>5, <2>1, <2>2, BeginTyped DEF PairInv
<1>6. ASSUME NEW k \in Keys, End(k)
      PROVE  PairingTyped' /\ RecordInv' /\ PairInv'
  <2>1. pc' = "record"
    BY <1>6 DEF End
  <2>2. RecordInv'
    BY <1>6, EndRecorded, EndNests, EndAgrees DEF RecordInv
  <2> QED
    BY <1>6, <2>1, <2>2, EndTyped DEF PairInv
<1>7. CASE UNCHANGED pairingVars
  <2>1. UNCHANGED <<pc, now, open, truth, trace, paired, pending, pairs>>
    BY <1>7 DEF pairingVars, application
  <2>2. PairingTyped'
    BY <2>1 DEF PairingTyped, Instants
  <2>3. RecordInv'
    BY <2>1 DEF RecordInv, Recorded, SectionsNest, EndpointsAgree, EndpointsOf, Stop
  <2>4. InTimeOrder(trace)' <=> InTimeOrder(trace)
    BY <2>1 DEF InTimeOrder, Precedes
  <2>5. PendingInOrder' <=> PendingInOrder
    BY <2>1 DEF PendingInOrder
  <2>6. HandledAgree' <=> HandledAgree
    BY <2>1 DEF HandledAgree, HandledOf
  <2>7. PairsAreSections' <=> PairsAreSections
    BY <2>1 DEF PairsAreSections, Matches, NothingOpen, Touching
  <2>8. Concluded' <=> Concluded
    BY <2>1 DEF Concluded, NothingOpen
  <2>9. PairInv'
    BY <2>1, <2>4, <2>5, <2>6, <2>7, <2>8 DEF PairInv
  <2> QED
    BY <2>2, <2>3, <2>9
<1> QED
  BY <1>1, <1>2, <1>3, <1>4, <1>5, <1>6, <1>7 DEF PairingNext

\* When all is handled, every section has been found.
LEMMA AllMatched ==
  ASSUME PairingInv, pc = "done", ~Touching
  PROVE  \E f : /\ Matches(f)
                /\ \A j \in 1..Len(truth) : \E i \in 1..Len(pairs) : f[i] = j
<1>1. PairingTyped /\ RecordInv /\ HandledAgree /\ PairsAreSections /\ Concluded
  BY DEF PairingInv, PairInv
<1>2. PICK f : Matches(f)
  BY <1>1 DEF PairsAreSections, Concluded
<1>3. ASSUME NEW j \in 1..Len(truth)
      PROVE  \E i \in 1..Len(pairs) : f[i] = j
  <2> DEFINE k == truth[j].key
             t == Stop(truth[j])
             S == StopsAt(k, t)
             E == Ends(k) \cap At(t)
  <2>1. truth[j] \in Section
    BY <1>1 DEF PairingTyped
  <2>2. k \in Keys /\ t \in Nat
    BY <2>1, SectionIs
  <2>3. t <= now /\ now \in 0..MaxInstant
    BY <1>1 DEF RecordInv, Recorded, PairingTyped, Instants
  <2>4. t \in Instants
    BY <2>2, <2>3, BoundsAssumption DEF Instants, BoundsAssumption
  <2>5. truth[j] \in S
    BY <2>1 DEF StopsAt
  <2>6. Total(trace, E) = Total(truth, S)
    BY <1>1, <2>2, <2>4 DEF RecordInv, EndpointsAgree, EndpointsOf
  <2>7. Count(trace, paired, E) = Total(pairs, S)
    BY <1>1, <2>2, <2>4 DEF HandledAgree, HandledOf
  <2>8. paired = Len(trace)
    BY <1>1 DEF Concluded
  <2> HIDE DEF S, E
  <2>9. Total(pairs, S) = Total(truth, S)
    BY <2>6, <2>7, <2>8 DEF Total
  <2> QED
    BY <1>1, <1>2, <2>5, <2>9, MatchedCount
<1> QED
  BY <1>2, <1>3

\* Then the measures are the sections, counted with their repetitions.
LEMMA BagsAgree ==
  ASSUME PairingTyped, NEW f, Matches(f),
         \A j \in 1..Len(truth) : \E i \in 1..Len(pairs) : f[i] = j
  PROVE  ToBag(pairs) = ToBag(truth)
<1>1. /\ DOMAIN pairs = 1..Len(pairs) /\ DOMAIN truth = 1..Len(truth)
  BY DEF PairingTyped
<1>2. f \in [1..Len(pairs) -> 1..Len(truth)]
  <2> DEFINE M == 1..Len(pairs)
             N == 1..Len(truth)
  <2> HIDE DEF M, N
  <2>1. f \in Injection(M, N)
    BY DEF Matches, M, N
  <2>2. f \in [M -> N]
    BY <2>1, Fun_InjectionProperties
  <2> QED
    BY <2>2 DEF M, N
<1>3. \A x : Total(pairs, {x}) = Total(truth, {x})
  BY MatchedCount
<1>4. \A x : /\ Cardinality({i \in DOMAIN pairs : pairs[i] = x}) = Total(pairs, {x})
             /\ Cardinality({i \in DOMAIN truth : truth[i] = x}) = Total(truth, {x})
  <2> SUFFICES ASSUME NEW x
               PROVE  /\ Cardinality({i \in DOMAIN pairs : pairs[i] = x}) = Total(pairs, {x})
                      /\ Cardinality({i \in DOMAIN truth : truth[i] = x}) = Total(truth, {x})
    OBVIOUS
  <2>1. /\ {i \in DOMAIN pairs : pairs[i] = x} = Hits(pairs, Len(pairs), {x})
        /\ {i \in DOMAIN truth : truth[i] = x} = Hits(truth, Len(truth), {x})
    BY <1>1 DEF Hits
  <2> QED
    BY <2>1 DEF Total, Count
<1>5. Range(pairs) = Range(truth)
  <2>1. \A i \in 1..Len(pairs) : pairs[i] = truth[f[i]] /\ f[i] \in 1..Len(truth)
    BY <1>2 DEF Matches
  <2>2. \A j \in 1..Len(truth) : \E i \in 1..Len(pairs) : pairs[i] = truth[j]
    BY <2>1
  <2>3. /\ Range(pairs) = {pairs[i] : i \in 1..Len(pairs)}
        /\ Range(truth) = {truth[j] : j \in 1..Len(truth)}
    BY <1>1, Zenon DEF Range
  <2>4. \A x : x \in Range(pairs) => x \in Range(truth)
    BY <2>1, <2>3
  <2>5. \A x : x \in Range(truth) => x \in Range(pairs)
    BY <2>2, <2>3
  <2> QED
    BY <2>4, <2>5
<1>6. /\ ToBag(pairs) = [x \in Range(pairs) |-> Total(pairs, {x})]
      /\ ToBag(truth) = [x \in Range(truth) |-> Total(truth, {x})]
  BY <1>4 DEF ToBag
<1> QED
  BY <1>3, <1>5, <1>6

LEMMA Recovered == PairingInv => SectionsAreRecovered
<1> SUFFICES ASSUME PairingInv
             PROVE  SectionsAreRecovered
  OBVIOUS
<1>1. PairInv /\ PairingTyped
  BY DEF PairingInv
<1>2. /\ pc = "error" => open # NothingOpen
      /\ pc = "done" => open = NothingOpen
  BY <1>1 DEF PairInv, Concluded
<1>3. pc = "done" /\ ~Touching => ToBag(pairs) = ToBag(truth)
  BY <1>1, AllMatched, BagsAgree
<1> QED
  BY <1>2, <1>3 DEF SectionsAreRecovered

\* parse_main_thread_boundary_pairs refuses a trace exactly when a section was left
\* open, and recovers sections that do not touch as they were.
THEOREM SectionsRecovered == SummarySpec => []SectionsAreRecovered
<1>1. SummaryInit => PairingInv
  BY PairingInvInit DEF SummaryInit
<1>2. [SummaryNext]_summaryVars => [PairingNext]_pairingVars
  BY DEF SummaryNext, PairBoundaries, CountMarkers, FrameEvents, ReportMarkers, summaryVars
<1>3. PairingInv /\ [SummaryNext]_summaryVars => PairingInv'
  BY <1>2, PairingInvStep
<1> QED
  BY <1>1, <1>3, Recovered, PTL DEF SummarySpec
-----------------------------------------------------------------------------
(* Sums over the elements of a sequence. *)

\* What holds at the start and is handed on holds up to the end.
LEMMA HandedOn ==
  ASSUME NEW n \in Nat, NEW P, 0 \in P, \A i \in 1..n : i - 1 \in P => i \in P
  PROVE  \A i \in 0..n : i \in P
<1> DEFINE T == {i \in 0..n : i \notin P}
<1> SUFFICES ASSUME T # {}
             PROVE  FALSE
  OBVIOUS
<1>1. T \subseteq Nat
  OBVIOUS
<1> HIDE DEF T
<1>2. PICK i \in T : \A j \in T : i <= j
  BY <1>1, LeastNatural
<1>3. i \in 0..n /\ i \notin P /\ i # 0
  BY <1>2 DEF T
<1>4. i \in 1..n /\ i - 1 \in 0..n /\ ~(i <= i - 1)
  BY <1>3
<1>5. i - 1 \in P
  BY <1>2, <1>4 DEF T
<1> QED
  BY <1>3, <1>4, <1>5

\* g[i] is the sum of the first i values.
AddsUp(g, val, n) ==
  /\ g \in [0..n -> Nat] /\ g[0] = 0
  /\ \A i \in 1..n : g[i] = g[i - 1] + val[i]

LEMMA SumExists ==
  ASSUME NEW n \in Nat, NEW val \in [1..n -> Nat]
  PROVE  \E g : AddsUp(g, val, n)
<1> DEFINE P == {m \in 0..n : \E g : AddsUp(g, val, m)}
<1>1. 0 \in P
  <2> DEFINE g == [i \in 0..0 |-> 0]
  <2>1. AddsUp(g, val, 0)
    BY DEF AddsUp
  <2> QED
    BY <2>1
<1>2. ASSUME NEW m \in 1..n, m - 1 \in P
      PROVE  m \in P
  <2>1. PICK f : AddsUp(f, val, m - 1)
    BY <1>2
  <2> DEFINE g == [i \in 0..m |-> IF i = m THEN f[m - 1] + val[m] ELSE f[i]]
  <2>2. f \in [0..m - 1 -> Nat] /\ f[0] = 0 /\ \A i \in 1..m - 1 : f[i] = f[i - 1] + val[i]
    BY <2>1 DEF AddsUp
  <2>3. f[m - 1] \in Nat /\ val[m] \in Nat
    BY <2>2
  <2>4. g[m] = f[m - 1] + val[m] /\ \A i \in 0..m - 1 : g[i] = f[i]
    OBVIOUS
  <2>5. g \in [0..m -> Nat]
    BY <2>2, <2>3
  <2> HIDE DEF g
  <2>6. \A i \in 1..m : g[i] = g[i - 1] + val[i]
    <3> SUFFICES ASSUME NEW i \in 1..m
                 PROVE  g[i] = g[i - 1] + val[i]
      OBVIOUS
    <3>1. CASE i = m
      BY <2>4, <3>1
    <3>2. CASE i # m
      <4>1. i \in 1..m - 1 /\ i \in 0..m - 1 /\ i - 1 \in 0..m - 1
        BY <3>2
      <4> QED
        BY <2>2, <2>4, <4>1
    <3> QED
      BY <3>1, <3>2
  <2>7. g[0] = 0
    BY <2>2, <2>4
  <2>8. AddsUp(g, val, m)
    BY <2>5, <2>6, <2>7 DEF AddsUp
  <2> QED
    BY <2>8
<1> HIDE DEF P
<1>3. \A i \in 1..n : i - 1 \in P => i \in P
  BY <1>2
<1>4. \A i \in 0..n : i \in P
  BY <1>1, <1>3, HandedOn
<1> QED
  BY <1>4 DEF P

\* Equal values have equal sums.
LEMMA SumsAgree ==
  ASSUME NEW n \in Nat, NEW a, NEW b, \A i \in 1..n : a[i] = b[i],
         NEW g, NEW h, AddsUp(g, a, n), AddsUp(h, b, n)
  PROVE  \A i \in 0..n : g[i] = h[i]
<1> DEFINE P == {i \in 0..n : g[i] = h[i]}
<1>1. 0 \in P
  BY DEF AddsUp
<1>2. \A i \in 1..n : i - 1 \in P => i \in P
  BY DEF AddsUp
<1> HIDE DEF P
<1>3. \A i \in 0..n : i \in P
  BY <1>1, <1>2, HandedOn
<1> QED
  BY <1>3 DEF P

\* The values of c are those of a and of b together.
Together(a, b, c, n) ==
  a \in [1..n -> Nat] /\ b \in [1..n -> Nat] /\ \A i \in 1..n : c[i] = a[i] + b[i]

LEMMA SumOfSums ==
  ASSUME NEW n \in Nat, NEW a, NEW b, NEW c, Together(a, b, c, n),
         NEW f, NEW g, NEW h, AddsUp(f, a, n), AddsUp(g, b, n), AddsUp(h, c, n)
  PROVE  f[n] \in Nat /\ g[n] \in Nat /\ h[n] = f[n] + g[n]
<1> DEFINE P == {i \in 0..n : h[i] = f[i] + g[i]}
<1>0. /\ \A i \in 0..n : f[i] \in Nat /\ g[i] \in Nat
      /\ \A i \in 1..n : a[i] \in Nat /\ b[i] \in Nat /\ c[i] = a[i] + b[i]
  BY DEF AddsUp, Together
<1>1. 0 \in P
  BY DEF AddsUp
<1>2. ASSUME NEW i \in 1..n, i - 1 \in P
      PROVE  i \in P
  <2>1. h[i] = h[i - 1] + (a[i] + b[i]) /\ f[i] = f[i - 1] + a[i] /\ g[i] = g[i - 1] + b[i]
    BY <1>0 DEF AddsUp
  <2>2. i - 1 \in 0..n /\ h[i - 1] = f[i - 1] + g[i - 1] /\ i \in 0..n
    BY <1>2
  <2>3. f[i - 1] \in Nat /\ g[i - 1] \in Nat /\ a[i] \in Nat /\ b[i] \in Nat
    BY <1>0, <2>2
  <2> QED
    BY <2>1, <2>2, <2>3
<1> HIDE DEF P
<1>3. \A i \in 1..n : i - 1 \in P => i \in P
  BY <1>2
<1>4. \A i \in 0..n : i \in P
  BY <1>1, <1>3, HandedOn
<1> QED
  BY <1>0, <1>4 DEF P

\* A sum is the number of values that reach one, and of those that reach two, and so on.
LEMMA SumByLevels ==
  ASSUME NEW n \in Nat, NEW M \in Nat, NEW val \in [1..n -> 0..M], NEW g, AddsUp(g, val, n),
         NEW h, AddsUp(h, [u \in 1..M |-> Count(val, n, u..M)], M)
  PROVE  g[n] = h[M]
<1> DEFINE level(i) == [u \in 1..M |-> Count(val, i, u..M)]
           P == {i \in 0..n : \A f : AddsUp(f, level(i), M) => f[M] = g[i]}
<1>0. \A i \in 0..n : level(i) \in [1..M -> Nat] /\ g[i] \in Nat
  BY CountIs DEF AddsUp
<1>1. 0 \in P
  <2> SUFFICES ASSUME NEW f, AddsUp(f, level(0), M)
               PROVE  f[M] = g[0]
    OBVIOUS
  <2> DEFINE zero == [u \in 0..M |-> 0]
  <2>1. AddsUp(zero, level(0), M)
    <3>1. \A u \in 1..M : level(0)[u] = 0
      BY CountNothing
    <3> QED
      BY <3>1 DEF AddsUp
  <2>2. zero[M] = 0
    OBVIOUS
  <2> DEFINE none == level(0)
  <2> HIDE DEF none, zero
  <2>3. \A i \in 0..M : f[i] = zero[i]
    BY <2>1, SumsAgree DEF none
  <2> QED
    BY <2>2, <2>3 DEF AddsUp
<1>2. ASSUME NEW i \in 1..n, i - 1 \in P
      PROVE  i \in P
  <2> SUFFICES ASSUME NEW f, AddsUp(f, level(i), M)
               PROVE  f[M] = g[i]
    OBVIOUS
  <2>1. i - 1 \in Nat /\ i - 1 \in 0..n /\ i = (i - 1) + 1 /\ val[i] \in 0..M
    OBVIOUS
  <2>2. PICK e : AddsUp(e, level(i - 1), M)
    BY <1>0, <2>1, SumExists
  <2>3. e[M] = g[i - 1]
    BY <1>2, <2>2
  <2> DEFINE v == val[i]
             part(u) == IF u <= v THEN u ELSE v
             Q == {u \in 0..M : f[u] = e[u] + part(u)}
  <2>4. \A u \in 1..M : /\ level(i - 1)[u] \in Nat
                        /\ level(i)[u] = level(i - 1)[u] + (IF u <= v THEN 1 ELSE 0)
    <3> SUFFICES ASSUME NEW u \in 1..M
                 PROVE  /\ Count(val, i - 1, u..M) \in Nat
                        /\ Count(val, i, u..M) = Count(val, i - 1, u..M) + (IF u <= v THEN 1 ELSE 0)
      OBVIOUS
    <3>1. v \in u..M <=> u <= v
      BY <2>1
    <3>2. Count(val, i - 1, u..M) \in Nat
      BY <2>1, CountIs
    <3>3. Count(val, (i - 1) + 1, u..M) =
            IF val[(i - 1) + 1] \in u..M THEN Count(val, i - 1, u..M) + 1 ELSE Count(val, i - 1, u..M)
      BY <2>1, CountGrows
    <3> QED
      BY <2>1, <3>1, <3>2, <3>3
  <2> HIDE DEF level, v
  <2>5. v \in 0..M
    BY <2>1 DEF v
  <2>6. 0 \in Q
    BY <2>2, <2>5 DEF AddsUp
  <2>7. ASSUME NEW u \in 1..M, u - 1 \in Q
        PROVE  u \in Q
    <3>1. f[u] = f[u - 1] + level(i)[u] /\ e[u] = e[u - 1] + level(i - 1)[u]
      BY <2>2 DEF AddsUp
    <3>2. u - 1 \in 0..M /\ u \in 0..M /\ f[u - 1] = e[u - 1] + part(u - 1)
      BY <2>7
    <3>3. e[u - 1] \in Nat
      BY <2>2, <3>2 DEF AddsUp
    <3>4. part(u) = part(u - 1) + (IF u <= v THEN 1 ELSE 0) /\ part(u - 1) \in Nat
      BY <2>5
    <3> DEFINE c == level(i - 1)[u]
               d == IF u <= v THEN 1 ELSE 0
    <3>5. c \in Nat /\ d \in Nat /\ level(i)[u] = c + d
      BY <2>4
    <3> DEFINE x == part(u - 1)
               y == part(u)
    <3>7. /\ f[u] = f[u - 1] + (c + d) /\ e[u] = e[u - 1] + c
          /\ f[u - 1] = e[u - 1] + x /\ y = x + d /\ x \in Nat
      BY <3>1, <3>2, <3>4, <3>5
    <3> HIDE DEF c, d, x, y
    <3>6. f[u] = e[u] + y
      BY <3>3, <3>5, <3>7
    <3> QED
      BY <3>2, <3>6 DEF y
  <2> HIDE DEF Q
  <2>11. \A u \in 1..M : u - 1 \in Q => u \in Q
    BY <2>7
  <2>8. \A u \in 0..M : u \in Q
    BY <2>6, <2>11, HandedOn
  <2>9. f[M] = e[M] + v
    BY <2>5, <2>8 DEF Q
  <2>10. g[i] = g[i - 1] + val[i]
    BY DEF AddsUp
  <2> QED
    BY <2>3, <2>9, <2>10 DEF v
<1> HIDE DEF P
<1>3. \A i \in 1..n : i - 1 \in P => i \in P
  BY <1>2
<1>4. \A i \in 0..n : i \in P
  BY <1>1, <1>3, HandedOn
<1> QED
  BY <1>4 DEF P

\* As many of the first p values of a reach each level as of the first q of b.
SameLevels(a, p, b, q, M) == \A u \in 1..M : Count(a, p, u..M) = Count(b, q, u..M)

\* g adds up the first p values of a, none of them larger than M.
AddsUpTo(g, a, p, M) == p \in Nat /\ a \in [1..p -> 0..M] /\ AddsUp(g, a, p)

\* So sums are equal when as many values reach each level.
LEMMA SumsOfLevels ==
  ASSUME NEW p, NEW q, NEW M \in Nat, NEW a, NEW b, NEW g, NEW h,
         AddsUpTo(g, a, p, M), AddsUpTo(h, b, q, M), SameLevels(a, p, b, q, M)
  PROVE  g[p] = h[q]
<1>0. /\ p \in Nat /\ a \in [1..p -> 0..M] /\ AddsUp(g, a, p)
      /\ q \in Nat /\ b \in [1..q -> 0..M] /\ AddsUp(h, b, q)
  BY DEF AddsUpTo
<1> DEFINE c == [u \in 1..M |-> Count(a, p, u..M)]
           d == [u \in 1..M |-> Count(b, q, u..M)]
<1>1. c \in [1..M -> Nat] /\ c = d
  BY <1>0, CountIs DEF SameLevels
<1>2. PICK f : AddsUp(f, c, M)
  <2> HIDE DEF c, d
  <2> QED
    BY <1>1, SumExists
<1>3. g[p] = f[M]
  BY <1>0, <1>2, SumByLevels
<1>4. h[q] = f[M]
  <2>1. AddsUp(f, d, M)
    BY <1>1, <1>2
  <2> QED
    BY <1>0, <2>1, SumByLevels
<1> QED
  BY <1>3, <1>4
-----------------------------------------------------------------------------
(* Counts over the classes of a set. *)

OfClass(T, class, c) == {x \in T : class[x] = c}
OfClasses(T, class, D) == {x \in T : class[x] \in D}

SameClasses(s, p, u, q, T, class, C) ==
  \A c \in C : Count(s, p, OfClass(T, class, c)) = Count(u, q, OfClass(T, class, c))

\* Two sequences with as many elements of each class have as many of each set of classes.
LEMMA CountsOfClasses ==
  ASSUME NEW s, NEW p \in Nat, NEW u, NEW q \in Nat, NEW T, NEW C, NEW class \in [T -> C],
         SameClasses(s, p, u, q, T, class, C),
         NEW D
  PROVE  Count(s, p, OfClasses(T, class, D)) = Count(u, q, OfClasses(T, class, D))
<1> DEFINE A(c) == Hits(s, p, OfClass(T, class, c))
           B(c) == Hits(u, q, OfClass(T, class, c))
           F == [c \in C |-> CHOOSE f : f \in Bijection(A(c), B(c))]
           X == Hits(s, p, OfClasses(T, class, D))
           Y == Hits(u, q, OfClasses(T, class, D))
           h == [i \in X |-> F[class[s[i]]][i]]
<1>1. /\ \A i : i \in X <=> i \in 1..p /\ s[i] \in T /\ class[s[i]] \in D
      /\ \A j : j \in Y <=> j \in 1..q /\ u[j] \in T /\ class[u[j]] \in D
      /\ \A c \in C : \A i : i \in A(c) <=> i \in 1..p /\ s[i] \in T /\ class[s[i]] = c
      /\ \A c \in C : \A j : j \in B(c) <=> j \in 1..q /\ u[j] \in T /\ class[u[j]] = c
  BY DEF Hits, OfClass, OfClasses
<1>2. \A c \in C : ExistsBijection(A(c), B(c))
  <2> SUFFICES ASSUME NEW c \in C
               PROVE  ExistsBijection(A(c), B(c))
    OBVIOUS
  <2>1. IsFiniteSet(A(c)) /\ IsFiniteSet(B(c))
    BY CountIs
  <2>2. Cardinality(A(c)) = Cardinality(B(c))
    BY DEF Count, SameClasses
  <2> HIDE DEF A, B
  <2> QED
    BY <2>1, <2>2, FS_SameCardinalityBij
<1>3. IsFiniteSet(X)
  BY CountIs
<1> HIDE DEF A, B
<1>4. \A c \in C : F[c] \in Bijection(A(c), B(c))
  BY <1>2 DEF ExistsBijection
<1> HIDE DEF F
<1>5. \A c \in C : /\ F[c] \in [A(c) -> B(c)]
                   /\ \A i, j \in A(c) : F[c][i] = F[c][j] => i = j
                   /\ \A j \in B(c) : \E i \in A(c) : F[c][i] = j
  <2> SUFFICES ASSUME NEW c \in C
               PROVE  /\ F[c] \in [A(c) -> B(c)]
                      /\ \A i, j \in A(c) : F[c][i] = F[c][j] => i = j
                      /\ \A j \in B(c) : \E i \in A(c) : F[c][i] = j
    OBVIOUS
  <2> DEFINE a == A(c)
             b == B(c)
             f == F[c]
  <2>1. f \in Bijection(a, b)
    BY <1>4
  <2> HIDE DEF a, b, f
  <2>2. f \in [a -> b] /\ (\A i, j \in a : f[i] = f[j] => i = j) /\ \A j \in b : \E i \in a : f[i] = j
    BY <2>1, Fun_BijectionProperties
  <2> QED
    BY <2>2 DEF a, b, f
<1> HIDE DEF X, Y
<1>6. \A i \in X : /\ class[s[i]] \in C /\ i \in A(class[s[i]]) /\ h[i] = F[class[s[i]]][i]
                   /\ h[i] \in B(class[s[i]]) /\ h[i] \in Y /\ class[u[h[i]]] = class[s[i]]
  <2> SUFFICES ASSUME NEW i \in X
               PROVE  /\ class[s[i]] \in C /\ i \in A(class[s[i]]) /\ h[i] = F[class[s[i]]][i]
                      /\ h[i] \in B(class[s[i]]) /\ h[i] \in Y /\ class[u[h[i]]] = class[s[i]]
    OBVIOUS
  <2> DEFINE c == class[s[i]]
  <2>1. c \in C /\ i \in A(c) /\ h[i] = F[c][i] /\ c \in D
    BY <1>1
  <2> HIDE DEF c, h
  <2>2. h[i] \in B(c)
    BY <1>5, <2>1
  <2>3. h[i] \in Y /\ class[u[h[i]]] = c
    BY <1>1, <2>1, <2>2
  <2> QED
    BY <2>1, <2>2, <2>3 DEF c
<1> HIDE DEF h
<1>7. h \in [X -> Y]
  BY <1>6 DEF h
<1>8. \A i, j \in X : h[i] = h[j] => i = j
  <2> SUFFICES ASSUME NEW i \in X, NEW j \in X, h[i] = h[j]
               PROVE  i = j
    OBVIOUS
  <2>1. class[s[i]] = class[s[j]]
    BY <1>6
  <2> QED
    BY <1>5, <1>6, <2>1
<1>9. \A j \in Y : \E i \in X : h[i] = j
  <2> SUFFICES ASSUME NEW j \in Y
               PROVE  \E i \in X : h[i] = j
    OBVIOUS
  <2> DEFINE c == class[u[j]]
  <2>1. c \in C /\ j \in B(c) /\ c \in D
    BY <1>1
  <2> HIDE DEF c
  <2>2. PICK i \in A(c) : F[c][i] = j
    BY <1>5, <2>1
  <2>3. i \in X /\ class[s[i]] = c
    BY <1>1, <2>1, <2>2
  <2> QED
    BY <1>6, <2>2, <2>3
<1>10. h \in Bijection(X, Y)
  BY <1>7, <1>8, <1>9, Fun_IsBij
<1>11. Cardinality(X) = Cardinality(Y)
  <2>1. ExistsBijection(X, Y)
    BY <1>10 DEF ExistsBijection
  <2> QED
    BY <1>3, <2>1, FS_Bijection
<1> QED
  BY <1>11 DEF X, Y, Count

-----------------------------------------------------------------------------
(* The time in the sections of a marker. *)

\* The sections that ended while the clock could run.
ClosedSection == {x \in Section : Stop(x) \in Instants}

Classes == Keys \X Instants

\* A class of a section is its key with an instant.
IsClass(class) ==
  class \in [ClosedSection -> Classes] /\ \A x \in ClosedSection : class[x][1] = x.key

\* The moments, starts or ends, of the sections of a marker.
Moments(s, class, m) ==
  [i \in 1..Len(s) |-> IF Marker(s[i].key) = m THEN class[s[i]][2] ELSE 0]

MomentsOver(g, s, class, m) ==
  s \in Seq(ClosedSection) /\ AddsUp(g, Moments(s, class, m), Len(s))

\* A section's moments of one kind, starts or ends, add up alike for a marker where as many
\* of a key come at each instant.
LEMMA MomentsAddUp ==
  ASSUME NEW s, NEW u, NEW class, IsClass(class),
         SameClasses(s, Len(s), u, Len(u), ClosedSection, class, Classes),
         NEW m, NEW g, NEW h,
         MomentsOver(g, s, class, m), MomentsOver(h, u, class, m)
  PROVE  g[Len(s)] = h[Len(u)]
<1> DEFINE p == Len(s)
           q == Len(u)
           a == [i \in 1..p |-> IF Marker(s[i].key) = m THEN class[s[i]][2] ELSE 0]
           b == [i \in 1..q |-> IF Marker(u[i].key) = m THEN class[u[i]][2] ELSE 0]
           D(v) == {c \in Keys \X Instants : Marker(c[1]) = m /\ c[2] \in v..MaxInstant}
           R(v) == OfClasses(ClosedSection, class, D(v))
<1>0. class \in [ClosedSection -> Keys \X Instants] /\ \A x \in ClosedSection : class[x][1] = x.key
  BY DEF IsClass, Classes
<1>13. s \in Seq(ClosedSection) /\ u \in Seq(ClosedSection)
  BY DEF MomentsOver
<1>1. /\ p \in Nat /\ q \in Nat /\ MaxInstant \in Nat
      /\ \A i \in 1..p : s[i] \in ClosedSection
      /\ \A j \in 1..q : u[j] \in ClosedSection
  BY <1>13, BoundsAssumption DEF BoundsAssumption
<1>2. \A x \in ClosedSection : class[x] \in Keys \X Instants /\ class[x][1] = x.key /\ class[x][2] \in 0..MaxInstant
  BY <1>0 DEF Instants
<1>3. a \in [1..p -> 0..MaxInstant] /\ b \in [1..q -> 0..MaxInstant]
  BY <1>1, <1>2
<1>4. \A v \in 1..MaxInstant : \A x \in ClosedSection :
         (IF Marker(x.key) = m THEN class[x][2] ELSE 0) \in v..MaxInstant <=> x \in R(v)
  BY <1>1, <1>2 DEF OfClasses
<1>5. \A i \in 1..p : a[i] = IF Marker(s[i].key) = m THEN class[s[i]][2] ELSE 0
  OBVIOUS
<1>6. \A i \in 1..q : b[i] = IF Marker(u[i].key) = m THEN class[u[i]][2] ELSE 0
  OBVIOUS
<1>7. AddsUp(g, a, p) /\ AddsUp(h, b, q)
  BY DEF Moments, MomentsOver
<1>8. \A v : Count(s, p, R(v)) = Count(u, q, R(v))
  <2>1. SameClasses(s, p, u, q, ClosedSection, class, Classes)
    OBVIOUS
  <2> SUFFICES ASSUME NEW v
               PROVE  Count(s, p, R(v)) = Count(u, q, R(v))
    OBVIOUS
  <2> DEFINE E == D(v)
             C == Classes
  <2> HIDE DEF E, C, p, q, a, b
  <2>2. Count(s, p, OfClasses(ClosedSection, class, E)) = Count(u, q, OfClasses(ClosedSection, class, E))
    <3>1. class \in [ClosedSection -> C] /\ p \in Nat /\ q \in Nat
      BY <1>0, <1>1 DEF C, Classes
    <3>2. SameClasses(s, p, u, q, ClosedSection, class, C)
      BY <2>1 DEF C
    <3> QED
      BY <3>1, <3>2, CountsOfClasses
  <2> QED
    BY <2>2 DEF E
<1> HIDE DEF p, q, a, b, R, D
<1>9. \A v \in 1..MaxInstant : Count(a, p, v..MaxInstant) = Count(b, q, v..MaxInstant)
  <2> SUFFICES ASSUME NEW v \in 1..MaxInstant
               PROVE  Count(a, p, v..MaxInstant) = Count(b, q, v..MaxInstant)
    OBVIOUS
  <2>1. \A i \in 1..p : a[i] \in v..MaxInstant <=> s[i] \in R(v)
    BY <1>1, <1>4, <1>5
  <2>2. \A i \in 1..q : b[i] \in v..MaxInstant <=> u[i] \in R(v)
    BY <1>1, <1>4, <1>6
  <2> DEFINE V == v..MaxInstant
             W == R(v)
  <2>3. \A i \in 1..p : a[i] \in V <=> s[i] \in W
    BY <2>1
  <2>4. \A i \in 1..q : b[i] \in V <=> u[i] \in W
    BY <2>2
  <2>5. Count(s, p, W) = Count(u, q, W)
    BY <1>8
  <2> HIDE DEF V, W
  <2>6. Count(a, p, V) = Count(s, p, W)
    BY <2>3, CountAgrees
  <2>7. Count(b, q, V) = Count(u, q, W)
    BY <2>4, CountAgrees
  <2> QED
    BY <2>5, <2>6, <2>7 DEF V
<1>11. SameLevels(a, p, b, q, MaxInstant)
  BY <1>9 DEF SameLevels
<1>12. AddsUpTo(g, a, p, MaxInstant) /\ AddsUpTo(h, b, q, MaxInstant)
  BY <1>1, <1>3, <1>7 DEF AddsUpTo
<1>10. g[p] = h[q]
  BY <1>1, <1>11, <1>12, SumsOfLevels
<1> QED
  BY <1>10 DEF p, q
-----------------------------------------------------------------------------
(* FoldLeft, a recursive function over the sets of indices, as a recursion over prefixes. *)

\* F applies step to what is left of a set of indices, and to its largest.
StepsBack(F, n, base, step) ==
  \A s \in SUBSET (1..n) :
    F[s] = IF s = {} THEN base ELSE step[<<F[s \ {Max(s)}], Max(s)>>]

\* A recursion that takes the largest element of a set of indices away is well-defined.
LEMMA FoldExists ==
  ASSUME NEW n \in Nat, NEW T, NEW base \in T, NEW step \in [T \X (1..n) -> T]
  PROVE  \E F : F \in [SUBSET (1..n) -> T] /\ StepsBack(F, n, base, step)
<1> DEFINE Folds(F, m) == F \in [SUBSET (1..m) -> T] /\ StepsBack(F, m, base, step)
           P == {m \in 0..n : \E F : Folds(F, m)}
<1>1. 0 \in P
  <2> DEFINE F == [s \in SUBSET (1..0) |-> base]
  <2>1. Folds(F, 0)
    BY DEF StepsBack
  <2> HIDE DEF F, Folds
  <2> QED
    BY <2>1
<1>2. ASSUME NEW m \in 1..n, m - 1 \in P
      PROVE  m \in P
  <2>1. PICK G : Folds(G, m - 1)
    BY <1>2
  <2> DEFINE F == [s \in SUBSET (1..m) |-> IF m \in s THEN step[<<G[s \ {m}], m>>] ELSE G[s]]
  <2>2. ASSUME NEW s \in SUBSET (1..m), m \in s
        PROVE  F[s] \in T /\ s # {} /\ Max(s) = m /\ F[s \ {m}] = G[s \ {m}]
    <3>1. s \subseteq Nat /\ (\A y \in s : y <= m)
      OBVIOUS
    <3>2. Max(s) = m
      BY <2>2, <3>1, MaxIs
    <3>3. s \ {m} \in SUBSET (1..m - 1) /\ s \ {m} \in SUBSET (1..m) /\ m \notin s \ {m}
      OBVIOUS
    <3>4. G[s \ {m}] \in T
      BY <2>1, <3>3
    <3> QED
      BY <2>2, <3>2, <3>3, <3>4
  <2>3. ASSUME NEW s \in SUBSET (1..m), m \notin s
        PROVE  /\ F[s] = G[s] /\ F[s] \in T /\ s \in SUBSET (1..m - 1)
               /\ s # {} => F[s \ {Max(s)}] = G[s \ {Max(s)}]
    <3>3. ASSUME NEW i \in s
          PROVE  i \in 1..m - 1
      <4>1. i \in 1..m /\ i # m
        BY <2>3
      <4> QED
        BY <4>1
    <3>1. s \in SUBSET (1..m - 1) /\ s \ {Max(s)} \in SUBSET (1..m) /\ m \notin s \ {Max(s)}
      BY <2>3, <3>3
    <3>2. G[s] \in T
      BY <2>1, <3>1
    <3> QED
      BY <2>3, <3>1, <3>2
  <2>4. F \in [SUBSET (1..m) -> T]
    BY <2>2, <2>3
  <2>5. \A s \in SUBSET (1..m) : m \in s => F[s] = step[<<G[s \ {m}], m>>]
    OBVIOUS
  <2> HIDE DEF F
  <2>6. ASSUME NEW s \in SUBSET (1..m)
        PROVE  F[s] = IF s = {} THEN base ELSE step[<<F[s \ {Max(s)}], Max(s)>>]
    <3>1. CASE m \in s
      BY <2>2, <2>5, <3>1
    <3>2. CASE m \notin s
      <4>1. F[s] = G[s] /\ s \in SUBSET (1..m - 1) /\ (s # {} => F[s \ {Max(s)}] = G[s \ {Max(s)}])
        BY <2>3, <3>2
      <4>2. G[s] = IF s = {} THEN base ELSE step[<<G[s \ {Max(s)}], Max(s)>>]
        BY <2>1, <4>1 DEF StepsBack
      <4> QED
        BY <4>1, <4>2
    <3> QED
      BY <3>1, <3>2
  <2>7. Folds(F, m)
    BY <2>4, <2>6 DEF StepsBack
  <2> HIDE DEF Folds
  <2> QED
    BY <2>7
<1> HIDE DEF P
<1>3. \A m \in 1..n : m - 1 \in P => m \in P
  BY <1>2
<1>4. \A m \in 0..n : m \in P
  BY <1>1, <1>3, HandedOn
<1>5. n \in P
  BY <1>4
<1> QED
  BY <1>5 DEF P

\* What is left of the first i indices when the largest is taken away.
LEMMA PrefixLess ==
  ASSUME NEW n \in Nat, NEW i \in 1..n
  PROVE  /\ 1..i \in SUBSET (1..n) /\ 1..i # {} /\ Max(1..i) = i
         /\ (1..i) \ {i} = 1..i - 1 /\ 1..0 = {} /\ 1..0 \in SUBSET (1..n)
<1> DEFINE S == 1..i
<1>1. S \subseteq Nat /\ i \in S /\ \A y \in S : y <= i
  OBVIOUS
<1> HIDE DEF S
<1>2. Max(S) = i
  BY <1>1, MaxIs
<1> QED
  BY <1>1, <1>2 DEF S
-----------------------------------------------------------------------------
(* The time spent. *)

\* The folds of Spent, as FoldLeft defines them.
SectionFold(F, m) ==
  F = [t \in SUBSET DOMAIN truth |->
         IF t = {} THEN 0
         ELSE IF Marker(truth[Max(t)].key) = m
              THEN F[t \ {Max(t)}] + truth[Max(t)].duration ELSE F[t \ {Max(t)}]]
EventFold(F, m) ==
  F = [t \in SUBSET DOMAIN events |->
         IF t = {} THEN 0
         ELSE IF events[Max(t)].name = m
              THEN F[t \ {Max(t)}] + Duration(events[Max(t)]) ELSE F[t \ {Max(t)}]]

LEMMA SpentUnfolded ==
  ASSUME NEW m
  PROVE  Spent(m) = (CHOOSE F : SectionFold(F, m))[DOMAIN truth]
                    + (CHOOSE F : EventFold(F, m))[DOMAIN events]
  BY Zenon DEF FoldLeft, MapThenFoldSet, Spent, SectionFold, EventFold

\* Such a fold over n values of which some are used.
FoldOf(F, n, use, val) ==
  F = [t \in SUBSET (1..n) |->
         IF t = {} THEN 0
         ELSE IF use[Max(t)] THEN F[t \ {Max(t)}] + val[Max(t)] ELSE F[t \ {Max(t)}]]

UsedOf(n, use, val) == [i \in 1..n |-> IF use[i] THEN val[i] ELSE 0]

LEMMA LargestOfSome ==
  ASSUME NEW n \in Nat, NEW t \in SUBSET (1..n), t # {}
  PROVE  Max(t) \in 1..n
<1>1. t \subseteq Nat /\ \A y \in t : y <= n
  OBVIOUS
<1> QED
  BY <1>1, MaxExists

LEMMA FoldOfExists ==
  ASSUME NEW n \in Nat, NEW use, NEW val \in [1..n -> Nat]
  PROVE  \E F : FoldOf(F, n, use, val)
<1> DEFINE step == [x \in Nat \X (1..n) |-> IF use[x[2]] THEN x[1] + val[x[2]] ELSE x[1]]
<1>1. step \in [Nat \X (1..n) -> Nat]
  OBVIOUS
<1>2. \A v \in Nat, i \in 1..n : step[<<v, i>>] = IF use[i] THEN v + val[i] ELSE v
  OBVIOUS
<1> HIDE DEF step
<1>6. PICK F : F \in [SUBSET (1..n) -> Nat] /\ StepsBack(F, n, 0, step)
  BY <1>1, FoldExists
<1>3. /\ F \in [SUBSET (1..n) -> Nat]
      /\ \A s \in SUBSET (1..n) :
           F[s] = IF s = {} THEN 0 ELSE step[<<F[s \ {Max(s)}], Max(s)>>]
  BY <1>6 DEF StepsBack
<1>4. ASSUME NEW t \in SUBSET (1..n)
      PROVE  F[t] = IF t = {} THEN 0
                    ELSE IF use[Max(t)] THEN F[t \ {Max(t)}] + val[Max(t)] ELSE F[t \ {Max(t)}]
  <2>1. CASE t = {}
    BY <1>3, <2>1
  <2>2. CASE t # {}
    <3>1. Max(t) \in 1..n /\ t \ {Max(t)} \in SUBSET (1..n)
      BY <2>2, LargestOfSome
    <3>2. F[t \ {Max(t)}] \in Nat
      BY <1>3, <3>1
    <3> QED
      BY <1>2, <1>3, <2>2, <3>1, <3>2
  <2> QED
    BY <2>1, <2>2
<1>5. FoldOf(F, n, use, val)
  BY <1>3, <1>4 DEF FoldOf
<1> QED
  BY <1>5

LEMMA FoldOfAddsUp ==
  ASSUME NEW n \in Nat, NEW use, NEW val \in [1..n -> Nat], NEW F, FoldOf(F, n, use, val)
  PROVE  \E g : AddsUp(g, UsedOf(n, use, val), n) /\ g[n] = F[1..n]
<1> DEFINE part == UsedOf(n, use, val)
<1>1. F[{}] = 0 /\ 1..0 = {}
  BY DEF FoldOf
<1>2. \A i \in 1..n : F[1..i] = IF use[i] THEN F[1..i - 1] + val[i] ELSE F[1..i - 1]
  <2> SUFFICES ASSUME NEW i \in 1..n
               PROVE  F[1..i] = IF use[i] THEN F[1..i - 1] + val[i] ELSE F[1..i - 1]
    OBVIOUS
  <2> DEFINE t == 1..i
             r == 1..i - 1
  <2>1. t \in SUBSET (1..n) /\ t # {} /\ Max(t) = i /\ t \ {i} = r
    BY PrefixLess
  <2> HIDE DEF t, r
  <2>2. F[t] = IF t = {} THEN 0
               ELSE IF use[Max(t)] THEN F[t \ {Max(t)}] + val[Max(t)] ELSE F[t \ {Max(t)}]
    BY <2>1 DEF FoldOf
  <2>3. F[t] = IF use[i] THEN F[r] + val[i] ELSE F[r]
    BY <2>1, <2>2
  <2> QED
    BY <2>3 DEF t, r
<1> DEFINE g == [i \in 0..n |-> F[1..i]]
           P == {i \in 0..n : g[i] \in Nat}
<1>3. \A i \in 1..n : /\ part[i] \in Nat /\ val[i] \in Nat /\ i - 1 \in 0..n /\ i \in 0..n
                      /\ g[i] = IF use[i] THEN g[i - 1] + val[i] ELSE g[i - 1]
                      /\ part[i] = IF use[i] THEN val[i] ELSE 0
  BY <1>2 DEF UsedOf
<1>4. g[0] = 0 /\ g[n] = F[1..n] /\ DOMAIN g = 0..n
  BY <1>1
<1>6. g = [i \in 0..n |-> g[i]]
  OBVIOUS
<1> HIDE DEF g
<1>5. \A i \in 0..n : g[i] \in Nat
  <2>1. 0 \in P
    BY <1>4
  <2>2. \A i \in 1..n : i - 1 \in P => i \in P
    BY <1>3
  <2> HIDE DEF P
  <2>3. \A i \in 0..n : i \in P
    BY <2>1, <2>2, HandedOn
  <2> QED
    BY <2>3 DEF P
<1>7. \A i \in 1..n : g[i] = g[i - 1] + part[i]
  BY <1>3, <1>5
<1>8. g \in [0..n -> Nat]
  BY <1>5, <1>6
<1> QED
  BY <1>4, <1>7, <1>8 DEF AddsUp

\* The time of each section, or event, of a marker.
SectionTimes(s, m) == [i \in 1..Len(s) |-> IF Marker(s[i].key) = m THEN s[i].duration ELSE 0]
EventTimes(m) ==
  [i \in 1..Len(events) |-> IF events[i].name = m THEN Duration(events[i]) ELSE 0]

LEMMA SectionFoldAddsUp ==
  ASSUME truth \in Seq(Section), NEW m
  PROVE  \E g : /\ AddsUp(g, SectionTimes(truth, m), Len(truth))
                /\ g[Len(truth)] = (CHOOSE F : SectionFold(F, m))[DOMAIN truth]
<1> DEFINE n == Len(truth)
           use == [i \in 1..n |-> Marker(truth[i].key) = m]
           val == [i \in 1..n |-> truth[i].duration]
<1>1. n \in Nat /\ DOMAIN truth = 1..n /\ val \in [1..n -> Nat]
  <2>1. \A i \in 1..n : truth[i] \in Section
    OBVIOUS
  <2>2. \A s \in Section : s.duration \in Nat
    BY DEF Section
  <2> QED
    BY <2>1, <2>2
<1>2. \A i \in 1..n : use[i] = (Marker(truth[i].key) = m) /\ val[i] = truth[i].duration
  OBVIOUS
<1>4. SectionTimes(truth, m) = UsedOf(n, use, val)
  BY DEF SectionTimes, UsedOf
<1> HIDE DEF n, use, val
<1>3. \A F : SectionFold(F, m) <=> FoldOf(F, n, use, val)
  <2> SUFFICES ASSUME NEW F
               PROVE  SectionFold(F, m) <=> FoldOf(F, n, use, val)
    OBVIOUS
  <2>1. ASSUME NEW t \in SUBSET (1..n), t # {}
        PROVE  use[Max(t)] = (Marker(truth[Max(t)].key) = m) /\ val[Max(t)] = truth[Max(t)].duration
    BY <1>1, <1>2, <2>1, LargestOfSome
  <2>2. [t \in SUBSET (1..n) |->
           IF t = {} THEN 0
           ELSE IF use[Max(t)] THEN F[t \ {Max(t)}] + val[Max(t)] ELSE F[t \ {Max(t)}]]
        = [t \in SUBSET (1..n) |->
             IF t = {} THEN 0
             ELSE IF Marker(truth[Max(t)].key) = m
                  THEN F[t \ {Max(t)}] + truth[Max(t)].duration ELSE F[t \ {Max(t)}]]
    BY <2>1
  <2> QED
    BY <1>1, <2>2, Zenon DEF SectionFold, FoldOf
<1>5. PICK F0 : FoldOf(F0, n, use, val)
  BY <1>1, FoldOfExists
<1>6. PICK F : F = CHOOSE E : SectionFold(E, m)
  OBVIOUS
<1>7. FoldOf(F, n, use, val)
  BY <1>3, <1>5, <1>6
<1>8. \E g : AddsUp(g, SectionTimes(truth, m), n) /\ g[n] = F[1..n]
  BY <1>1, <1>4, <1>7, FoldOfAddsUp
<1> QED
  BY <1>1, <1>6, <1>8 DEF n

LEMMA EventFoldAddsUp ==
  ASSUME events \in Seq(Event), NEW m
  PROVE  \E g : /\ AddsUp(g, EventTimes(m), Len(events))
                /\ g[Len(events)] = (CHOOSE F : EventFold(F, m))[DOMAIN events]
<1> DEFINE n == Len(events)
           use == [i \in 1..n |-> events[i].name = m]
           val == [i \in 1..n |-> Duration(events[i])]
<1>1. n \in Nat /\ DOMAIN events = 1..n /\ val \in [1..n -> Nat]
  <2>1. \A i \in 1..n : events[i] \in Event
    OBVIOUS
  <2>2. \A e \in Event : Duration(e) \in Nat
    BY DEF Event, Duration
  <2> QED
    BY <2>1, <2>2
<1>2. \A i \in 1..n : use[i] = (events[i].name = m) /\ val[i] = Duration(events[i])
  OBVIOUS
<1>4. EventTimes(m) = UsedOf(n, use, val)
  BY DEF EventTimes, UsedOf
<1> HIDE DEF n, use, val
<1>3. \A F : EventFold(F, m) <=> FoldOf(F, n, use, val)
  <2> SUFFICES ASSUME NEW F
               PROVE  EventFold(F, m) <=> FoldOf(F, n, use, val)
    OBVIOUS
  <2>1. ASSUME NEW t \in SUBSET (1..n), t # {}
        PROVE  use[Max(t)] = (events[Max(t)].name = m) /\ val[Max(t)] = Duration(events[Max(t)])
    BY <1>1, <1>2, <2>1, LargestOfSome
  <2>2. [t \in SUBSET (1..n) |->
           IF t = {} THEN 0
           ELSE IF use[Max(t)] THEN F[t \ {Max(t)}] + val[Max(t)] ELSE F[t \ {Max(t)}]]
        = [t \in SUBSET (1..n) |->
             IF t = {} THEN 0
             ELSE IF events[Max(t)].name = m
                  THEN F[t \ {Max(t)}] + Duration(events[Max(t)]) ELSE F[t \ {Max(t)}]]
    BY <2>1
  <2> QED
    BY <1>1, <2>2, Zenon DEF EventFold, FoldOf
<1>5. PICK F0 : FoldOf(F0, n, use, val)
  BY <1>1, FoldOfExists
<1>6. PICK F : F = CHOOSE E : EventFold(E, m)
  OBVIOUS
<1>7. FoldOf(F, n, use, val)
  BY <1>3, <1>5, <1>6
<1>8. \E g : AddsUp(g, EventTimes(m), n) /\ g[n] = F[1..n]
  BY <1>1, <1>4, <1>7, FoldOfAddsUp
<1> QED
  BY <1>1, <1>6, <1>8 DEF n

\* The time spent under a marker adds up over the sections and over the events.
LEMMA SpentIs ==
  ASSUME truth \in Seq(Section), events \in Seq(Event), NEW m
  PROVE  \E g, h : /\ AddsUp(g, SectionTimes(truth, m), Len(truth))
                   /\ AddsUp(h, EventTimes(m), Len(events))
                   /\ Spent(m) = g[Len(truth)] + h[Len(events)]
  BY SectionFoldAddsUp, EventFoldAddsUp, SpentUnfolded
-----------------------------------------------------------------------------
(* The table of markers. *)

Table == [of : UNION {[D -> Aggregate] : D \in SUBSET Markers}, cut : BOOLEAN]

\* A marker that has a place in the table, or gets one.
Fits(t, m) ==
  m \in Markers /\ (m \in DOMAIN t.of \/ Cardinality(DOMAIN t.of) < MaxUniqueMarkers)

LEMMA TableIs ==
  ASSUME NEW t \in Table
  PROVE  /\ t.of \in [DOMAIN t.of -> Aggregate] /\ DOMAIN t.of \subseteq Markers /\ t.cut \in BOOLEAN
         /\ t = [of |-> t.of, cut |-> t.cut]
  BY DEF Table

LEMMA TableMade ==
  ASSUME NEW D \in SUBSET Markers, NEW f \in [D -> Aggregate], NEW b \in BOOLEAN
  PROVE  [of |-> f, cut |-> b] \in Table
  BY DEF Table

LEMMA CountMarkerFits ==
  ASSUME NEW t \in Table, NEW x, x.duration \in Nat, Fits(t, x.marker),
         NEW u, u = CountMarker(t, x)
  PROVE  /\ u \in Table /\ u.cut = t.cut /\ DOMAIN u.of = DOMAIN t.of \cup {x.marker}
         /\ \A m \in DOMAIN t.of \ {x.marker} : u.of[m] = t.of[m]
         /\ u.of[x.marker].total =
              (IF x.marker \in DOMAIN t.of THEN t.of[x.marker].total ELSE 0) + x.duration
<1> DEFINE D == DOMAIN t.of \cup {x.marker}
           Old(m) == IF m \in DOMAIN t.of THEN t.of[m] ELSE NoAggregate
           f == [m \in D |-> IF m = x.marker THEN Update(Old(m), x.duration) ELSE Old(m)]
<1>1. /\ t.of \in [DOMAIN t.of -> Aggregate] /\ DOMAIN t.of \subseteq Markers /\ t.cut \in BOOLEAN
      /\ t = [of |-> t.of, cut |-> t.cut]
  BY TableIs
<1>2. u = [t EXCEPT !.of = f]
  BY DEF CountMarker, Fits
<1>3. NoAggregate \in Aggregate /\ NoAggregate.total = 0
  BY DEF NoAggregate, Aggregate
<1>4. \A m : Old(m) \in Aggregate
  BY <1>1, <1>3
<1>5. /\ Update(Old(x.marker), x.duration) \in Aggregate
      /\ Update(Old(x.marker), x.duration).total = Old(x.marker).total + x.duration
  <2> DEFINE a == Old(x.marker)
             d == x.duration
  <2>1. a \in Aggregate /\ d \in Nat
    BY <1>4
  <2> HIDE DEF a, d
  <2>2. Update(a, d) \in Aggregate /\ Update(a, d).total = a.total + d
    BY <2>1, UpdateIs
  <2> QED
    BY <2>2 DEF a, d
<1>6. D \in SUBSET Markers
  BY <1>1 DEF Fits
<1>7. /\ Old(x.marker).total = IF x.marker \in DOMAIN t.of THEN t.of[x.marker].total ELSE 0
      /\ \A m \in DOMAIN t.of : Old(m) = t.of[m]
  BY <1>3
<1> HIDE DEF Old
<1>8. /\ f \in [D -> Aggregate] /\ DOMAIN f = D
      /\ f[x.marker] = Update(Old(x.marker), x.duration)
      /\ \A m \in DOMAIN t.of \ {x.marker} : f[m] = Old(m)
  BY <1>4, <1>5
<1> HIDE DEF D, f
<1>9. u = [of |-> f, cut |-> t.cut]
  BY <1>1, <1>2
<1>10. u.of = f /\ u.cut = t.cut
  BY <1>9
<1>11. u \in Table
  BY <1>1, <1>6, <1>8, <1>9, TableMade
<1> QED
  BY <1>5, <1>7, <1>8, <1>10, <1>11 DEF D

LEMMA CountMarkerCut ==
  ASSUME NEW t \in Table, NEW x, ~Fits(t, x.marker), NEW u, u = CountMarker(t, x)
  PROVE  u \in Table /\ u.of = t.of /\ (u.cut <=> t.cut \/ x.marker \in Markers)
<1>1. /\ t.of \in [DOMAIN t.of -> Aggregate] /\ DOMAIN t.of \subseteq Markers /\ t.cut \in BOOLEAN
      /\ t = [of |-> t.of, cut |-> t.cut]
  BY TableIs
<1> DEFINE b == t.cut \/ x.marker \in Markers
<1>2. u = [t EXCEPT !.cut = b]
  BY DEF CountMarker, Fits
<1>3. b \in BOOLEAN
  OBVIOUS
<1> HIDE DEF b
<1>4. u = [of |-> t.of, cut |-> b]
  BY <1>1, <1>2
<1>5. u \in Table
  BY <1>1, <1>3, <1>4, TableMade
<1>6. u.of = t.of /\ u.cut = b
  BY <1>4
<1> QED
  BY <1>5, <1>6 DEF b

LEMMA CountMarkerTyped ==
  ASSUME NEW t \in Table, NEW x, x.duration \in Nat
  PROVE  CountMarker(t, x) \in Table
  BY CountMarkerFits, CountMarkerCut

\* The fold of CountMarkers, as FoldLeft defines it.
MarkerFold(F, base, s) ==
  F = [t \in SUBSET DOMAIN s |->
         IF t = {} THEN base ELSE CountMarker(F[t \ {Max(t)}], s[Max(t)])]

LEMMA MarkersUnfolded ==
  ASSUME NEW s, NEW base
  PROVE  FoldLeft(CountMarker, base, s) = (CHOOSE F : MarkerFold(F, base, s))[DOMAIN s]
  BY Zenon DEF FoldLeft, MapThenFoldSet, MarkerFold

\* Measures whose durations are numbers.
Measured(s) ==
  Len(s) \in Nat /\ DOMAIN s = 1..Len(s) /\ \A i \in 1..Len(s) : s[i].duration \in Nat

LEMMA MarkerFoldExists ==
  ASSUME NEW s, Measured(s), NEW base \in Table
  PROVE  \E F : MarkerFold(F, base, s)
<1> DEFINE n == Len(s)
           step == [x \in Table \X (1..n) |-> CountMarker(x[1], s[x[2]])]
<1>1. n \in Nat /\ DOMAIN s = 1..n /\ \A i \in 1..n : s[i].duration \in Nat
  BY DEF Measured
<1>2. \A t \in Table, i \in 1..n : CountMarker(t, s[i]) \in Table
  BY <1>1, CountMarkerTyped
<1>3. step \in [Table \X (1..n) -> Table]
  BY <1>2
<1>4. \A t \in Table, i \in 1..n : step[<<t, i>>] = CountMarker(t, s[i])
  OBVIOUS
<1> HIDE DEF step, n
<1>5. PICK F : F \in [SUBSET (1..n) -> Table] /\ StepsBack(F, n, base, step)
  BY <1>1, <1>3, FoldExists
<1>6. /\ F \in [SUBSET (1..n) -> Table]
      /\ \A t \in SUBSET (1..n) :
           F[t] = IF t = {} THEN base ELSE step[<<F[t \ {Max(t)}], Max(t)>>]
  BY <1>5 DEF StepsBack
<1>7. ASSUME NEW t \in SUBSET (1..n)
      PROVE  F[t] = IF t = {} THEN base ELSE CountMarker(F[t \ {Max(t)}], s[Max(t)])
  <2>1. CASE t = {}
    BY <1>6, <2>1
  <2>2. CASE t # {}
    <3>1. Max(t) \in 1..n /\ t \ {Max(t)} \in SUBSET (1..n)
      BY <1>1, <2>2, LargestOfSome
    <3>2. F[t \ {Max(t)}] \in Table
      BY <1>6, <3>1
    <3> QED
      BY <1>4, <1>6, <2>2, <3>1, <3>2
  <2> QED
    BY <2>1, <2>2
<1>8. MarkerFold(F, base, s)
  BY <1>1, <1>6, <1>7 DEF MarkerFold
<1> QED
  BY <1>8

LEMMA MarkerFoldFollows ==
  ASSUME NEW s, Measured(s), NEW base, NEW F, MarkerFold(F, base, s)
  PROVE  /\ F[1..0] = base
         /\ \A i \in 1..Len(s) : F[1..i] = CountMarker(F[1..i - 1], s[i])
<1> DEFINE n == Len(s)
<1>1. n \in Nat /\ DOMAIN s = 1..n
  BY DEF Measured
<1> HIDE DEF n
<1>2. F[{}] = base /\ 1..0 = {}
  BY DEF MarkerFold
<1>3. ASSUME NEW i \in 1..n
      PROVE  F[1..i] = CountMarker(F[1..i - 1], s[i])
  <2> DEFINE t == 1..i
             r == 1..i - 1
  <2>1. t \in SUBSET (1..n) /\ t # {} /\ Max(t) = i /\ t \ {i} = r
    BY <1>1, PrefixLess
  <2> HIDE DEF t, r
  <2>2. F[t] = IF t = {} THEN base ELSE CountMarker(F[t \ {Max(t)}], s[Max(t)])
    BY <1>1, <2>1 DEF MarkerFold
  <2>3. F[t] = CountMarker(F[r], s[i])
    BY <2>1, <2>2
  <2> QED
    BY <2>3 DEF t, r
<1> QED
  BY <1>2, <1>3 DEF n

\* The durations of the measures of a marker.
MeasureTimes(s, m) == [i \in 1..Len(s) |-> IF s[i].marker = m THEN s[i].duration ELSE 0]

\* The table t after the first i measures: a marker in it has their time, and one that is
\* not in it either did not come yet or found the table full.
TableOf(t, s, i) ==
  /\ t \in Table /\ IsFiniteSet(DOMAIN t.of)
  /\ \A m \in Markers : \A g : AddsUp(g, MeasureTimes(s, m), Len(s)) =>
       /\ m \in DOMAIN t.of => t.of[m].total = g[i]
       /\ m \notin DOMAIN t.of =>
            \/ g[i] = 0 /\ \A j \in 1..i : s[j].marker # m
            \/ t.cut /\ ~(Cardinality(DOMAIN t.of) < MaxUniqueMarkers)

LEMMA TableGrows ==
  ASSUME NEW s, Measured(s), NEW i \in 1..Len(s), NEW t, TableOf(t, s, i - 1),
         NEW u, u = CountMarker(t, s[i])
  PROVE  TableOf(u, s, i)
<1> DEFINE x == s[i]
<1>1. /\ Len(s) \in Nat /\ x.duration \in Nat /\ i - 1 \in Nat /\ i \in Nat
      /\ t \in Table /\ IsFiniteSet(DOMAIN t.of)
      /\ u = CountMarker(t, x)
  BY DEF Measured, TableOf
<1>2. ASSUME NEW m, NEW g, AddsUp(g, MeasureTimes(s, m), Len(s))
      PROVE  /\ g[i] = g[i - 1] + (IF x.marker = m THEN x.duration ELSE 0)
             /\ g[i - 1] \in Nat
  BY <1>1, <1>2 DEF AddsUp, MeasureTimes
<1>3. ASSUME NEW m \in Markers, NEW g, AddsUp(g, MeasureTimes(s, m), Len(s))
      PROVE  /\ m \in DOMAIN t.of => t.of[m].total = g[i - 1]
             /\ m \notin DOMAIN t.of =>
                  \/ g[i - 1] = 0 /\ \A j \in 1..i - 1 : s[j].marker # m
                  \/ t.cut /\ ~(Cardinality(DOMAIN t.of) < MaxUniqueMarkers)
  BY <1>3 DEF TableOf
<1>4. \A j \in 1..i : j \in 1..i - 1 \/ j = i
  BY <1>1
<1>5. CASE Fits(t, x.marker)
  <2>1. /\ u \in Table /\ u.cut = t.cut /\ DOMAIN u.of = DOMAIN t.of \cup {x.marker}
        /\ \A m \in DOMAIN t.of \ {x.marker} : u.of[m] = t.of[m]
        /\ u.of[x.marker].total =
             (IF x.marker \in DOMAIN t.of THEN t.of[x.marker].total ELSE 0) + x.duration
    <3> HIDE DEF x
    <3> QED
      BY <1>1, <1>5, CountMarkerFits
  <2>2. IsFiniteSet(DOMAIN u.of) /\ Cardinality(DOMAIN t.of) <= Cardinality(DOMAIN u.of)
        /\ Cardinality(DOMAIN t.of) \in Nat /\ Cardinality(DOMAIN u.of) \in Nat
    <3> DEFINE A == DOMAIN t.of
               B == DOMAIN u.of
    <3>1. IsFiniteSet(A) /\ B = A \cup {x.marker}
      BY <1>1, <2>1
    <3> HIDE DEF A, B, x
    <3>2. IsFiniteSet(B) /\ A \subseteq B
      BY <3>1, FS_AddElement
    <3>3. Cardinality(A) <= Cardinality(B) /\ Cardinality(A) \in Nat /\ Cardinality(B) \in Nat
      BY <3>1, <3>2, FS_Subset, FS_CardinalityType
    <3> QED
      BY <3>2, <3>3 DEF A, B
  <2>3. ASSUME NEW m \in Markers, NEW g, AddsUp(g, MeasureTimes(s, m), Len(s))
        PROVE  /\ m \in DOMAIN u.of => u.of[m].total = g[i]
               /\ m \notin DOMAIN u.of =>
                    \/ g[i] = 0 /\ \A j \in 1..i : s[j].marker # m
                    \/ u.cut /\ ~(Cardinality(DOMAIN u.of) < MaxUniqueMarkers)
    <3>1. CASE x.marker = m
      <4>1. g[i] = g[i - 1] + x.duration /\ m \in DOMAIN u.of
        BY <1>2, <2>1, <2>3, <3>1
      <4>2. g[i - 1] = IF m \in DOMAIN t.of THEN t.of[m].total ELSE 0
        BY <1>3, <1>5, <2>3, <3>1 DEF Fits
      <4> QED
        BY <2>1, <3>1, <4>1, <4>2
    <3>2. CASE x.marker # m
      <4>1. g[i] = g[i - 1]
        BY <1>2, <2>3, <3>2
      <4>2. MaxUniqueMarkers \in Nat
        BY MarkersAssumption DEF MarkersAssumption
      <4>3. CASE m \in DOMAIN t.of
        BY <1>3, <2>1, <2>3, <3>2, <4>1, <4>3
      <4>4. CASE m \notin DOMAIN t.of
        <5>1. m \notin DOMAIN u.of
          BY <2>1, <3>2, <4>4
        <5>2. CASE g[i - 1] = 0 /\ \A j \in 1..i - 1 : s[j].marker # m
          BY <1>4, <3>2, <4>1, <5>1, <5>2
        <5>3. CASE t.cut /\ ~(Cardinality(DOMAIN t.of) < MaxUniqueMarkers)
          BY <2>1, <2>2, <4>2, <5>1, <5>3
        <5> QED
          BY <1>3, <2>3, <4>4, <5>2, <5>3
      <4> QED
        BY <4>3, <4>4
    <3> QED
      BY <3>1, <3>2
  <2> QED
    BY <2>1, <2>2, <2>3 DEF TableOf
<1>6. CASE ~Fits(t, x.marker)
  <2>1. u \in Table /\ u.of = t.of /\ (u.cut <=> t.cut \/ x.marker \in Markers)
    <3> HIDE DEF x
    <3> QED
      BY <1>1, <1>6, CountMarkerCut
  <2>2. ASSUME NEW m \in Markers, NEW g, AddsUp(g, MeasureTimes(s, m), Len(s))
        PROVE  /\ m \in DOMAIN u.of => u.of[m].total = g[i]
               /\ m \notin DOMAIN u.of =>
                    \/ g[i] = 0 /\ \A j \in 1..i : s[j].marker # m
                    \/ u.cut /\ ~(Cardinality(DOMAIN u.of) < MaxUniqueMarkers)
    <3>1. CASE x.marker = m
      BY <1>6, <2>1, <3>1 DEF Fits
    <3>2. CASE x.marker # m
      <4>1. g[i] = g[i - 1]
        BY <1>2, <2>2, <3>2
      <4> QED
        BY <1>3, <1>4, <2>1, <2>2, <3>2, <4>1
    <3> QED
      BY <3>1, <3>2
  <2> QED
    BY <1>1, <2>1, <2>2 DEF TableOf
<1> QED
  BY <1>5, <1>6

\* The table that CountMarkers makes of the measures.
LEMMA TableIsOf ==
  ASSUME NEW s, Measured(s), NEW base, base = [of |-> [m \in {} |-> NoAggregate], cut |-> FALSE]
  PROVE  TableOf(FoldLeft(CountMarker, base, s), s, Len(s))
<1> DEFINE none == [m \in {} |-> NoAggregate]
<1>1. Len(s) \in Nat /\ DOMAIN s = 1..Len(s)
  BY DEF Measured
<1>2. none \in [{} -> Aggregate] /\ DOMAIN none = {}
  OBVIOUS
<1>7. base = [of |-> none, cut |-> FALSE]
  OBVIOUS
<1> HIDE DEF none
<1>3. base \in Table /\ DOMAIN base.of = {}
  <2>1. base \in Table
    BY <1>2, <1>7, TableMade
  <2> QED
    BY <1>2, <1>7, <2>1
<1>4. TableOf(base, s, 0)
  <2>1. \A m, g : AddsUp(g, MeasureTimes(s, m), Len(s)) => g[0] = 0
    BY DEF AddsUp
  <2> QED
    BY <1>3, <2>1, FS_EmptySet DEF TableOf
<1>5. PICK E : MarkerFold(E, base, s)
  BY <1>3, MarkerFoldExists
<1>6. PICK F : F = CHOOSE G : MarkerFold(G, base, s)
  OBVIOUS
<1>8. MarkerFold(F, base, s)
  BY <1>5, <1>6
<1>9. F[1..0] = base /\ \A i \in 1..Len(s) : F[1..i] = CountMarker(F[1..i - 1], s[i])
  BY <1>8, MarkerFoldFollows
<1> DEFINE P == {i \in 0..Len(s) : TableOf(F[1..i], s, i)}
<1>10. 0 \in P
  BY <1>1, <1>4, <1>9
<1>11. ASSUME NEW i \in 1..Len(s), i - 1 \in P
       PROVE  i \in P
  <2>1. TableOf(F[1..i - 1], s, i - 1) /\ F[1..i] = CountMarker(F[1..i - 1], s[i]) /\ i \in 0..Len(s)
    BY <1>9, <1>11
  <2>2. TableOf(F[1..i], s, i)
    <3> DEFINE t == F[1..i - 1]
               u == F[1..i]
    <3>1. TableOf(t, s, i - 1) /\ u = CountMarker(t, s[i])
      BY <2>1
    <3> HIDE DEF t, u
    <3>2. TableOf(u, s, i)
      BY <3>1, TableGrows
    <3> QED
      BY <3>2 DEF u
  <2> QED
    BY <2>1, <2>2
<1> HIDE DEF P
<1>12. \A i \in 1..Len(s) : i - 1 \in P => i \in P
  BY <1>11
<1>13. \A i \in 0..Len(s) : i \in P
  BY <1>1, <1>10, <1>12, HandedOn
<1>14. TableOf(F[1..Len(s)], s, Len(s))
  BY <1>1, <1>13 DEF P
<1>15. FoldLeft(CountMarker, base, s) = F[1..Len(s)]
  BY <1>1, <1>6, MarkersUnfolded
<1> QED
  BY <1>14, <1>15
-----------------------------------------------------------------------------
(* The measures found have the time of the sections. *)

\* Every pair ends at an instant of the clock.
PairsEnded == \A i \in 1..Len(pairs) : Stop(pairs[i]) \in Instants

LEMMA PairsEndedInit == PairingInit => PairsEnded
  BY DEF PairingInit, PairsEnded

LEMMA PairsEndedStep == PairingInv /\ PairsEnded /\ [PairingNext]_pairingVars => PairsEnded'
<1> SUFFICES ASSUME PairingInv, PairsEnded, [PairingNext]_pairingVars
             PROVE  \A i \in 1..Len(pairs') : Stop(pairs'[i]) \in Instants
  BY DEF PairsEnded, Stop, Instants
<1>1. ASSUME pairs' = pairs
      PROVE  \A i \in 1..Len(pairs') : Stop(pairs'[i]) \in Instants
  BY <1>1 DEF PairsEnded
<1>2. CASE Pair
  <2>1. PairingTyped /\ RecordInv /\ PairInv
    BY DEF PairingInv
  <2>2. CASE Pushed
    BY <1>1, <2>2 DEF Pushed
  <2>3. CASE Popped
    <3> DEFINE s == Close(pending[Entry.key], Entry.key, Entry.time)
    <3>1. pairs' = Append(pairs, s) /\ Stop(s) = Entry.time
      BY <1>2, <2>1, <2>3, PopIs
    <3>2. pairs \in Seq(Section) /\ Entry.time \in Instants
      BY <1>2, <2>1, PairIs DEF PairingTyped
    <3> HIDE DEF s
    <3>3. ASSUME NEW i \in 1..Len(pairs')
          PROVE  Stop(pairs'[i]) \in Instants
      <4>1. (i \in 1..Len(pairs) /\ pairs'[i] = pairs[i]) \/ pairs'[i] = s
        BY <3>1, <3>2
      <4> QED
        BY <3>1, <3>2, <4>1 DEF PairsEnded
    <3> QED
      BY <3>3
  <2>4. Pushed \/ Popped
    BY <1>2, <2>1, NeverRefused
  <2> QED
    BY <2>2, <2>3, <2>4
<1>3. CASE ~Pair
  <2>1. pairs' = pairs
    BY <1>3 DEF PairingNext, Tick, SortEndpoints, FinishPairing, Begin, End, pairingVars
  <2> QED
    BY <1>1, <2>1
<1> QED
  BY <1>2, <1>3

LEMMA SectionsClosed ==
  ASSUME PairingInv, PairsEnded
  PROVE  pairs \in Seq(ClosedSection) /\ truth \in Seq(ClosedSection)
<1>1. /\ pairs \in Seq(Section) /\ truth \in Seq(Section) /\ now \in Instants
      /\ \A i \in 1..Len(truth) : Stop(truth[i]) <= now
  BY DEF PairingInv, PairingTyped, RecordInv, Recorded
<1>2. \A i \in 1..Len(pairs) : pairs[i] \in ClosedSection
  BY <1>1 DEF PairsEnded, ClosedSection
<1>3. ASSUME NEW i \in 1..Len(truth)
      PROVE  truth[i] \in ClosedSection
  <2>1. truth[i] \in Section /\ Stop(truth[i]) <= now
    BY <1>1
  <2>2. Stop(truth[i]) \in Nat
    BY <2>1, SectionIs
  <2>3. Stop(truth[i]) \in Instants
    BY <1>1, <2>1, <2>2, BoundsAssumption DEF Instants, BoundsAssumption
  <2> QED
    BY <2>1, <2>3 DEF ClosedSection
<1> QED
  BY <1>1, <1>2, <1>3

\* At each instant as many pairs of a key start, and as many stop, as sections.
LEMMA SameMoments ==
  ASSUME PairingInv, pc = "done", NEW k \in Keys, NEW t \in Instants
  PROVE  /\ Total(pairs, StartsAt(k, t)) = Total(truth, StartsAt(k, t))
         /\ Total(pairs, StopsAt(k, t)) = Total(truth, StopsAt(k, t))
<1>1. /\ PairingTyped /\ EndpointsAgree /\ HandledAgree /\ paired = Len(trace)
      /\ open[k] = <<>> /\ pending[k] = <<>>
  BY DEF PairingInv, RecordInv, PairInv, Concluded, NothingOpen
<1>2. Total(open[k], {t}) = 0 /\ Total(pending[k], {t}) = 0
  BY <1>1, TotalNothing
<1>3. /\ Total(trace, Begins(k) \cap At(t)) = Total(truth, StartsAt(k, t)) + Total(open[k], {t})
      /\ Total(trace, Ends(k) \cap At(t)) = Total(truth, StopsAt(k, t))
  BY <1>1 DEF EndpointsAgree, EndpointsOf
<1>4. /\ Count(trace, paired, Begins(k) \cap At(t)) =
           Total(pairs, StartsAt(k, t)) + Total(pending[k], {t})
      /\ Count(trace, paired, Ends(k) \cap At(t)) = Total(pairs, StopsAt(k, t))
  BY <1>1 DEF HandledAgree, HandledOf
<1>5. /\ Total(pairs, StartsAt(k, t)) \in Nat /\ Total(truth, StartsAt(k, t)) \in Nat
  <2>1. Len(pairs) \in Nat /\ Len(truth) \in Nat
    BY <1>1 DEF PairingTyped
  <2> QED
    BY <2>1, CountIs DEF Total
<1>6. \A S : Count(trace, paired, S) = Total(trace, S)
  BY <1>1 DEF Total
<1> QED
  BY <1>2, <1>3, <1>4, <1>5, <1>6

\* The key of a section with the instant at which it starts, and at which it stops.
StartOf == [x \in ClosedSection |-> <<x.key, x.start>>]
StopOf == [x \in ClosedSection |-> <<x.key, Stop(x)>>]

LEMMA ClassesAre ==
  /\ IsClass(StartOf) /\ IsClass(StopOf)
  /\ \A x \in ClosedSection : /\ StartOf[x][1] = x.key /\ StartOf[x][2] = x.start
                              /\ StopOf[x][1] = x.key /\ StopOf[x][2] = Stop(x)
                              /\ x \in Section
<1>1. \A x \in ClosedSection : x \in Section /\ x.key \in Keys /\ x.start \in Instants /\ Stop(x) \in Instants
  BY SectionIs DEF ClosedSection
<1> QED
  BY <1>1 DEF StartOf, StopOf, IsClass, Classes

LEMMA ClassCounts ==
  ASSUME NEW s \in Seq(ClosedSection), NEW k, NEW t
  PROVE  /\ Count(s, Len(s), OfClass(ClosedSection, StartOf, <<k, t>>)) = Total(s, StartsAt(k, t))
         /\ Count(s, Len(s), OfClass(ClosedSection, StopOf, <<k, t>>)) = Total(s, StopsAt(k, t))
<1> DEFINE A == OfClass(ClosedSection, StartOf, <<k, t>>)
           B == OfClass(ClosedSection, StopOf, <<k, t>>)
<1>1. \A x \in ClosedSection : /\ x \in A <=> x \in StartsAt(k, t)
                               /\ x \in B <=> x \in StopsAt(k, t)
  <2>1. \A x \in ClosedSection : StartOf[x] = <<x.key, x.start>> /\ StopOf[x] = <<x.key, Stop(x)>>
    BY DEF StartOf, StopOf
  <2>2. \A x \in ClosedSection : x \in Section
    BY DEF ClosedSection
  <2> QED
    BY <2>1, <2>2 DEF OfClass, StartsAt, StopsAt
<1>2. Len(s) \in Nat /\ \A i \in 1..Len(s) : s[i] \in ClosedSection
  OBVIOUS
<1> DEFINE n == Len(s)
           C == StartsAt(k, t)
           D == StopsAt(k, t)
<1>3. /\ \A i \in 1..n : s[i] \in A <=> s[i] \in C
      /\ \A i \in 1..n : s[i] \in B <=> s[i] \in D
  BY <1>1, <1>2
<1> HIDE DEF A, B, C, D, n
<1>4. Count(s, n, A) = Count(s, n, C) /\ Count(s, n, B) = Count(s, n, D)
  BY <1>3, CountAgrees
<1> QED
  BY <1>4 DEF A, B, C, D, n, Total

LEMMA SameClassesFound ==
  ASSUME PairingInv, PairsEnded, pc = "done"
  PROVE  /\ SameClasses(pairs, Len(pairs), truth, Len(truth), ClosedSection, StartOf, Classes)
         /\ SameClasses(pairs, Len(pairs), truth, Len(truth), ClosedSection, StopOf, Classes)
<1>1. ASSUME NEW c \in Classes
      PROVE  /\ Count(pairs, Len(pairs), OfClass(ClosedSection, StartOf, c)) =
                  Count(truth, Len(truth), OfClass(ClosedSection, StartOf, c))
             /\ Count(pairs, Len(pairs), OfClass(ClosedSection, StopOf, c)) =
                  Count(truth, Len(truth), OfClass(ClosedSection, StopOf, c))
  <2>1. PICK k \in Keys, t \in Instants : c = <<k, t>>
    BY DEF Classes
  <2> QED
    BY <2>1, SectionsClosed, SameMoments, ClassCounts
<1> QED
  BY <1>1 DEF SameClasses

\* What starts a section and what it lasts make what ends it.
LEMMA MomentsOf ==
  ASSUME NEW s \in Seq(ClosedSection), NEW m
  PROVE  /\ Moments(s, StartOf, m) \in [1..Len(s) -> Nat]
         /\ Moments(s, StopOf, m) \in [1..Len(s) -> Nat]
         /\ Together(Moments(s, StartOf, m), SectionTimes(s, m), Moments(s, StopOf, m), Len(s))
<1>1. ASSUME NEW i \in 1..Len(s)
      PROVE  /\ StartOf[s[i]][2] = s[i].start /\ StopOf[s[i]][2] = s[i].start + s[i].duration
             /\ s[i].start \in Nat /\ s[i].duration \in Nat
  <2>1. s[i] \in ClosedSection
    OBVIOUS
  <2>2. s[i] \in Section /\ StartOf[s[i]][2] = s[i].start /\ StopOf[s[i]][2] = Stop(s[i])
    BY <2>1, ClassesAre
  <2> QED
    BY <2>2, SectionIs DEF Stop
<1>2. \A i \in 1..Len(s) :
        /\ Moments(s, StartOf, m)[i] = IF Marker(s[i].key) = m THEN StartOf[s[i]][2] ELSE 0
        /\ Moments(s, StopOf, m)[i] = IF Marker(s[i].key) = m THEN StopOf[s[i]][2] ELSE 0
        /\ SectionTimes(s, m)[i] = IF Marker(s[i].key) = m THEN s[i].duration ELSE 0
  BY DEF Moments, SectionTimes
<1>3. \A i \in 1..Len(s) :
        /\ Moments(s, StartOf, m)[i] \in Nat /\ Moments(s, StopOf, m)[i] \in Nat
        /\ SectionTimes(s, m)[i] \in Nat
        /\ Moments(s, StopOf, m)[i] = Moments(s, StartOf, m)[i] + SectionTimes(s, m)[i]
  <2> SUFFICES ASSUME NEW i \in 1..Len(s)
               PROVE  /\ Moments(s, StartOf, m)[i] \in Nat /\ Moments(s, StopOf, m)[i] \in Nat
                      /\ SectionTimes(s, m)[i] \in Nat
                      /\ Moments(s, StopOf, m)[i] =
                           Moments(s, StartOf, m)[i] + SectionTimes(s, m)[i]
    OBVIOUS
  <2>1. CASE Marker(s[i].key) = m
    BY <1>1, <1>2, <2>1
  <2>2. CASE Marker(s[i].key) # m
    BY <1>2, <2>2
  <2> QED
    BY <2>1, <2>2
<1>4. /\ Moments(s, StartOf, m) = [i \in 1..Len(s) |-> Moments(s, StartOf, m)[i]]
      /\ Moments(s, StopOf, m) = [i \in 1..Len(s) |-> Moments(s, StopOf, m)[i]]
      /\ SectionTimes(s, m) = [i \in 1..Len(s) |-> SectionTimes(s, m)[i]]
  BY DEF Moments, SectionTimes
<1> QED
  BY <1>3, <1>4 DEF Together

LEMMA SameTimes ==
  ASSUME PairingInv, PairsEnded, pc = "done", NEW m,
         NEW g, AddsUp(g, SectionTimes(pairs, m), Len(pairs)),
         NEW h, AddsUp(h, SectionTimes(truth, m), Len(truth))
  PROVE  g[Len(pairs)] = h[Len(truth)]
<1> DEFINE p == Len(pairs)
           q == Len(truth)
<1>1. /\ pairs \in Seq(ClosedSection) /\ truth \in Seq(ClosedSection) /\ p \in Nat /\ q \in Nat
  BY SectionsClosed
<1>2. \E f1 : AddsUp(f1, Moments(pairs, StartOf, m), p)
  BY <1>1, MomentsOf, SumExists
<1>3. \E f2 : AddsUp(f2, Moments(pairs, StopOf, m), p)
  BY <1>1, MomentsOf, SumExists
<1>4. \E e1 : AddsUp(e1, Moments(truth, StartOf, m), q)
  BY <1>1, MomentsOf, SumExists
<1>5. \E e2 : AddsUp(e2, Moments(truth, StopOf, m), q)
  BY <1>1, MomentsOf, SumExists
<1>6. PICK f1, f2, e1, e2 :
        /\ AddsUp(f1, Moments(pairs, StartOf, m), p) /\ AddsUp(f2, Moments(pairs, StopOf, m), p)
        /\ AddsUp(e1, Moments(truth, StartOf, m), q) /\ AddsUp(e2, Moments(truth, StopOf, m), q)
  BY <1>2, <1>3, <1>4, <1>5
<1>7. f1[p] \in Nat /\ g[p] \in Nat /\ f2[p] = f1[p] + g[p]
  <2> DEFINE a == Moments(pairs, StartOf, m)
             b == SectionTimes(pairs, m)
             c == Moments(pairs, StopOf, m)
  <2>1. Together(a, b, c, p)
    BY <1>1, MomentsOf
  <2>2. AddsUp(f1, a, p) /\ AddsUp(g, b, p) /\ AddsUp(f2, c, p)
    BY <1>6
  <2> HIDE DEF a, b, c, p
  <2> QED
    BY <1>1, <2>1, <2>2, SumOfSums
<1>8. e1[q] \in Nat /\ h[q] \in Nat /\ e2[q] = e1[q] + h[q]
  <2> DEFINE a == Moments(truth, StartOf, m)
             b == SectionTimes(truth, m)
             c == Moments(truth, StopOf, m)
  <2>1. Together(a, b, c, q)
    BY <1>1, MomentsOf
  <2>2. AddsUp(e1, a, q) /\ AddsUp(h, b, q) /\ AddsUp(e2, c, q)
    BY <1>6
  <2> HIDE DEF a, b, c, q
  <2> QED
    BY <1>1, <2>1, <2>2, SumOfSums
<1>9. f1[p] = e1[q]
  <2>1. /\ IsClass(StartOf)
        /\ SameClasses(pairs, p, truth, q, ClosedSection, StartOf, Classes)
    BY ClassesAre, SameClassesFound
  <2>2. MomentsOver(f1, pairs, StartOf, m) /\ MomentsOver(e1, truth, StartOf, m)
    BY <1>1, <1>6 DEF MomentsOver
  <2> QED
    BY <2>1, <2>2, MomentsAddUp
<1>10. f2[p] = e2[q]
  <2>1. /\ IsClass(StopOf)
        /\ SameClasses(pairs, p, truth, q, ClosedSection, StopOf, Classes)
    BY ClassesAre, SameClassesFound
  <2>2. MomentsOver(f2, pairs, StopOf, m) /\ MomentsOver(e2, truth, StopOf, m)
    BY <1>1, <1>6 DEF MomentsOver
  <2> QED
    BY <2>1, <2>2, MomentsAddUp
<1> HIDE DEF p, q
<1>11. g[p] = h[q]
  BY <1>7, <1>8, <1>9, <1>10
<1> QED
  BY <1>11 DEF p, q

\* And a marker of a section is a marker of a pair.
LEMMA MarkerFound ==
  ASSUME PairingInv, PairsEnded, pc = "done", NEW j \in 1..Len(truth)
  PROVE  \E i \in 1..Len(pairs) : pairs[i].key = truth[j].key
<1> DEFINE k == truth[j].key
           t == truth[j].start
           S == StartsAt(k, t)
<1>1. truth[j] \in Section /\ Len(pairs) \in Nat /\ Len(truth) \in Nat
  BY DEF PairingInv, PairingTyped
<1>2. k \in Keys /\ t \in Instants /\ truth[j] \in S
  BY <1>1, SectionIs DEF StartsAt
<1>3. Total(pairs, S) = Total(truth, S)
  BY <1>2, SameMoments
<1>4. \A x \in S : x.key = k
  BY DEF StartsAt
<1> HIDE DEF S
<1>5. Count(truth, Len(truth), S) # 0
  BY <1>1, <1>2, CountedIsThere
<1>6. Count(pairs, Len(pairs), S) # 0
  BY <1>3, <1>5 DEF Total
<1>7. \E i \in 1..Len(pairs) : pairs[i] \in S
  BY <1>1, <1>6, CountedIsThere
<1> QED
  BY <1>4, <1>7
-----------------------------------------------------------------------------
(* The measures: the events, and then the pairs. *)

LEMMA MeasuresAre ==
  ASSUME events \in Seq(Event), pairs \in Seq(Section)
  PROVE  /\ Measured(Measures) /\ Len(Measures) = Len(events) + Len(pairs)
         /\ \A i \in 1..Len(events) :
              Measures[i].marker = events[i].name /\ Measures[i].duration = Duration(events[i])
         /\ \A i \in 1..Len(pairs) :
              /\ Measures[Len(events) + i].marker = Marker(pairs[i].key)
              /\ Measures[Len(events) + i].duration = pairs[i].duration
<1> DEFINE n == Len(events)
           p == Len(pairs)
           A == [i \in 1..n |-> [marker |-> events[i].name, duration |-> Duration(events[i])]]
           B == [i \in 1..p |-> [marker |-> Marker(pairs[i].key), duration |-> pairs[i].duration]]
           X == {A[i] : i \in 1..n} \cup {B[i] : i \in 1..p}
<1>1. /\ n \in Nat /\ p \in Nat
      /\ \A i \in 1..n : events[i] \in Event
      /\ \A i \in 1..p : pairs[i] \in Section
  OBVIOUS
<1>2. \A i \in 1..n : A[i].marker = events[i].name /\ A[i].duration = Duration(events[i])
  OBVIOUS
<1>3. \A i \in 1..p : B[i].marker = Marker(pairs[i].key) /\ B[i].duration = pairs[i].duration
  OBVIOUS
<1>4. /\ \A e \in Event : Duration(e) \in Nat
      /\ \A s \in Section : s.duration \in Nat
  BY DEF Event, Duration, Section
<1>5. A \in [1..n -> X] /\ B \in [1..p -> X]
  OBVIOUS
<1>6. Measures = A \o B
  BY DEF Measures
<1> HIDE DEF A, B, X, n, p
<1>7. A \in Seq(X) /\ B \in Seq(X) /\ Len(A) = n /\ Len(B) = p
  BY <1>1, <1>5
<1>8. /\ A \o B \in Seq(X) /\ Len(A \o B) = n + p
      /\ \A i \in 1..n : (A \o B)[i] = A[i]
      /\ \A i \in 1..p : (A \o B)[n + i] = B[i]
  <2>1. /\ A \o B \in Seq(X) /\ Len(A \o B) = Len(A) + Len(B)
        /\ \A i \in 1..Len(A) + Len(B) :
             (A \o B)[i] = IF i <= Len(A) THEN A[i] ELSE B[i - Len(A)]
    BY <1>7, ConcatProperties
  <2>2. \A i \in 1..n : i \in 1..n + p /\ i <= n
    BY <1>1
  <2>3. \A i \in 1..p : n + i \in 1..n + p /\ ~(n + i <= n) /\ n + i - n = i
    BY <1>1
  <2> DEFINE C == A \o B
  <2>4. /\ C \in Seq(X) /\ Len(C) = n + p
        /\ \A i \in 1..n + p : C[i] = IF i <= n THEN A[i] ELSE B[i - n]
    BY <1>7, <2>1
  <2> HIDE DEF C
  <2>5. \A i \in 1..n : C[i] = A[i]
    BY <2>2, <2>4
  <2>6. \A i \in 1..p : C[n + i] = B[i]
    <3> SUFFICES ASSUME NEW i \in 1..p
                 PROVE  C[n + i] = B[i]
      OBVIOUS
    <3> DEFINE j == n + i
    <3>1. j \in 1..n + p /\ ~(j <= n) /\ j - n = i
      BY <1>1
    <3> HIDE DEF j
    <3>2. C[j] = B[i]
      BY <2>4, <3>1
    <3> QED
      BY <3>2 DEF j
  <2> QED
    BY <2>4, <2>5, <2>6 DEF C
<1>11. /\ \A i \in 1..n : Measures[i] = A[i]
       /\ \A i \in 1..p : Measures[n + i] = B[i]
  BY <1>6, <1>8
<1>9. ASSUME NEW i \in 1..n + p
      PROVE  Measures[i].duration \in Nat
  <2>1. CASE i \in 1..n
    BY <1>1, <1>2, <1>4, <1>11, <2>1
  <2>2. CASE ~(i \in 1..n)
    <3> DEFINE j == i - n
    <3>1. j \in 1..p /\ n + j = i
      BY <1>1, <2>2
    <3> HIDE DEF j
    <3>2. Measures[i] = B[j] /\ pairs[j] \in Section
      BY <1>1, <1>11, <3>1
    <3> QED
      BY <1>3, <1>4, <3>1, <3>2
  <2> QED
    BY <2>1, <2>2
<1>10. Measured(Measures) /\ Len(Measures) = n + p
  BY <1>1, <1>6, <1>8, <1>9 DEF Measured
<1> QED
  BY <1>2, <1>3, <1>10, <1>11 DEF n, p

\* The values of c are those of a and then those of b.
Followed(a, n, b, p, c) ==
  /\ n \in Nat /\ p \in Nat
  /\ \A i \in 1..n : c[i] = a[i]
  /\ \A i \in 1..p : c[n + i] = b[i] /\ b[i] \in Nat

LEMMA SumOfFollowed ==
  ASSUME NEW n, NEW p, NEW a, NEW b, NEW c, Followed(a, n, b, p, c),
         NEW f, NEW g, NEW h, AddsUp(f, a, n), AddsUp(g, b, p), AddsUp(h, c, n + p)
  PROVE  h[n + p] = f[n] + g[p]
<1>1. /\ n \in Nat /\ p \in Nat
      /\ \A i \in 1..n : c[i] = a[i]
      /\ \A i \in 1..p : c[n + i] = b[i] /\ b[i] \in Nat
  BY DEF Followed
<1>2. /\ f \in [0..n -> Nat] /\ f[0] = 0 /\ \A i \in 1..n : f[i] = f[i - 1] + a[i]
      /\ g \in [0..p -> Nat] /\ g[0] = 0 /\ \A i \in 1..p : g[i] = g[i - 1] + b[i]
      /\ h \in [0..n + p -> Nat] /\ h[0] = 0 /\ \A i \in 1..n + p : h[i] = h[i - 1] + c[i]
  BY DEF AddsUp
<1> DEFINE P == {i \in 0..n : h[i] = f[i]}
           Q == {i \in 0..p : h[n + i] = f[n] + g[i]}
<1>3. h[n] = f[n]
  <2>1. 0 \in P
    BY <1>1, <1>2
  <2>2. ASSUME NEW i \in 1..n, i - 1 \in P
        PROVE  i \in P
    <3>1. i \in 1..n + p
      BY <1>1
    <3> QED
      BY <1>1, <1>2, <2>2, <3>1
  <2> HIDE DEF P
  <2>3. \A i \in 1..n : i - 1 \in P => i \in P
    BY <2>2
  <2>4. \A i \in 0..n : i \in P
    BY <1>1, <2>1, <2>3, HandedOn
  <2> QED
    BY <1>1, <2>4 DEF P
<1>4. f[n] \in Nat /\ \A i \in 0..p : g[i] \in Nat
  BY <1>1, <1>2
<1>5. 0 \in Q
  BY <1>1, <1>2, <1>3, <1>4
<1>6. ASSUME NEW i \in 1..p, i - 1 \in Q
      PROVE  i \in Q
  <2>1. /\ n + i \in 1..n + p /\ n + i - 1 = n + (i - 1) /\ i \in 0..p /\ i - 1 \in 0..p
    BY <1>1
  <2>2. h[n + i] = h[n + (i - 1)] + c[n + i] /\ c[n + i] = b[i]
    BY <1>1, <1>2, <2>1
  <2>3. h[n + (i - 1)] = f[n] + g[i - 1] /\ g[i] = g[i - 1] + b[i]
    BY <1>2, <1>6
  <2> DEFINE u == f[n]
             v == g[i - 1]
             w == b[i]
  <2>4. u \in Nat /\ v \in Nat /\ g[i] \in Nat /\ g[i] = v + w /\ h[n + i] = (u + v) + w
    BY <1>4, <2>1, <2>2, <2>3
  <2>5. w \in Nat
    BY <1>1
  <2> HIDE DEF u, v, w
  <2>6. h[n + i] = u + g[i]
    BY <2>4, <2>5
  <2> QED
    BY <2>1, <2>6 DEF u
<1> HIDE DEF Q
<1>7. \A i \in 1..p : i - 1 \in Q => i \in Q
  BY <1>6
<1>8. \A i \in 0..p : i \in Q
  BY <1>1, <1>5, <1>7, HandedOn
<1> QED
  BY <1>1, <1>8 DEF Q
-----------------------------------------------------------------------------
(* The markers of a summary. *)

\* The table has the time of every marker in it, and, unless a marker found no place, every
\* marker that was used.
LEMMA TableRight ==
  ASSUME PairingInv, PairsEnded, pc = "done", events \in Seq(Event),
         NEW t, TableOf(t, Measures, Len(Measures)), NEW m \in Markers
  PROVE  /\ m \in DOMAIN t.of => t.of[m].total = Spent(m)
         /\ Uses(m) /\ m \notin DOMAIN t.of => t.cut
<1> DEFINE n == Len(events)
           p == Len(pairs)
           q == Len(truth)
<1>1. /\ pairs \in Seq(Section) /\ truth \in Seq(Section) /\ n \in Nat /\ p \in Nat /\ q \in Nat
      /\ pairs \in Seq(ClosedSection)
  BY SectionsClosed DEF PairingInv, PairingTyped
<1>2. /\ Measured(Measures) /\ Len(Measures) = n + p
      /\ \A i \in 1..n :
           Measures[i].marker = events[i].name /\ Measures[i].duration = Duration(events[i])
      /\ \A i \in 1..p : /\ Measures[n + i].marker = Marker(pairs[i].key)
                         /\ Measures[n + i].duration = pairs[i].duration
  BY <1>1, MeasuresAre
<1>3. PICK g, h : /\ AddsUp(g, SectionTimes(truth, m), q) /\ AddsUp(h, EventTimes(m), n)
                  /\ Spent(m) = g[q] + h[n]
  BY <1>1, SpentIs
<1>4. SectionTimes(pairs, m) \in [1..p -> Nat]
  BY <1>1, MomentsOf DEF Together
<1>5. PICK f : AddsUp(f, SectionTimes(pairs, m), p)
  BY <1>1, <1>4, SumExists
<1>6. f[p] = g[q]
  BY <1>3, <1>5, SameTimes
<1>7. MeasureTimes(Measures, m) \in [1..n + p -> Nat]
  <2>1. \A i \in 1..n + p : Measures[i].duration \in Nat
    BY <1>2 DEF Measured
  <2> QED
    BY <1>2, <2>1 DEF MeasureTimes
<1>8. PICK e : AddsUp(e, MeasureTimes(Measures, m), n + p)
  BY <1>1, <1>7, SumExists
<1>9. Followed(EventTimes(m), n, SectionTimes(pairs, m), p, MeasureTimes(Measures, m))
  <2>1. \A i \in 1..n : MeasureTimes(Measures, m)[i] = EventTimes(m)[i]
    <3>1. \A i \in 1..n : i \in 1..n + p
      BY <1>1
    <3> QED
      BY <1>2, <3>1 DEF MeasureTimes, EventTimes
  <2>2. \A i \in 1..p : MeasureTimes(Measures, m)[n + i] = SectionTimes(pairs, m)[i]
    <3> SUFFICES ASSUME NEW i \in 1..p
                 PROVE  MeasureTimes(Measures, m)[n + i] = SectionTimes(pairs, m)[i]
      OBVIOUS
    <3> DEFINE j == n + i
    <3>1. j \in 1..Len(Measures)
      BY <1>1, <1>2
    <3>2. Measures[j].marker = Marker(pairs[i].key) /\ Measures[j].duration = pairs[i].duration
      BY <1>2
    <3> HIDE DEF j
    <3>3. MeasureTimes(Measures, m)[j] = SectionTimes(pairs, m)[i]
      BY <3>1, <3>2 DEF MeasureTimes, SectionTimes
    <3> QED
      BY <3>3 DEF j
  <2> QED
    BY <1>1, <1>4, <2>1, <2>2 DEF Followed
<1> HIDE DEF n, p, q
<1>10. e[n + p] = h[n] + f[p]
  BY <1>3, <1>5, <1>8, <1>9, SumOfFollowed
<1>11. h[n] \in Nat /\ g[q] \in Nat
  BY <1>1, <1>3 DEF AddsUp
<1>12. e[n + p] = Spent(m)
  BY <1>3, <1>6, <1>10, <1>11
<1>13. /\ m \in DOMAIN t.of => t.of[m].total = e[n + p]
       /\ m \notin DOMAIN t.of => (\A j \in 1..n + p : Measures[j].marker # m) \/ t.cut
  BY <1>2, <1>8 DEF TableOf
<1>14. ASSUME Uses(m)
       PROVE  \E j \in 1..n + p : Measures[j].marker = m
  <2>1. CASE \E s \in ToSet(truth) : Marker(s.key) = m
    <3>1. PICK i \in 1..q : Marker(truth[i].key) = m
      BY <1>1, <2>1 DEF ToSet, q
    <3>2. PICK l \in 1..p : pairs[l].key = truth[i].key
      BY <3>1, MarkerFound DEF p, q
    <3>3. n + l \in 1..n + p
      BY <1>1
    <3> QED
      BY <1>2, <3>1, <3>2, <3>3
  <2>2. CASE \E x \in ToSet(events) : x.name = m
    <3>1. PICK i \in 1..n : events[i].name = m
      BY <2>2 DEF ToSet, n
    <3>2. i \in 1..n + p
      BY <1>1
    <3> QED
      BY <1>2, <3>1, <3>2
  <2> QED
    BY <1>14, <2>1, <2>2 DEF Uses
<1> QED
  BY <1>12, <1>13, <1>14

\* What the table of markers says while the events are framed.
MarkersRight ==
  /\ markers \in [DOMAIN markers -> Aggregate] /\ DOMAIN markers \subseteq Markers
  /\ IsFiniteSet(DOMAIN markers) /\ markersTruncated \in BOOLEAN
  /\ \A m \in DOMAIN markers : markers[m].total = Spent(m)
  /\ ~markersTruncated => \A m \in Markers : Uses(m) => m \in DOMAIN markers

MarkersInv ==
  /\ phase = "pair" => markers = [m \in {} |-> NoAggregate]
  /\ phase = "frame" => MarkersRight
  /\ MarkersAccountForSections

\* The time spent depends on the sections and the events only.
SpentIn(m, t, e) ==
  FoldLeft(LAMBDA sum, s : IF Marker(s.key) = m THEN sum + s.duration ELSE sum, 0, t)
  + FoldLeft(LAMBDA sum, x : IF x.name = m THEN sum + Duration(x) ELSE sum, 0, e)

LEMMA SpentUnchanged ==
  ASSUME truth' = truth, events' = events, NEW m
  PROVE  Spent(m)' = Spent(m) /\ (Uses(m)' <=> Uses(m))
<1>1. Spent(m) = SpentIn(m, truth, events)
  BY DEF Spent, SpentIn
<1>2. Spent(m)' = SpentIn(m, truth', events')
  BY Zenon DEF Spent, SpentIn, FoldLeft, MapThenFoldSet
<1>3. Spent(m)' = Spent(m)
  BY <1>1, <1>2
<1>4. Uses(m)' <=> Uses(m)
  BY DEF Uses, ToSet
<1> QED
  BY <1>3, <1>4

LEMMA CountRight ==
  ASSUME PairingInv, PairsEnded, FramingInv, MarkersInv, CountMarkers
  PROVE  MarkersRight' /\ phase' = "frame"
<1> DEFINE base == [of |-> [m \in {} |-> NoAggregate], cut |-> FALSE]
           t == FoldLeft(CountMarker, base, Measures)
<1>1. /\ phase = "pair" /\ pc = "done" /\ phase' = "frame"
      /\ markers' = t.of /\ markersTruncated' = t.cut
      /\ UNCHANGED <<vars, pairingVars, reportedMarkers>>
  BY DEF CountMarkers, MarkersInv
<1>2. events' = events /\ truth' = truth
  BY <1>1 DEF vars, pairingVars, application
<1>3. events \in Seq(Event) /\ pairs \in Seq(Section)
  BY DEF FramingInv, Handled, PairingInv, PairingTyped
<1>4. TableOf(t, Measures, Len(Measures))
  <2>1. Measured(Measures)
    BY <1>3, MeasuresAre
  <2>2. PICK b : b = base
    OBVIOUS
  <2>3. TableOf(FoldLeft(CountMarker, b, Measures), Measures, Len(Measures))
    BY <2>1, <2>2, TableIsOf
  <2> QED
    BY <2>2, <2>3
<1> HIDE DEF t
<1>5. \A m \in Markers : /\ m \in DOMAIN t.of => t.of[m].total = Spent(m)
                         /\ Uses(m) /\ m \notin DOMAIN t.of => t.cut
  BY <1>1, <1>3, <1>4, TableRight
<1>6. t \in Table /\ IsFiniteSet(DOMAIN t.of)
  BY <1>4 DEF TableOf
<1>7. t.of \in [DOMAIN t.of -> Aggregate] /\ DOMAIN t.of \subseteq Markers /\ t.cut \in BOOLEAN
  BY <1>6, TableIs
<1>8. \A m : Spent(m)' = Spent(m) /\ (Uses(m)' <=> Uses(m))
  BY <1>2, SpentUnchanged
<1> SUFFICES /\ markers' \in [DOMAIN markers' -> Aggregate] /\ DOMAIN markers' \subseteq Markers
             /\ IsFiniteSet(DOMAIN markers') /\ markersTruncated' \in BOOLEAN
             /\ \A m \in DOMAIN markers' : markers'[m].total = Spent(m)'
             /\ ~markersTruncated' => \A m \in Markers : Uses(m)' => m \in DOMAIN markers'
  BY <1>1 DEF MarkersRight, Markers, Marker, Aggregate
<1> QED
  BY <1>1, <1>5, <1>6, <1>7, <1>8

LEMMA ReportRight ==
  ASSUME MarkersInv, ReportMarkers
  PROVE  MarkersAccountForSections'
<1> DEFINE D == DOMAIN markers
           Above(m) == {n \in D : LargerMarker(n, m)}
<1>1. /\ phase = "frame" /\ phase' = "reported" /\ markers' = markers
      /\ reportedMarkers' = {m \in D : Cardinality(Above(m)) < MaxMarkers}
      /\ markersTruncated' = (markersTruncated \/ Cardinality(D) > MaxMarkers)
      /\ UNCHANGED <<vars, pairingVars>>
  BY DEF ReportMarkers
<1>2. events' = events /\ truth' = truth
  BY <1>1 DEF vars, pairingVars, application
<1>3. MarkersRight
  BY <1>1 DEF MarkersInv
<1>4. \A m \in D : markers[m].total \in Nat /\ m \in Nat /\ m \in Markers
  <2>1. \A k \in Keys : Marker(k) \in Nat
    BY KeysAssumption DEF KeysAssumption, Marker
  <2> QED
    BY <1>3, <2>1 DEF MarkersRight, Markers, Aggregate
<1>5. \A m : Spent(m)' = Spent(m) /\ (Uses(m)' <=> Uses(m))
  BY <1>2, SpentUnchanged
<1>6. IsFiniteSet(D) /\ Cardinality(D) \in Nat /\ MaxMarkers \in Nat
  BY <1>3, FS_CardinalityType, MarkersAssumption DEF MarkersRight, MarkersAssumption
<1>7. ASSUME NEW m \in D
      PROVE  Cardinality(Above(m)) \in Nat /\ Cardinality(Above(m)) < Cardinality(D)
  <2>1. Above(m) \subseteq D /\ m \notin Above(m)
    BY <1>4 DEF LargerMarker
  <2> DEFINE A == Above(m)
  <2> HIDE DEF A, D
  <2>2. A \subseteq D /\ A # D /\ IsFiniteSet(D)
    BY <1>6, <2>1 DEF A
  <2>5. IsFiniteSet(A) /\ Cardinality(A) <= Cardinality(D) /\ (Cardinality(A) = Cardinality(D) => A = D)
    BY <2>2, FS_Subset
  <2>4. Cardinality(A) \in Nat
    BY <2>5, FS_CardinalityType
  <2>3. Cardinality(A) < Cardinality(D)
    BY <1>6, <2>2, <2>4, <2>5
  <2> QED
    BY <2>3, <2>4 DEF A
<1>8. ASSUME NEW m \in D, NEW n \in D, Cardinality(Above(m)) < MaxMarkers,
             ~(Cardinality(Above(n)) < MaxMarkers)
      PROVE  markers[m].total >= markers[n].total
  <2> SUFFICES ASSUME markers[n].total > markers[m].total
               PROVE  FALSE
    BY <1>4
  <2>1. Above(n) \subseteq Above(m) /\ IsFiniteSet(Above(m))
    <3>1. \A x \in D : LargerMarker(x, n) => LargerMarker(x, m)
      BY <1>4 DEF LargerMarker
    <3>2. Above(m) \in SUBSET D
      OBVIOUS
    <3>3. IsFiniteSet(Above(m))
      BY <1>6, <3>2, FS_Subset
    <3> QED
      BY <3>1, <3>3
  <2> DEFINE A == Above(m)
             B == Above(n)
             a == Cardinality(A)
             b == Cardinality(B)
  <2>2. a \in Nat /\ b \in Nat /\ a < MaxMarkers /\ ~(b < MaxMarkers) /\ MaxMarkers \in Nat
    BY <1>6, <1>7, <1>8
  <2>3. B \subseteq A /\ IsFiniteSet(A)
    BY <2>1
  <2> HIDE DEF A, B
  <2>4. b <= a
    BY <2>3, FS_Subset
  <2> HIDE DEF a, b
  <2> QED
    BY <2>2, <2>4
<1> HIDE DEF D, Above
<1> SUFFICES /\ ~markersTruncated' => \A m \in Markers : Uses(m)' => m \in reportedMarkers'
             /\ \A m \in reportedMarkers' :
                  /\ markers'[m].total = Spent(m)'
                  /\ \A n \in DOMAIN markers' \ reportedMarkers' : Spent(m)' >= Spent(n)'
  BY DEF MarkersAccountForSections, Markers, Marker
<1>9. \A m \in D : markers[m].total = Spent(m)
  BY <1>3 DEF MarkersRight, D
<1>10. ASSUME ~markersTruncated', NEW m \in Markers, Uses(m)'
       PROVE  m \in reportedMarkers'
  <2>1. ~markersTruncated /\ ~(Cardinality(D) > MaxMarkers)
    BY <1>1, <1>10
  <2>2. m \in D
    BY <1>3, <1>5, <1>10, <2>1 DEF MarkersRight, D
  <2>3. Cardinality(Above(m)) < MaxMarkers
    BY <1>6, <1>7, <2>1, <2>2
  <2> QED
    BY <1>1, <2>2, <2>3
<1>11. ASSUME NEW m \in reportedMarkers'
       PROVE  /\ markers'[m].total = Spent(m)'
              /\ \A n \in DOMAIN markers' \ reportedMarkers' : Spent(m)' >= Spent(n)'
  <2>1. m \in D /\ Cardinality(Above(m)) < MaxMarkers
    BY <1>1, <1>11
  <2>2. markers'[m].total = Spent(m)'
    BY <1>1, <1>5, <1>9, <2>1
  <2>3. ASSUME NEW n \in DOMAIN markers' \ reportedMarkers'
        PROVE  Spent(m)' >= Spent(n)'
    <3>1. n \in D /\ ~(Cardinality(Above(n)) < MaxMarkers)
      BY <1>1, <2>3 DEF D
    <3>2. markers[m].total >= markers[n].total
      BY <1>8, <2>1, <3>1
    <3> QED
      BY <1>5, <1>9, <2>1, <3>1, <3>2
  <2> QED
    BY <2>2, <2>3
<1> QED
  BY <1>10, <1>11

SummaryInv == FramingInv /\ PairingInv /\ PairsEnded /\ MarkersInv

LEMMA SummaryInvInit == SummaryInit => SummaryInv
<1> SUFFICES ASSUME SummaryInit
             PROVE  SummaryInv
  OBVIOUS
<1>1. PairingInv /\ PairsEnded
  BY PairingInvInit, PairsEndedInit DEF SummaryInit
<1>2. MarkersInv
  BY DEF SummaryInit, MarkersInv, MarkersAccountForSections
<1> QED
  BY <1>1, <1>2, FramingInit DEF SummaryInv

LEMMA SummaryInvStep == SummaryInv /\ [SummaryNext]_summaryVars => SummaryInv'
<1> SUFFICES ASSUME FramingInv, PairingInv, PairsEnded, MarkersInv, [SummaryNext]_summaryVars
             PROVE  SummaryInv'
  BY DEF SummaryInv
<1>1. [PairingNext]_pairingVars
  BY DEF SummaryNext, PairBoundaries, CountMarkers, FrameEvents, ReportMarkers, summaryVars
<1>2. FramingInv' /\ PairingInv' /\ PairsEnded'
  BY <1>1, FramingStep, PairingInvStep, PairsEndedStep
<1>3. CASE PairBoundaries
  <2>1. phase = "pair" /\ phase' = "pair" /\ markers' = markers
    BY <1>3 DEF PairBoundaries, boundary
  <2> QED
    BY <1>2, <2>1 DEF SummaryInv, MarkersInv, MarkersAccountForSections
<1>4. CASE CountMarkers
  <2>1. MarkersRight' /\ phase' = "frame"
    BY <1>4, CountRight
  <2> QED
    BY <1>2, <2>1 DEF SummaryInv, MarkersInv, MarkersAccountForSections
<1>5. CASE FrameEvents
  <2>1. /\ phase = "frame" /\ phase' = "frame" /\ truth' = truth /\ events' = events
        /\ markers' = markers /\ markersTruncated' = markersTruncated
    BY <1>5 DEF FrameEvents, boundary, pairingVars, application, Next, HandleEvent, Finish
  <2>2. \A m : Spent(m)' = Spent(m) /\ (Uses(m)' <=> Uses(m))
    BY <2>1, SpentUnchanged
  <2>3. MarkersRight
    BY <2>1 DEF MarkersInv
  <2>4. MarkersRight'
    <3> SUFFICES /\ markers' \in [DOMAIN markers' -> Aggregate] /\ DOMAIN markers' \subseteq Markers
                 /\ IsFiniteSet(DOMAIN markers') /\ markersTruncated' \in BOOLEAN
                 /\ \A m \in DOMAIN markers' : markers'[m].total = Spent(m)'
                 /\ ~markersTruncated' => \A m \in Markers : Uses(m)' => m \in DOMAIN markers'
      BY DEF MarkersRight, Markers, Marker, Aggregate
    <3> QED
      BY <2>1, <2>2, <2>3 DEF MarkersRight
  <2> QED
    BY <1>2, <2>1, <2>4 DEF SummaryInv, MarkersInv, MarkersAccountForSections
<1>6. CASE ReportMarkers
  <2>1. phase' = "reported"
    BY <1>6 DEF ReportMarkers
  <2> QED
    BY <1>2, <1>6, <2>1, ReportRight DEF SummaryInv, MarkersInv
<1>7. CASE UNCHANGED summaryVars
  <2>1. /\ phase' = phase /\ truth' = truth /\ events' = events /\ markers' = markers
        /\ markersTruncated' = markersTruncated /\ reportedMarkers' = reportedMarkers
    BY <1>7 DEF summaryVars, boundary, pairingVars, application, vars
  <2>2. \A m : Spent(m)' = Spent(m) /\ (Uses(m)' <=> Uses(m))
    BY <2>1, SpentUnchanged
  <2>3. MarkersRight => MarkersRight'
    <3> SUFFICES ASSUME MarkersRight
                 PROVE  /\ markers' \in [DOMAIN markers' -> Aggregate] /\ DOMAIN markers' \subseteq Markers
                        /\ IsFiniteSet(DOMAIN markers') /\ markersTruncated' \in BOOLEAN
                        /\ \A m \in DOMAIN markers' : markers'[m].total = Spent(m)'
                        /\ ~markersTruncated' => \A m \in Markers : Uses(m)' => m \in DOMAIN markers'
      BY DEF MarkersRight, Markers, Marker, Aggregate
    <3> QED
      BY <2>1, <2>2 DEF MarkersRight
  <2>4. MarkersAccountForSections'
    <3> SUFFICES phase' = "reported" =>
                   /\ ~markersTruncated' => \A m \in Markers : Uses(m)' => m \in reportedMarkers'
                   /\ \A m \in reportedMarkers' :
                        /\ markers'[m].total = Spent(m)'
                        /\ \A n \in DOMAIN markers' \ reportedMarkers' : Spent(m)' >= Spent(n)'
      BY DEF MarkersAccountForSections, Markers, Marker
    <3> QED
      BY <2>1, <2>2 DEF MarkersInv, MarkersAccountForSections
  <2> QED
    BY <1>2, <2>1, <2>3, <2>4 DEF SummaryInv, MarkersInv
<1> QED
  BY <1>3, <1>4, <1>5, <1>6, <1>7 DEF SummaryNext

\* A summary that is not marked truncated reports every boundary marker that was used, with
\* the time spent in its sections and events, and what is cut is never larger than what is
\* reported: CountMarkers and ReportMarkers, for every nesting, touching and storage order.
THEOREM MarkersAccounted == SummarySpec => []MarkersAccountForSections
<1>1. SummaryInv => MarkersAccountForSections
  BY DEF SummaryInv, MarkersInv
<1> QED
  BY <1>1, SummaryInvInit, SummaryInvStep, PTL DEF SummarySpec
=============================================================================
