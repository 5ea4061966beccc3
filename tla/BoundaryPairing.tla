-------------------------- MODULE BoundaryPairing --------------------------
(***************************************************************************)
(* parse_main_thread_boundary_pairs (src/chromium_trace.rs): the begin and *)
(* end endpoints of nestable asynchronous boundary measures are sorted and *)
(* paired through one stack per marker name and async identity.            *)
(*                                                                         *)
(* The module also records what the application did: it opens and closes   *)
(* sections under the keys, last opened first closed, while a clock of     *)
(* whole microseconds advances; the trace is what Chromium stored.         *)
(***************************************************************************)
EXTENDS Integers, Sequences, SequencesExt

CONSTANTS
  Keys,          \* (name, identity) of a measure, numbered in their sort order
  MaxEndpoints,  \* bounds the endpoints of a trace
  MaxInstant        \* bounds the clock

ASSUME KeysAssumption == Keys \subseteq Nat
ASSUME BoundsAssumption == MaxEndpoints \in Nat /\ MaxInstant \in Nat

VARIABLES
  pc,       \* "record", "pair", "done" or "error"
  now,      \* the application's clock
  open,     \* for each key, the starts of its open sections, the last opened last
  truth,    \* the sections the application closed
  trace,    \* the endpoints: in the order they happened, and then sorted
  paired,   \* how many sorted endpoints the loop has handled
  pending,  \* for each key, the begins that wait for an end
  pairs     \* the measures found

application == <<now, open, truth>>
pairingVars == <<pc, application, trace, paired, pending, pairs>>

Endpoint == [time : 0..MaxInstant, end : BOOLEAN, key : Keys]
Section == [key : Keys, start : 0..MaxInstant, duration : Nat]

NothingOpen == [k \in Keys |-> <<>>]

PairingInit ==
  /\ pc = "record" /\ now = 0
  /\ open = NothingOpen /\ truth = <<>> /\ trace = <<>>
  /\ paired = 0 /\ pending = NothingOpen /\ pairs = <<>>
-----------------------------------------------------------------------------
(* The application and Chromium. *)

Tick ==
  /\ pc = "record" /\ now < MaxInstant
  /\ now' = now + 1
  /\ UNCHANGED <<pc, open, truth, trace, paired, pending, pairs>>

Begin(k) ==
  /\ pc = "record" /\ Len(trace) < MaxEndpoints
  /\ open' = [open EXCEPT ![k] = Append(@, now)]
  /\ trace' = Append(trace, [time |-> now, end |-> FALSE, key |-> k])
  /\ UNCHANGED <<pc, now, truth, paired, pending, pairs>>

Close(stack, k, time) ==
  [key |-> k, start |-> Last(stack), duration |-> time - Last(stack)]

End(k) ==
  /\ pc = "record" /\ Len(trace) < MaxEndpoints
  /\ open[k] # <<>>
  /\ truth' = Append(truth, Close(open[k], k, now))
  /\ open' = [open EXCEPT ![k] = Front(@)]
  /\ trace' = Append(trace, [time |-> now, end |-> TRUE, key |-> k])
  /\ UNCHANGED <<pc, now, paired, pending, pairs>>
-----------------------------------------------------------------------------
(* The parser. *)

\* endpoints.sort(): by time, begins ("b") before ends ("e"), then by key.
Precedes(x, y) ==
  \/ x.time < y.time
  \/ x.time = y.time /\ ~x.end /\ y.end
  \/ x.time = y.time /\ x.end = y.end /\ x.key < y.key

\* Where an endpoint comes: after those that precede it and its equals stored before it.
Place(s, i) ==
  Cardinality({j \in DOMAIN s : Precedes(s[j], s[i]) \/ (s[j] = s[i] /\ j <= i)})
Arranged(s) == [n \in DOMAIN s |-> s[CHOOSE i \in DOMAIN s : Place(s, i) = n]]

SortEndpoints ==
  /\ pc = "record"
  /\ trace' = Arranged(trace)
  /\ pc' = "pair"
  /\ UNCHANGED <<application, paired, pending, pairs>>

\* The oldest begin instead of the last one.
CloseFirst(stack, k, time) ==
  [key |-> k, start |-> Head(stack), duration |-> time - Head(stack)]

\* One round of the loop: an end takes the last begin of its key, or the trace is
\* refused.
PairQueued ==
  /\ pc = "pair" /\ paired < Len(trace)
  /\ LET x == trace[paired + 1]
         starts == pending[x.key]
     IN \/ /\ ~x.end
           /\ pending' = [pending EXCEPT ![x.key] = Append(@, x.time)]
           /\ UNCHANGED <<pc, pairs>>
        \/ /\ x.end /\ starts # <<>>
           /\ pending' = [pending EXCEPT ![x.key] = Tail(@)]
           /\ pairs' = Append(pairs, CloseFirst(starts, x.key, x.time))
           /\ UNCHANGED pc
        \/ /\ x.end /\ starts = <<>>
           /\ pc' = "error"
           /\ UNCHANGED <<pending, pairs>>
  /\ paired' = paired + 1
  /\ UNCHANGED <<application, trace>>

Pair ==
  /\ pc = "pair" /\ paired < Len(trace)
  /\ LET x == trace[paired + 1]
         starts == pending[x.key]
     IN \/ /\ ~x.end
           /\ pending' = [pending EXCEPT ![x.key] = Append(@, x.time)]
           /\ UNCHANGED <<pc, pairs>>
        \/ /\ x.end /\ starts # <<>>
           /\ pending' = [pending EXCEPT ![x.key] = Front(@)]
           /\ pairs' = Append(pairs, Close(starts, x.key, x.time))
           /\ UNCHANGED pc
        \/ /\ x.end /\ starts = <<>>
           /\ pc' = "error"
           /\ UNCHANGED <<pending, pairs>>
  /\ paired' = paired + 1
  /\ UNCHANGED <<application, trace>>

FinishPairing ==
  /\ pc = "pair" /\ paired = Len(trace)
  /\ pc' = IF pending = NothingOpen THEN "done" ELSE "error"
  /\ UNCHANGED <<application, trace, paired, pending, pairs>>

PairingNext ==
  \/ Tick \/ SortEndpoints \/ Pair \/ FinishPairing
  \/ \E k \in Keys : Begin(k) \/ End(k)

PairingSpec == PairingInit /\ [][PairingNext]_pairingVars
-----------------------------------------------------------------------------
(* What must hold. *)

\* Two sections of a key touch when one ends at the instant another begins.
Touching ==
  \E x, y \in ToSet(truth) :
    x # y /\ x.key = y.key /\ x.start + x.duration = y.start

\* A trace is refused exactly when the application left a section open, and otherwise
\* sections that do not touch are all recovered as they were, however they nest and
\* whatever other keys do.
SectionsAreRecovered ==
  /\ pc = "error" => open # NothingOpen
  /\ pc = "done" => open = NothingOpen
  /\ pc = "done" /\ ~Touching => ToBag(pairs) = ToBag(truth)

\* "Repeated IDs follow Chromium nestable-async stack semantics": the measures are
\* the sections, also when they touch.  The code's sort keeps this only when they
\* do not.
StackSemantics == pc = "done" => ToBag(pairs) = ToBag(truth)
=============================================================================
