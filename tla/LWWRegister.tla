---------------------------- MODULE LWWRegister ----------------------------
(***************************************************************************)
(* The replicated value of ZenithDB: a vector clock (src/vector_clock.h)   *)
(* and the last-write-wins register built on it (src/crdt.h).              *)
(*                                                                         *)
(* A std::map<NodeID, Counter> in which a missing entry counts as 0 is a   *)
(* function from the nodes to the naturals.  Values are strings of which   *)
(* the code only uses the lexicographic order and emptiness: they are      *)
(* naturals, and 0 is the empty string, which stands for "no value" or     *)
(* "deleted" wherever the engine reads a register.                         *)
(***************************************************************************)
EXTENDS Naturals, FiniteSets

CONSTANTS Node,     \* the node ids
          Value     \* the values, the empty string among them

ASSUME ValueAssumption == /\ Value \subseteq Nat
                          /\ 0 \in Value

Clock == [Node -> Nat]

ZeroClock == [m \in Node |-> 0]

Larger(x, y) == IF x < y THEN y ELSE x

\* Mistake: the counter runs down.
IncrementDown(c, n) == [c EXCEPT ![n] = @ - 1]

\* One more event of node n.
Increment(c, n) == [c EXCEPT ![n] = @ + 1]

\* The pointwise maximum of two clocks.
MergeClock(c, d) == [m \in Node |-> Larger(c[m], d[m])]

Leq(c, d) == \A m \in Node : c[m] <= d[m]

\* The verdict of VectorClock::compare, seen from c.
Order(c, d) ==
  LET thisHasGreater  == \E m \in Node : c[m] > d[m]
      otherHasGreater == \E m \in Node : d[m] > c[m]
  IN  IF thisHasGreater
      THEN IF otherHasGreater THEN "Concurrent"    ELSE "HappensAfter"
      ELSE IF otherHasGreater THEN "HappensBefore" ELSE "Equal"

-----------------------------------------------------------------------------
Empty == 0

Register == [value : Value, clock : Clock]

\* No register stored: what a reader cannot tell from a deleted one.
Absent == [value |-> Empty, clock |-> ZeroClock]

\* Mistake: the two verdicts of the comparison are swapped.
MergeKeepsOlder(a, b) ==
  CASE Order(a.clock, b.clock) = "HappensAfter" -> b
    [] Order(a.clock, b.clock) = "HappensBefore" -> a
    [] OTHER -> [value |-> Larger(a.value, b.value),
                 clock |-> MergeClock(a.clock, b.clock)]

\* Mistake: of two concurrent registers the winner keeps its own clock.
MergeForgetsHistory(a, b) ==
  CASE Order(a.clock, b.clock) = "HappensBefore" -> b
    [] Order(a.clock, b.clock) = "Concurrent" ->
         IF b.value > a.value THEN b ELSE a
    [] OTHER -> a

\* a.merge(b)
Merge(a, b) ==
  CASE Order(a.clock, b.clock) = "HappensBefore" -> b
    [] Order(a.clock, b.clock) = "Concurrent" ->
         [value |-> Larger(a.value, b.value),
          clock |-> MergeClock(a.clock, b.clock)]
    [] OTHER -> [a EXCEPT !.clock = MergeClock(a.clock, b.clock)]

\* What may come of merging all registers of the finite set V, in any order
\* and with any of them merged among themselves before.
Merges(V) ==
  LET upTo[i \in 0..Cardinality(V)] ==
        IF i = 0 THEN V
        ELSE upTo[i - 1] \cup {Merge(a, b) : a, b \in upTo[i - 1]}
  IN  {reg \in upTo[Cardinality(V)] : \A v \in V : Leq(v.clock, reg.clock)}

=============================================================================
