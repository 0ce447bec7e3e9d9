------------------------- MODULE LWWRegisterProofs -------------------------
(***************************************************************************)
(* What the merge of clocks and registers computes, for every set of nodes *)
(* and every clock.  The clock part of a merge is a join: this is what all *)
(* the replication theorems rest on.  The value part is a join only for    *)
(* registers whose clocks differ.                                          *)
(***************************************************************************)
EXTENDS LWWRegister, LeastNumber, TLAPS

\* The clock operators stay in Clock.
LEMMA ClockType ==
  /\ ZeroClock \in Clock
  /\ \A c \in Clock, n \in Node : Increment(c, n) \in Clock
  /\ \A c, d \in Clock : MergeClock(c, d) \in Clock
  BY DEF ZeroClock, Clock, Increment, MergeClock, Larger

\* MergeClock is the least upper bound under Leq.
LEMMA MergeClockIsJoin ==
  ASSUME NEW c \in Clock, NEW d \in Clock
  PROVE  /\ Leq(c, MergeClock(c, d))
         /\ Leq(d, MergeClock(c, d))
         /\ \A e \in Clock : Leq(c, e) /\ Leq(d, e) => Leq(MergeClock(c, d), e)
  BY DEF Clock, Leq, MergeClock, Larger

\* Leq is a partial order on clocks.
LEMMA LeqIsPartialOrder ==
  /\ \A c \in Clock : Leq(c, c)
  /\ \A c, d, e \in Clock : Leq(c, d) /\ Leq(d, e) => Leq(c, e)
  /\ \A c, d \in Clock : Leq(c, d) /\ Leq(d, c) => c = d
<1>1. ASSUME NEW c \in Clock, NEW d \in Clock, Leq(c, d), Leq(d, c)
      PROVE  c = d
  <2>1. ASSUME NEW m \in Node
        PROVE  c[m] = d[m]
    <3>1. c[m] <= d[m] /\ d[m] <= c[m]
      BY <1>1 DEF Leq
    <3>2. c[m] \in Nat /\ d[m] \in Nat
      BY DEF Clock
    <3> QED BY <3>1, <3>2
  <2> QED BY <2>1 DEF Clock
<1>2. ASSUME NEW c \in Clock, NEW d \in Clock, NEW e \in Clock,
             Leq(c, d), Leq(d, e), NEW m \in Node
      PROVE  c[m] <= e[m]
  <2>1. c[m] <= d[m] /\ d[m] <= e[m]
    BY <1>2 DEF Leq
  <2>2. c[m] \in Nat /\ d[m] \in Nat /\ e[m] \in Nat
    BY DEF Clock
  <2> QED BY <2>1, <2>2
<1>3. \A c \in Clock : Leq(c, c)
  BY DEF Clock, Leq
<1> QED BY <1>1, <1>2, <1>3 DEF Leq

\* The verdict of VectorClock::compare in terms of Leq.
LEMMA OrderMeaning ==
  ASSUME NEW c \in Clock, NEW d \in Clock
  PROVE  /\ Order(c, d) = "HappensBefore" <=> Leq(c, d) /\ ~Leq(d, c)
         /\ Order(c, d) = "HappensAfter"  <=> Leq(d, c) /\ ~Leq(c, d)
         /\ Order(c, d) = "Equal"         <=> Leq(c, d) /\ Leq(d, c)
         /\ Order(c, d) = "Concurrent"    <=> ~Leq(c, d) /\ ~Leq(d, c)
<1>1. (\E m \in Node : c[m] > d[m]) <=> ~Leq(c, d)
  BY DEF Clock, Leq
<1>2. (\E m \in Node : d[m] > c[m]) <=> ~Leq(d, c)
  BY DEF Clock, Leq
<1> QED BY <1>1, <1>2 DEF Order

\* A merge of registers is a register.
LEMMA MergeType ==
  ASSUME NEW a \in Register, NEW b \in Register
  PROVE  Merge(a, b) \in Register
  BY ClockType DEF Register, Merge, Larger

\* Whatever LWWRegister::merge does with the values, it joins the clocks.
THEOREM MergeJoinsClocks ==
  ASSUME NEW a \in Register, NEW b \in Register
  PROVE  Merge(a, b).clock = MergeClock(a.clock, b.clock)
<1> USE DEF Register
<1>1. CASE Order(a.clock, b.clock) = "HappensBefore"
  <2>1. Leq(a.clock, b.clock)
    BY <1>1, OrderMeaning
  <2>2. MergeClock(a.clock, b.clock) = b.clock
    <3>1. Leq(MergeClock(a.clock, b.clock), b.clock)
      BY <2>1, MergeClockIsJoin, LeqIsPartialOrder
    <3> QED BY <3>1, ClockType, MergeClockIsJoin, LeqIsPartialOrder
  <2> QED BY <1>1, <2>2 DEF Merge
<1>2. CASE Order(a.clock, b.clock) = "Concurrent"
  BY <1>2 DEF Merge
<1>3. CASE Order(a.clock, b.clock) \notin {"HappensBefore", "Concurrent"}
  BY <1>3 DEF Merge
<1> QED BY <1>1, <1>2, <1>3

\* Merging a register with itself changes nothing, and two registers whose
\* clocks differ merge to the same register in both directions.  (With equal
\* clocks each direction keeps its own value: that is why two replicas may
\* swap their values for ever.)
THEOREM MergeLaws ==
  ASSUME ValueAssumption, NEW a \in Register, NEW b \in Register
  PROVE  /\ Merge(a, a) = a
         /\ a.clock # b.clock => Merge(a, b) = Merge(b, a)
         /\ a.clock = b.clock => Merge(a, b) = a
<1> USE DEF Register
<1> DEFINE ac == a.clock
           bc == b.clock
<1>0. ac \in Clock /\ bc \in Clock /\ a.value \in Nat /\ b.value \in Nat
  BY ValueAssumption DEF ValueAssumption
<1>1. ASSUME NEW x \in Register, NEW y \in Register, Leq(y.clock, x.clock)
      PROVE  Merge(x, y) = x
  <2>1. Order(x.clock, y.clock) \notin {"HappensBefore", "Concurrent"}
    BY <1>1, OrderMeaning
  <2>2. MergeClock(x.clock, y.clock) = x.clock
    BY <1>1, MergeClockIsJoin, LeqIsPartialOrder, ClockType
  <2> QED BY <2>1, <2>2 DEF Merge
<1>2. ASSUME NEW x \in Register, NEW y \in Register,
             Leq(x.clock, y.clock), ~Leq(y.clock, x.clock)
      PROVE  Merge(x, y) = y
  BY <1>2, OrderMeaning DEF Merge
<1>3. CASE ~Leq(ac, bc) /\ ~Leq(bc, ac)
  <2>1. Merge(a, b) = [value |-> Larger(a.value, b.value), clock |-> MergeClock(ac, bc)]
    BY <1>3, OrderMeaning DEF Merge
  <2>2. Merge(b, a) = [value |-> Larger(b.value, a.value), clock |-> MergeClock(bc, ac)]
    BY <1>3, OrderMeaning DEF Merge
  <2>3. Larger(a.value, b.value) = Larger(b.value, a.value)
    BY <1>0 DEF Larger
  <2>4. MergeClock(ac, bc) = MergeClock(bc, ac)
    BY <1>0, MergeClockIsJoin, LeqIsPartialOrder, ClockType
  <2>5. ac # bc
    BY <1>0, <1>3, LeqIsPartialOrder
  <2> QED BY <2>1, <2>2, <2>3, <2>4, <2>5, <1>0, <1>1, LeqIsPartialOrder
<1>4. CASE Leq(ac, bc) /\ ~Leq(bc, ac)
  BY <1>0, <1>1, <1>2, <1>4, LeqIsPartialOrder
<1>5. CASE ~Leq(ac, bc) /\ Leq(bc, ac)
  BY <1>0, <1>1, <1>2, <1>5, LeqIsPartialOrder
<1>6. CASE Leq(ac, bc) /\ Leq(bc, ac)
  BY <1>0, <1>1, <1>6, LeqIsPartialOrder
<1> QED BY <1>3, <1>4, <1>5, <1>6

-----------------------------------------------------------------------------
(* Merging a set of registers. *)

\* A round of merges.
After(T) == T \cup {Merge(a, b) : a, b \in T}

\* The rounds of Merges: g gives the first n of them.
IsRounds(g, V, n) ==
  g = [i \in 0..n |-> IF i = 0 THEN V ELSE After(g[i - 1])]

LEMMA RoundsExist ==
  ASSUME NEW V, NEW n \in Nat
  PROVE  \E g : IsRounds(g, V, n)
<1> DEFINE B == {m \in 0..n : \A g : ~IsRounds(g, V, m)}
<1> SUFFICES ASSUME B # {} PROVE FALSE
  OBVIOUS
<1>1. PICK m \in B : \A j \in B : m <= j
  <2>1. B \in SUBSET Nat
    OBVIOUS
  <2> QED BY <2>1, LeastExists
<1>2. \A g, j : IsRounds(g, V, j) <=>
                  g = [i \in 0..j |-> IF i = 0 THEN V ELSE After(g[i - 1])]
  BY DEF IsRounds
<1>3. CASE m = 0
  <2> DEFINE h == [i \in 0..0 |-> V]
  <2>1. h = [i \in 0..0 |-> IF i = 0 THEN V ELSE After(h[i - 1])]
    <3> HIDE DEF h
    <3>1. \A i \in 0..0 : V = IF i = 0 THEN V ELSE After(h[i - 1])
      OBVIOUS
    <3> QED BY <3>1 DEF h
  <2> HIDE DEF h
  <2> QED BY <1>1, <1>2, <1>3, <2>1
<1>4. CASE m # 0
  <2>1. m \in Nat /\ m - 1 \in 0..n /\ m - 1 \notin B
    BY <1>1, <1>4
  <2>2. PICK g : g = [i \in 0..(m - 1) |-> IF i = 0 THEN V ELSE After(g[i - 1])]
    BY <1>2, <2>1
  <2> DEFINE h == [i \in 0..m |-> IF i = m THEN After(g[m - 1]) ELSE g[i]]
  <2>3. \A i \in 0..m : h[i] = IF i = m THEN After(g[m - 1]) ELSE g[i]
    OBVIOUS
  <2>4. DOMAIN h = 0..m /\ h = [i \in 0..m |-> h[i]]
    OBVIOUS
  <2> HIDE DEF h
  <2>5. ASSUME NEW i \in 0..m PROVE h[i] = IF i = 0 THEN V ELSE After(h[i - 1])
    <3>1. CASE i = m
      <4>1. m - 1 \in 0..m /\ m - 1 # m
        BY <2>1
      <4>2. h[m - 1] = g[m - 1]
        BY <2>3, <4>1
      <4> QED BY <1>4, <2>3, <3>1, <4>2
    <3>2. CASE i # m
      <4>1. i \in 0..(m - 1) /\ (i # 0 => i - 1 \in 0..m /\ i - 1 # m)
        BY <2>1, <3>2
      <4>2. g[i] = IF i = 0 THEN V ELSE After(g[i - 1])
        BY <2>2, <4>1
      <4>3. i # 0 => h[i - 1] = g[i - 1]
        BY <2>3, <4>1
      <4> QED BY <2>3, <3>2, <4>2, <4>3
    <3> QED BY <3>1, <3>2
  <2>6. h = [i \in 0..m |-> IF i = 0 THEN V ELSE After(h[i - 1])]
    BY <2>4, <2>5
  <2> QED BY <1>1, <1>2, <2>6
<1> QED BY <1>3, <1>4

\* What Merges takes its results from lies between the registers and every
\* set around them that merges do not leave.
LEMMA MergesAre ==
  ASSUME NEW V, IsFiniteSet(V)
  PROVE  \E U : /\ Merges(V) = {reg \in U : \A v \in V : Leq(v.clock, reg.clock)}
                /\ V \subseteq U
                /\ \A S : V \subseteq S /\ (\A a, b \in S : Merge(a, b) \in S)
                            => U \subseteq S
<1> DEFINE G(g) == g = [i \in 0..Cardinality(V) |->
                          IF i = 0 THEN V
                          ELSE g[i - 1] \cup {Merge(a, b) : a, b \in g[i - 1]}]
           upTo == CHOOSE g : G(g)
           C == Cardinality(V)
<1>1. C \in Nat
  BY FS_CardinalityType
<1>2. Merges(V) = {reg \in upTo[Cardinality(V)] : \A v \in V : Leq(v.clock, reg.clock)}
  BY DEF Merges
<1>3. \A g : G(g) <=> IsRounds(g, V, Cardinality(V))
  BY DEF IsRounds, After
<1> HIDE DEF G
<1>4. IsRounds(upTo, V, C)
  BY <1>1, <1>3, RoundsExist
<1> HIDE DEF upTo, C
<1>5. \A i \in 0..C : upTo[i] = IF i = 0 THEN V ELSE After(upTo[i - 1])
  BY <1>4 DEF IsRounds
<1> DEFINE Between(T) ==
      /\ V \subseteq T
      /\ \A S : V \subseteq S /\ (\A a, b \in S : Merge(a, b) \in S) => T \subseteq S
           B == {i \in 0..C : ~Between(upTo[i])}
<1>6. B = {}
  <2> SUFFICES ASSUME B # {} PROVE FALSE
    OBVIOUS
  <2>1. PICK i \in B : \A j \in B : i <= j
    <3>1. B \in SUBSET Nat
      OBVIOUS
    <3> QED BY <3>1, LeastExists
  <2>2. CASE i = 0
    <3>1. upTo[i] = V
      BY <1>5, <2>1, <2>2
    <3> QED BY <2>1, <3>1
  <2>3. CASE i # 0
    <3>1. i - 1 \in 0..C /\ i - 1 \notin B
      BY <1>1, <2>1, <2>3
    <3>2. Between(upTo[i - 1])
      BY <3>1
    <3>3. upTo[i] = After(upTo[i - 1])
      BY <1>5, <2>1, <2>3
    <3>4. \A T : Between(T) => Between(After(T))
      BY DEF After
    <3> QED BY <2>1, <3>2, <3>3, <3>4
  <2> QED BY <2>2, <2>3
<1>7. Between(upTo[C])
  BY <1>1, <1>6
<1> QED BY <1>2, <1>7 DEF C

\* Merges do not leave a set that one merge does not leave.
LEMMA MergesStay ==
  ASSUME NEW V, IsFiniteSet(V), NEW S, V \subseteq S,
         \A a, b \in S : Merge(a, b) \in S
  PROVE  Merges(V) \subseteq S
BY MergesAre

\* One register merges to itself.
LEMMA MergesOfOne ==
  ASSUME NEW reg \in Register
  PROVE  reg \in Merges({reg})
<1>1. IsFiniteSet({reg})
  BY FS_Singleton
<1>2. Leq(reg.clock, reg.clock)
  BY LeqIsPartialOrder DEF Register
<1> QED BY <1>1, <1>2, MergesAre

=============================================================================
