---------------------------- MODULE LeastNumber ----------------------------
(***************************************************************************)
(* Least and greatest elements of sets of naturals, and finite sets.       *)
(***************************************************************************)
EXTENDS Integers, FiniteSets, FiniteSetTheorems, WellFoundedInduction, TLAPS

\* A set of naturals that is not empty has a least element.
LEMMA LeastExists ==
  ASSUME NEW S \in SUBSET Nat, S # {}
  PROVE  \E m \in S : \A n \in S : m <= n
<1> DEFINE T == {0..m : m \in S}
<1>1. T \subseteq FiniteSubsetsOf(Nat) /\ T # {}
  <2>1. \A m \in S : IsFiniteSet(0..m)
    BY FS_Interval
  <2>2. T \subseteq SUBSET Nat /\ \A J \in T : IsFiniteSet(J)
    BY <2>1
  <2>3. T # {}
    <3>1. PICK m \in S : TRUE
      OBVIOUS
    <3>2. 0..m \in T
      OBVIOUS
    <3> QED BY <3>2
  <2> QED BY <2>2, <2>3 DEF FiniteSubsetsOf
<1>2. PICK I \in T : \A J \in T : <<J, I>> \notin StrictSubsetOrdering(Nat)
  BY ONLY <1>1, WFMin, FS_StrictSubsetOrderingWellFounded
<1>3. PICK m \in S : I = 0..m
  BY <1>2
<1>4. ASSUME NEW n \in S, n < m PROVE FALSE
  <2>1. 0..n \in SUBSET Nat /\ 0..m \in SUBSET Nat
    OBVIOUS
  <2>2. 0..n \subseteq 0..m /\ 0..n # 0..m
    BY <1>4
  <2>3. <<0..n, 0..m>> \in StrictSubsetOrdering(Nat)
    BY <2>1, <2>2 DEF StrictSubsetOrdering
  <2> QED BY <1>2, <1>3, <2>3
<1> QED BY <1>4

\* A set of naturals that is not empty and has a bound has a greatest element.
LEMMA GreatestExists ==
  ASSUME NEW b \in Nat, NEW S \in SUBSET (0..b), S # {}
  PROVE  \E m \in S : \A n \in S : n <= m
<1> DEFINE T == {n \in 0..b : b - n \in S}
<1>1. T \in SUBSET Nat /\ T # {}
  <2>1. PICK n \in S : TRUE
    OBVIOUS
  <2>2. b - n \in 0..b /\ b - (b - n) = n
    BY <2>1
  <2> QED BY <2>1, <2>2
<1>2. PICK t \in T : \A n \in T : t <= n
  BY <1>1, LeastExists
<1>3. \A n \in S : n <= b - t
  <2> TAKE n \in S
  <2>1. b - n \in 0..b /\ b - (b - n) = n
    OBVIOUS
  <2>2. t <= b - n
    BY <1>2, <2>1
  <2> QED BY <2>2
<1> QED BY <1>3

\* The image of a finite set under a function is finite.
LEMMA ImageFinite ==
  ASSUME NEW I, IsFiniteSet(I), NEW g
  PROVE  IsFiniteSet({g[i] : i \in I})
<1> DEFINE T == {g[i] : i \in I}
           f == [i \in I |-> g[i]]
<1>1. f \in Surjection(I, T)
  BY DEF Surjection
<1> QED BY <1>1, FS_Surjection

=============================================================================
