----------------------- MODULE StorageEngineProofs -----------------------
(***************************************************************************)
(* Theorems about StorageEngine, for every set of keys and registers,      *)
(* every number of levels, every trigger and every bound.                  *)
(***************************************************************************)
EXTENDS StorageEngine, LWWRegisterProofs, LeastNumber, SequenceTheorems

-----------------------------------------------------------------------------
(* Lookups. *)

\* Newest gives the register of the greatest index that has one.
LEMMA NewestIs ==
  ASSUME NEW tabs, NEW T \in SUBSET Nat, NEW k, NEW i \in T,
         tabs[i][k] # NoReg,
         \A j \in T : j > i => tabs[j][k] = NoReg
  PROVE  Newest(tabs, T, k) = tabs[i][k]
<1> DEFINE has == {j \in T : tabs[j][k] # NoReg}
<1>1. i \in has /\ \A j \in has : j <= i
  OBVIOUS
<1>2. \A m \in has : (\A j \in has : j <= m) => m = i
  BY <1>1
<1>3. (CHOOSE m \in has : \A j \in has : j <= m) = i
  BY <1>1, <1>2
<1> QED BY <1>1, <1>3 DEF Newest

LEMMA NewestIsNone ==
  ASSUME NEW tabs, NEW T, NEW k, \A i \in T : tabs[i][k] = NoReg
  PROVE  Newest(tabs, T, k) = NoReg
BY DEF Newest

\* The two cases of Newest.
LEMMA NewestCases ==
  ASSUME NEW tabs \in Seq(Content), NEW T \in SUBSET (1..Len(tabs)), NEW k
  PROVE  \/ /\ Newest(tabs, T, k) = NoReg
            /\ \A i \in T : tabs[i][k] = NoReg
         \/ \E i \in T : /\ tabs[i][k] # NoReg
                         /\ Newest(tabs, T, k) = tabs[i][k]
                         /\ \A j \in T : j > i => tabs[j][k] = NoReg
<1> DEFINE has == {j \in T : tabs[j][k] # NoReg}
<1>1. CASE has = {}
  BY <1>1, NewestIsNone
<1>2. CASE has # {}
  <2>1. Len(tabs) \in Nat /\ has \in SUBSET (0..Len(tabs))
    <3>1. Len(tabs) \in Nat /\ \A i \in T : i \in 0..Len(tabs)
      OBVIOUS
    <3> QED BY <3>1
  <2>2. PICK i \in has : \A j \in has : j <= i
    BY <1>2, <2>1, GreatestExists
  <2>3. i \in T /\ tabs[i][k] # NoReg /\ \A j \in T : j > i => tabs[j][k] = NoReg
    BY <2>2
  <2>4. T \in SUBSET Nat
    OBVIOUS
  <2>5. Newest(tabs, T, k) = tabs[i][k]
    BY <2>3, <2>4, NewestIs
  <2> QED BY <2>3, <2>5
<1> QED BY <1>1, <1>2

LEMMA NewestType ==
  ASSUME NEW tabs \in Seq(Content), NEW T \in SUBSET (1..Len(tabs)),
         NEW k \in Key
  PROVE  Newest(tabs, T, k) \in Register \cup {NoReg}
<1>1. \A i \in T : tabs[i][k] \in Register \cup {NoReg}
  BY DEF Content
<1> QED BY <1>1, NewestCases

\* Whatever FileVersions finds is what some file of the layout has.
LEMMA FileVersionsFound ==
  ASSUME NEW lay \in [Level -> SUBSET Files], NEW k,
         NEW reg \in FileVersions(lay, k)
  PROVE  \/ reg = NoReg
         \/ \E f \in UNION {lay[l] : l \in Level} :
              reg = files[f][k] /\ reg # NoReg
<1> DEFINE has(l) == {f \in lay[l] : files[f][k] # NoReg}
           levels == {l \in Level : has(l) # {}}
<1>1. CASE levels = {}
  BY <1>1 DEF FileVersions
<1>2. CASE levels # {}
  <2> DEFINE l0 == CHOOSE l \in levels : \A m \in levels : l <= m
  <2>1. levels \in SUBSET Nat
    BY EngineAssumption DEF Level
  <2>2. \E l \in levels : \A m \in levels : l <= m
    BY <1>2, <2>1, LeastExists
  <2>3. l0 \in levels
    BY <2>2
  <2>4. \E f \in has(l0) : reg = files[f][k]
    BY <1>2 DEF FileVersions
  <2> QED BY <2>3, <2>4
<1> QED BY <1>1, <1>2

LEMMA FileVersionsType ==
  ASSUME TypeOK, NEW lay \in [Level -> SUBSET Files], NEW k \in Key,
         NEW reg \in FileVersions(lay, k)
  PROVE  reg \in Register \cup {NoReg}
<1>1. \A f \in Files : files[f][k] \in Register \cup {NoReg}
  BY DEF TypeOK, Content, Files
<1> QED BY <1>1, FileVersionsFound

LEMMA VisibleType ==
  ASSUME NEW reg \in Register \cup {NoReg}
  PROVE  Visible(reg) \in Register \cup {NoReg}
BY DEF Visible

-----------------------------------------------------------------------------
(* The fold of a compaction.  What the recursive function is has to be     *)
(* shown from its definition: first that such a function exists, then what *)
(* it gives, each by the least index at which it would fail.               *)

\* A step of the fold.
FoldStep(acc, reg) ==
  IF reg = NoReg THEN acc ELSE IF acc = NoReg THEN reg ELSE Merge(acc, reg)

\* g is the fold of the first m registers of r.
IsFold(g, r, m) ==
  g = [i \in 0..m |-> IF i = 0 THEN NoReg ELSE FoldStep(g[i - 1], r[i])]

LEMMA FoldExists ==
  ASSUME NEW n \in Nat, NEW r
  PROVE  \E g : IsFold(g, r, n)
<1> DEFINE B == {m \in 0..n : \A g : ~IsFold(g, r, m)}
<1> SUFFICES B = {}
  OBVIOUS
<1> SUFFICES ASSUME B # {} PROVE FALSE
  OBVIOUS
<1>1. B \in SUBSET Nat
  OBVIOUS
<1>2. PICK m \in B : \A j \in B : m <= j
  BY <1>1, LeastExists
<1>3. CASE m = 0
  <2> DEFINE g == [i \in 0..0 |-> NoReg]
  <2>1. IsFold(g, r, 0)
    BY DEF IsFold
  <2> HIDE DEF g
  <2> QED BY <1>2, <1>3, <2>1
<1>4. CASE m # 0
  <2>1. m \in 1..n /\ m - 1 \in 0..n /\ m - 1 \notin B
    BY <1>2, <1>4
  <2>2. PICK g : IsFold(g, r, m - 1)
    BY <2>1
  <2> DEFINE h == [i \in 0..m |-> IF i < m THEN g[i] ELSE FoldStep(g[m - 1], r[m])]
  <2>3. ASSUME NEW i \in 0..m
        PROVE  h[i] = IF i = 0 THEN NoReg ELSE FoldStep(h[i - 1], r[i])
    <3>1. CASE i = m
      <4>1. h[i] = FoldStep(g[m - 1], r[m]) /\ h[i - 1] = g[m - 1]
        BY <2>1, <3>1
      <4> QED BY <2>1, <3>1, <4>1
    <3>2. CASE i # m
      <4>1. i \in 0..(m - 1)
        BY <2>1, <3>2
      <4>2. g[i] = IF i = 0 THEN NoReg ELSE FoldStep(g[i - 1], r[i])
        BY <2>2, <4>1 DEF IsFold
      <4>3. h[i] = g[i] /\ (i # 0 => h[i - 1] = g[i - 1])
        BY <2>1, <4>1
      <4> QED BY <4>2, <4>3
    <3> QED BY <3>1, <3>2
  <2>4. h = [i \in 0..m |-> h[i]]
    OBVIOUS
  <2> HIDE DEF h
  <2>5. IsFold(h, r, m)
    BY <2>3, <2>4 DEF IsFold
  <2> QED BY <1>2, <2>5
<1> QED BY <1>3, <1>4

\* The fold of registers is a register, or nothing if there was none.
LEMMA FoldFound ==
  ASSUME NEW n \in Nat, NEW r, NEW g, IsFold(g, r, n),
         \A i \in 1..n : r[i] \in Register \cup {NoReg}
  PROVE  /\ g[n] \in Register \cup {NoReg}
         /\ g[n] # NoReg => \E i \in 1..n : r[i] # NoReg
<1> DEFINE P(i) == /\ g[i] \in Register \cup {NoReg}
                   /\ g[i] # NoReg => \E j \in 1..i : r[j] # NoReg
           B == {i \in 0..n : ~P(i)}
<1> SUFFICES ASSUME B # {} PROVE FALSE
  OBVIOUS
<1>1. B \in SUBSET Nat
  OBVIOUS
<1>2. PICK m \in B : \A j \in B : m <= j
  BY <1>1, LeastExists
<1>3. m \in 0..n /\ ~P(m)
  BY <1>2
<1>4. m # 0
  <2>1. g[0] = NoReg
    BY DEF IsFold
  <2> QED BY <1>3, <2>1
<1>5. m \in 1..n /\ m - 1 \in 0..n /\ P(m - 1)
  <2>1. m \in 1..n /\ m - 1 \in 0..n /\ m - 1 \notin B
    BY <1>2, <1>3, <1>4
  <2> QED BY <2>1
<1>6. g[m] = FoldStep(g[m - 1], r[m])
  BY <1>3, <1>4 DEF IsFold
<1>7. P(m)
  <2>1. g[m] \in Register \cup {NoReg}
    BY <1>5, <1>6, MergeType DEF FoldStep
  <2>2. ASSUME g[m] # NoReg PROVE \E j \in 1..m : r[j] # NoReg
    <3>1. CASE r[m] # NoReg
      BY <1>5, <3>1
    <3>2. CASE r[m] = NoReg
      <4>1. g[m - 1] # NoReg
        BY <1>6, <2>2, <3>2 DEF FoldStep
      <4>2. PICK j \in 1..(m - 1) : r[j] # NoReg
        BY <1>5, <4>1
      <4> QED BY <1>5, <4>2
    <3> QED BY <3>1, <3>2
  <2> QED BY <2>1, <2>2
<1> QED BY <1>3, <1>7

\* The fold supersedes every register it has seen.
LEMMA FoldCovers ==
  ASSUME NEW n \in Nat, NEW r, NEW g, IsFold(g, r, n),
         \A i \in 1..n : r[i] \in Register \cup {NoReg},
         NEW i \in 1..n, r[i] # NoReg
  PROVE  g[n] # NoReg /\ Leq(r[i].clock, g[n].clock)
<1> DEFINE B == {m \in i..n : ~(g[m] # NoReg /\ Leq(r[i].clock, g[m].clock))}
<1> SUFFICES ASSUME B # {} PROVE FALSE
  OBVIOUS
<1>1. PICK m \in B : \A j \in B : m <= j
  <2>1. B \in SUBSET Nat
    OBVIOUS
  <2> QED BY <2>1, LeastExists
<1>2. m \in 1..n /\ m - 1 \in 0..n /\ r[m] \in Register \cup {NoReg}
  OBVIOUS
<1>3. g[m] = FoldStep(g[m - 1], r[m])
  BY <1>2 DEF IsFold
<1>4. g[m - 1] \in Register \cup {NoReg}
  <2>1. ASSUME NEW h, h = [j \in 0..(m - 1) |-> g[j]]
        PROVE  h[m - 1] \in Register \cup {NoReg}
    <3>1. IsFold(h, r, m - 1)
      <4>1. \A j \in 0..(m - 1) :
              g[j] = IF j = 0 THEN NoReg ELSE FoldStep(g[j - 1], r[j])
        BY <1>2 DEF IsFold
      <4>2. \A j \in 0..(m - 1) : h[j] = g[j] /\ (j # 0 => h[j - 1] = g[j - 1])
        BY <1>2, <2>1
      <4>3. h = [j \in 0..(m - 1) |->
                   IF j = 0 THEN NoReg ELSE FoldStep(h[j - 1], r[j])]
        BY <2>1, <4>1, <4>2
      <4> QED BY <4>3 DEF IsFold
    <3>2. m - 1 \in Nat /\ \A j \in 1..(m - 1) : r[j] \in Register \cup {NoReg}
      BY <1>2
    <3> QED BY <3>1, <3>2, FoldFound
  <2>2. [j \in 0..(m - 1) |-> g[j]][m - 1] = g[m - 1]
    BY <1>2
  <2> QED BY <2>1, <2>2
<1>5. CASE m = i
  <2>1. r[m] \in Register /\ r[m].clock \in Clock
    BY <1>2, <1>5 DEF Register
  <2>2. CASE g[m - 1] = NoReg
    <3>1. g[m] = r[m]
      BY <1>3, <1>5, <2>2 DEF FoldStep
    <3> QED BY <1>1, <1>5, <2>1, <3>1, LeqIsPartialOrder, EngineAssumption
  <2>3. CASE g[m - 1] # NoReg
    <3>1. g[m] = Merge(g[m - 1], r[m]) /\ g[m - 1] \in Register
      BY <1>3, <1>4, <1>5, <2>3 DEF FoldStep
    <3>2. g[m] \in Register /\ g[m].clock = MergeClock(g[m - 1].clock, r[m].clock)
      BY <2>1, <3>1, MergeType, MergeJoinsClocks
    <3>3. Leq(r[m].clock, g[m].clock)
      BY <2>1, <3>1, <3>2, MergeClockIsJoin DEF Register
    <3> QED BY <1>1, <1>5, <3>2, <3>3, EngineAssumption
  <2> QED BY <2>2, <2>3
<1>6. CASE m # i
  <2>1. m - 1 \in i..n /\ m - 1 \notin B
    BY <1>1, <1>6
  <2>2. /\ g[m - 1] # NoReg /\ g[m - 1] \in Register
        /\ Leq(r[i].clock, g[m - 1].clock)
    BY <1>4, <2>1
  <2>3. CASE r[m] = NoReg
    <3>1. g[m] = g[m - 1]
      BY <1>3, <2>3 DEF FoldStep
    <3> QED BY <1>1, <2>2, <3>1
  <2>4. CASE r[m] # NoReg
    <3>1. g[m] = Merge(g[m - 1], r[m]) /\ r[m] \in Register
      BY <1>2, <1>3, <2>2, <2>4 DEF FoldStep
    <3>2. g[m] \in Register /\ g[m].clock = MergeClock(g[m - 1].clock, r[m].clock)
      BY <2>2, <3>1, MergeType, MergeJoinsClocks
    <3>3. Leq(g[m - 1].clock, g[m].clock)
      BY <2>2, <3>1, <3>2, MergeClockIsJoin DEF Register
    <3>4. r[i] \in Register
      OBVIOUS
    <3>5. Leq(r[i].clock, g[m].clock)
      BY <2>2, <3>2, <3>3, <3>4, LeqIsPartialOrder DEF Register
    <3> QED BY <1>1, <3>2, <3>5, EngineAssumption
  <2> QED BY <2>3, <2>4
<1> QED BY <1>5, <1>6

\* Folded is the fold of what the files of the sequence have for the key.
LEMMA FoldedIsFold ==
  ASSUME TypeOK, NEW F \in SUBSET Files, NEW s \in Seq(F), NEW k \in Key
  PROVE  \E r, g : /\ IsFold(g, r, Len(s)) /\ Folded(s, k) = g[Len(s)]
                   /\ \A i \in 1..Len(s) : /\ r[i] = files[s[i]][k]
                                           /\ r[i] \in Register \cup {NoReg}
<1> DEFINE n == Len(s)
           r == [i \in 1..n |-> files[s[i]][k]]
           G(g) == g = [i \in 0..n |->
                          IF i = 0 THEN NoReg
                          ELSE LET reg == files[s[i]][k]
                               IN  IF reg = NoReg THEN g[i - 1]
                                   ELSE IF g[i - 1] = NoReg THEN reg
                                   ELSE Merge(g[i - 1], reg)]
           fold == CHOOSE g : G(g)
<1>1. n \in Nat /\ \A i \in 1..n : s[i] \in F
  OBVIOUS
<1>2. \A i \in 1..n : r[i] = files[s[i]][k] /\ r[i] \in Register \cup {NoReg}
  <2>1. \A f \in Files : files[f][k] \in Register \cup {NoReg}
    BY DEF TypeOK, Content, Files
  <2> QED BY <1>1, <2>1
<1>3. ASSUME NEW g PROVE G(g) <=> IsFold(g, r, n)
  <2>1. ASSUME NEW i \in 0..n
        PROVE  (IF i = 0 THEN NoReg ELSE FoldStep(g[i - 1], r[i]))
                 = IF i = 0 THEN NoReg
                   ELSE LET reg == files[s[i]][k]
                        IN  IF reg = NoReg THEN g[i - 1]
                            ELSE IF g[i - 1] = NoReg THEN reg
                            ELSE Merge(g[i - 1], reg)
    BY <1>1, <1>2 DEF FoldStep
  <2> QED BY <2>1, Zenon DEF IsFold
<1> HIDE DEF r
<1>4. \E g : G(g)
  BY <1>1, <1>3, FoldExists
<1>5. G(fold)
  BY <1>4, Zenon
<1>6. Folded(s, k) = fold[n]
  BY Zenon DEF Folded
<1> HIDE DEF fold, G
<1> QED BY <1>2, <1>3, <1>5, <1>6

\* Folded gives a register that some input has.
LEMMA FoldedFound ==
  ASSUME TypeOK, NEW F \in SUBSET Files, NEW s \in Seq(F), NEW k \in Key
  PROVE  /\ Folded(s, k) \in Register \cup {NoReg}
         /\ Folded(s, k) # NoReg => \E f \in F : files[f][k] # NoReg
<1>1. PICK r, g : /\ IsFold(g, r, Len(s)) /\ Folded(s, k) = g[Len(s)]
                  /\ \A i \in 1..Len(s) : /\ r[i] = files[s[i]][k]
                                          /\ r[i] \in Register \cup {NoReg}
  BY FoldedIsFold
<1>2. Len(s) \in Nat /\ \A i \in 1..Len(s) : s[i] \in F
  OBVIOUS
<1>3. /\ g[Len(s)] \in Register \cup {NoReg}
      /\ g[Len(s)] # NoReg => \E i \in 1..Len(s) : r[i] # NoReg
  BY <1>1, <1>2, FoldFound
<1> QED BY <1>1, <1>2, <1>3

\* What any file of the sequence has for a key is superseded by Folded.
LEMMA FoldedCovers ==
  ASSUME TypeOK, NEW F \in SUBSET Files, NEW s \in Seq(F), NEW k \in Key,
         NEW i \in 1..Len(s), files[s[i]][k] # NoReg
  PROVE  Folded(s, k) # NoReg /\ Leq(files[s[i]][k].clock, Folded(s, k).clock)
<1>1. PICK r, g : /\ IsFold(g, r, Len(s)) /\ Folded(s, k) = g[Len(s)]
                  /\ \A j \in 1..Len(s) : /\ r[j] = files[s[j]][k]
                                          /\ r[j] \in Register \cup {NoReg}
  BY FoldedIsFold
<1>2. Len(s) \in Nat /\ r[i] = files[s[i]][k] /\ r[i] # NoReg
  BY <1>1
<1>3. g[Len(s)] # NoReg /\ Leq(r[i].clock, g[Len(s)].clock)
  BY <1>1, <1>2, FoldCovers
<1> QED BY <1>1, <1>2, <1>3

-----------------------------------------------------------------------------
(* Type correctness of the puts. *)

LEMMA NothingType == Nothing \in Content
BY DEF Nothing, Content

\* The list of a scan or of a level grows with the files there are.
LEMMA SeqMonotone ==
  ASSUME NEW S, NEW T, S \subseteq T, NEW s \in Seq(S)
  PROVE  s \in Seq(T)
OBVIOUS

LEMMA WitnessType ==
  ASSUME TypeOK, NEW k \in Key, NEW reg \in Register, Witness(k, reg)
  PROVE  /\ get' \in [Reader -> Call]
         /\ \A r \in Reader : get'[r].at # "idle" => get'[r].key \in Key
<1>1. ASSUME NEW r \in Reader
      PROVE  get'[r] \in Call /\ (get'[r].at # "idle" => get'[r].key \in Key)
  <2>1. get[r] \in Call /\ (get[r].at # "idle" => get[r].key \in Key)
    BY DEF TypeOK
  <2>2. CASE get[r].at # "idle" /\ get[r].key = k
    <3>1. get'[r] = [get[r] EXCEPT !.allowed = @ \cup {reg}]
      BY <2>2 DEF Witness
    <3> QED BY <2>1, <3>1 DEF Call
  <2>3. CASE ~(get[r].at # "idle" /\ get[r].key = k)
    BY <2>1, <2>3 DEF Witness
  <2> QED BY <2>2, <2>3
<1>2. get' = [r \in Reader |-> get'[r]]
  BY DEF Witness
<1> QED BY <1>1, <1>2

LEMMA TypeInsert ==
  ASSUME TypeOK, NEW k \in Key, NEW reg \in Register, Insert(k, reg),
         localClock' \in Clock
  PROVE  TypeOK'
<1>1. tables' \in Seq(Content) /\ Len(tables') = Len(tables) /\ tables' # <<>>
  <2>1. Len(tables) \in 1..Len(tables) /\ tables[Len(tables)] \in Content
    BY DEF TypeOK
  <2>2. [tables[Len(tables)] EXCEPT ![k] = reg] \in Content
    BY <2>1 DEF Content
  <2>3. tables' = [tables EXCEPT ![Len(tables)] =
                     [tables[Len(tables)] EXCEPT ![k] = reg]]
    BY DEF Insert
  <2>4. tables' \in Seq(Content) /\ Len(tables') = Len(tables)
    BY <2>1, <2>2, <2>3 DEF TypeOK
  <2> QED BY <2>1, <2>4
<1>2. pending' \in Record /\ mutex' = "log" /\ used' \in Nat /\ puts' \in Nat
  BY DEF Insert, Record, TypeOK
<1>3. /\ get' \in [Reader -> Call]
      /\ \A r \in Reader : get'[r].at # "idle" => get'[r].key \in Key
  BY WitnessType DEF Insert
<1> QED BY <1>1, <1>2, <1>3
        DEF TypeOK, Insert, fileVars, walVars, workVars, history, Files, Names,
            Entry, Task

LEMMA TypePut ==
  ASSUME TypeOK, NEW k \in Key, NEW v \in Written[k], Put(k, v)
  PROVE  TypeOK'
<1> DEFINE c == Increment(localClock, Self)
<1>1. c \in Clock
  BY EngineAssumption, ClockType DEF TypeOK
<1>2. v \in Value
  BY EngineAssumption
<1>3. [value |-> v, clock |-> c] \in Register
  BY <1>1, <1>2 DEF Register
<1>4. localClock' = c /\ Insert(k, [value |-> v, clock |-> c])
  BY DEF Put
<1> QED BY <1>1, <1>3, <1>4, TypeInsert

\* What get_crdt finds when nothing changes under it is a register.
LEMMA GetResultsType ==
  ASSUME TypeOK, NEW k \in Key, NEW reg \in GetResults(k)
  PROVE  reg \in Register \cup {NoReg}
<1> DEFINE T == 1..linked \cup {Len(tables)}
           inMemory == Newest(tables, T, k)
<1>1. tables \in Seq(Content) /\ T \in SUBSET (1..Len(tables))
  BY DEF TypeOK
<1>2. inMemory \in Register \cup {NoReg}
  BY <1>1, NewestType
<1>3. layout \in [Level -> SUBSET Files]
  BY DEF TypeOK
<1>4. \A f \in FileVersions(layout, k) : f \in Register \cup {NoReg}
  BY <1>3, FileVersionsType
<1> HIDE DEF inMemory
<1>5. \/ reg = Visible(inMemory)
      \/ \E f \in FileVersions(layout, k) : reg = Visible(f)
  BY Zenon DEF GetResults, inMemory
<1> QED BY <1>2, <1>4, <1>5, VisibleType

LEMMA TypePutCrdt ==
  ASSUME TypeOK, NEW k \in Key, NEW incoming \in Incoming[k],
         PutCrdt(k, incoming)
  PROVE  TypeOK'
<1>1. incoming \in Register
  BY EngineAssumption
<1>2. localClock' \in Clock
  BY <1>1, ClockType DEF PutCrdt, TypeOK, Register
<1>3. PICK existing \in GetResults(k) :
        Insert(k, IF existing = NoReg THEN incoming ELSE Merge(incoming, existing))
  BY DEF PutCrdt
<1>4. existing \in Register \cup {NoReg}
  BY GetResultsType
<1>5. (IF existing = NoReg THEN incoming ELSE Merge(incoming, existing)) \in Register
  BY <1>1, <1>4, MergeType
<1> QED BY <1>2, <1>3, <1>5, TypeInsert

LEMMA TypeAppendLog == TypeOK /\ AppendLog => TypeOK'
<1> SUFFICES ASSUME TypeOK, AppendLog PROVE TypeOK'
  OBVIOUS
<1>1. pending \in Record /\ pending.key \in Key /\ pending.reg \in Register
  BY DEF TypeOK, AppendLog, Record
<1>2. wal' \in Seq(Record \cup {Torn}) /\ synced' \in 0..Len(wal')
  <2>1. wal \in Seq(Record \cup {Torn}) /\ synced \in 0..Len(wal)
    BY DEF TypeOK
  <2>2. wal' = Append(wal, pending) /\ (synced' = Len(wal') \/ synced' = synced)
    BY DEF AppendLog
  <2> QED BY <1>1, <2>1, <2>2
<1>3. /\ mutex' \in {"free", "swap"}
      /\ pending' \in Record \cup {NoPut}
      /\ mutex' = "swap" => pending' \in Record
      /\ acked' \in Content /\ unsettled' \in [Key -> SUBSET (Register \cup {NoReg})]
  BY <1>1 DEF AppendLog, FinishPut, Settled, history, TypeOK, Content
<1> QED BY <1>2, <1>3
        DEF TypeOK, AppendLog, memVars, fileVars, workVars, bounds, history, Files, Names, Entry, Task

LEMMA TypeSwapActive == TypeOK /\ SwapActive => TypeOK'
<1> SUFFICES ASSUME TypeOK, SwapActive PROVE TypeOK'
  OBVIOUS
<1>1. /\ tables' \in Seq(Content) /\ tables' # <<>>
      /\ linked' \in 0..(Len(tables') - 1)
  <2>1. /\ tables \in Seq(Content) /\ linked \in 0..(Len(tables) - 1)
        /\ tables' = Append(tables, Nothing) /\ linked' = linked
    BY DEF SwapActive, TypeOK
  <2>2. tables' \in Seq(Content) /\ Len(tables') = Len(tables) + 1
    BY <2>1, NothingType
  <2> QED BY <2>1, <2>2
<1>2. /\ get' \in [Reader -> Call]
      /\ \A r \in Reader : get'[r].at # "idle" => get'[r].key \in Key
  <2>1. ASSUME NEW r \in Reader
        PROVE  get'[r] \in Call /\ (get'[r].at # "idle" => get'[r].key \in Key)
    <3>1. get[r] \in Call /\ (get[r].at # "idle" => get[r].key \in Key)
      BY DEF TypeOK
    <3>2. \/ get'[r] = [get[r] EXCEPT !.rotated = TRUE]
          \/ get'[r] = get[r]
      BY DEF SwapActive
    <3> QED BY <3>1, <3>2 DEF Call
  <2>2. get' = [r \in Reader |-> get'[r]]
    BY DEF SwapActive
  <2> QED BY <2>1, <2>2
<1>3. mutex' = "link" /\ pending' \in Record /\ used' \in Nat
  BY DEF SwapActive, TypeOK
<1> QED BY <1>1, <1>2, <1>3
        DEF TypeOK, SwapActive, fileVars, walVars, workVars, bounds, history, Files, Names, Entry, Task

LEMMA TypeLinkFrozen == TypeOK /\ LinkFrozen => TypeOK'
<1> SUFFICES ASSUME TypeOK, LinkFrozen PROVE TypeOK'
  OBVIOUS
<1>1. linked' \in 0..(Len(tables') - 1) /\ flushed' \in SUBSET (1..linked')
  BY DEF LinkFrozen, TypeOK
<1>2. pending \in Record /\ pending.key \in Key /\ pending.reg \in Register
  BY DEF TypeOK, LinkFrozen, Record
<1>3. /\ mutex' = "free" /\ pending' = NoPut /\ acked' \in Content
      /\ unsettled' \in [Key -> SUBSET (Register \cup {NoReg})]
  BY <1>2 DEF LinkFrozen, FinishPut, Settled, TypeOK, Content
<1> QED BY <1>1, <1>3
        DEF TypeOK, LinkFrozen, fileVars, walVars, workVars, bounds, history, Files, Names, Entry, Task

-----------------------------------------------------------------------------
(* Type correctness of the worker. *)

\* What was a file still is one when another is written.
LEMMA MoreFiles ==
  ASSUME TypeOK, NEW c \in Content, files' = Append(files, c)
  PROVE  /\ files' \in Seq(Content)
         /\ Len(files') = Len(files) + 1 /\ Len(files') \in Files'
         /\ Files \subseteq Files' /\ Files' \subseteq Names'
         /\ layout \in [Level -> SUBSET Files']
         /\ levelFiles \in [Level -> SUBSET Names']
         /\ manifest \in Seq(Entry')
         /\ opened \in SUBSET Files'
         /\ task \in Task => task \in Task'
<1>1. /\ files' \in Seq(Content)
      /\ Len(files) \in Nat /\ Len(files') = Len(files) + 1
  BY DEF TypeOK
<1>2. /\ Len(files') \in Files' /\ Files \subseteq Files'
      /\ Files' \subseteq Names' /\ Names \subseteq Names'
  BY <1>1 DEF Files, Names
<1>3. manifest \in Seq(Entry')
  <2>1. Entry \subseteq Entry'
    BY <1>2 DEF Entry
  <2>2. manifest \in Seq(Entry)
    BY DEF TypeOK
  <2> QED BY <2>1, <2>2, SeqMonotone
<1>4. task \in Task => task \in Task'
  BY <1>2 DEF Task
<1> QED BY <1>1, <1>2, <1>3, <1>4 DEF TypeOK

LEMMA FilesAreNames == Files \subseteq Names
BY DEF Files, Names

LEMMA ZeroIsLevel == 0 \in Level
BY EngineAssumption DEF Level

LEMMA TypeStartFlush == TypeOK /\ StartFlush => TypeOK'
BY DEF TypeOK, StartFlush, memVars, fileVars, walVars, workVars, bounds, history,
       Files, Names, Entry, Task

LEMMA TypeFlushTable == TypeOK /\ FlushTable => TypeOK'
<1> SUFFICES ASSUME TypeOK, FlushTable PROVE TypeOK'
  OBVIOUS
<1> DEFINE f == Len(files) + 1
<1>1. PICK i \in Unflushed, ok \in BOOLEAN :
        /\ files' = Append(files, tables[i])
        /\ levelFiles' = [levelFiles EXCEPT ![0] = @ \cup {f}]
        /\ manifest' = Append(manifest, <<0, f>>)
        /\ opened' = IF ok THEN opened \cup {f} ELSE opened
        /\ MayOpen(ok)
        /\ flushed' = flushed \cup {i}
  BY DEF FlushTable
<1>2. i \in 1..linked /\ tables[i] \in Content
  BY DEF Unflushed, TypeOK
<1>3. /\ files' \in Seq(Content)
      /\ f \in Files' /\ Files \subseteq Files' /\ f \in Names'
      /\ layout \in [Level -> SUBSET Files']
      /\ levelFiles \in [Level -> SUBSET Names']
      /\ manifest \in Seq(Entry')
      /\ opened \in SUBSET Files'
      /\ task \in Task => task \in Task'
  BY <1>1, <1>2, MoreFiles
<1> HIDE DEF f
<1>4. levelFiles' \in [Level -> SUBSET Names'] /\ opened' \in SUBSET Files'
  BY <1>1, <1>3
<1>5. manifest' \in Seq(Entry')
  <2>1. <<0, f>> \in Entry'
    BY <1>3, ZeroIsLevel DEF Entry
  <2> QED BY <1>1, <1>3, <2>1
<1>6. flushed' \in SUBSET (1..linked) /\ failures' \in Nat
  BY <1>1, <1>2 DEF TypeOK, MayOpen
<1>7. task' \in Task' \cup {NoTask} /\ (worker' \in {"execute", "apply"} => task' \in Task')
  BY <1>3 DEF TypeOK, FlushTable
<1> QED BY <1>3, <1>4, <1>5, <1>6, <1>7
        DEF TypeOK, FlushTable, walVars, putVars, history

LEMMA TypePublishFlush == TypeOK /\ PublishFlush => TypeOK'
<1> SUFFICES ASSUME TypeOK, PublishFlush PROVE TypeOK'
  OBVIOUS
<1>1. layout' \in [Level -> SUBSET Files] /\ opened' = {}
  BY DEF PublishFlush, TypeOK
<1> QED BY <1>1
        DEF TypeOK, PublishFlush, memVars, walVars, bounds, history, Files, Names, Entry, Task

LEMMA TypeNothingToFlush == TypeOK /\ NothingToFlush => TypeOK'
BY DEF TypeOK, NothingToFlush, memVars, fileVars, walVars, putVars, bounds, history,
       Files, Names, Entry, Task

LEMMA TypePlanCompaction == TypeOK /\ PlanCompaction => TypeOK'
<1> SUFFICES ASSUME TypeOK, PlanCompaction PROVE TypeOK'
  OBVIOUS
<1>1. /\ worker' \in {"execute", "flush"}
      /\ task' \in Task \cup {NoTask}
      /\ worker' = "execute" => task' \in Task
  <2>1. CASE \E l \in Level : Full(l)
    <3>1. PICK l \in Level :
            /\ Full(l)
            /\ task' = [level |-> l, names |-> levelFiles[l],
                        inputs |-> layout[l], output |-> {}]
      BY <2>1 DEF PlanCompaction
    <3>2. l \in 0..(NumLevels - 2)
      BY <3>1, EngineAssumption DEF Full, Level
    <3>3. task' \in Task
      BY <3>1, <3>2 DEF Task, TypeOK
    <3> QED BY <2>1, <3>3 DEF PlanCompaction
  <2>2. CASE ~\E l \in Level : Full(l)
    BY <2>2 DEF PlanCompaction, TypeOK
  <2> QED BY <2>1, <2>2
<1> QED BY <1>1
        DEF TypeOK, PlanCompaction, memVars, fileVars, walVars, putVars, bounds, history,
            Files, Names, Entry, Task

\* A listing of files is a sequence of them.
LEMMA ListingIsSeq ==
  ASSUME TypeOK, NEW F \in SUBSET Files, NEW s \in Listings(F)
  PROVE  s \in Seq(F)
<1>1. Len(files) \in Nat
  BY DEF TypeOK
<1>2. IsFiniteSet(Files)
  BY <1>1, FS_Interval DEF Files
<1>3. IsFiniteSet(F)
  BY <1>2, FS_Subset
<1>4. Cardinality(F) \in Nat
  BY <1>3, FS_CardinalityType
<1>5. s \in [1..Cardinality(F) -> F]
  BY DEF Listings
<1> QED BY <1>4, <1>5

\* And it lists every one of them: nothing is left out of a compaction.
LEMMA ListingIsAll ==
  ASSUME TypeOK, NEW F \in SUBSET Files, NEW s \in Listings(F), NEW f \in F
  PROVE  \E i \in 1..Len(s) : s[i] = f
<1> DEFINE n == Cardinality(F)
<1>1. IsFiniteSet(F) /\ n \in Nat
  <2>1. Len(files) \in Nat
    BY DEF TypeOK
  <2>2. IsFiniteSet(Files)
    BY <2>1, FS_Interval DEF Files
  <2> QED BY <2>2, FS_Subset, FS_CardinalityType
<1>2. /\ s \in [1..n -> F]
      /\ \A i \in 1..n, j \in 1..n : i < j => s[i] # s[j]
  BY DEF Listings
<1>3. Cardinality(1..n) = n
  BY <1>1, FS_Interval
<1>4. s \in Injection(1..n, F)
  <2>1. \A i \in 1..n, j \in 1..n : s[i] = s[j] => i = j
    BY <1>1, <1>2
  <2> QED BY <1>2, <2>1 DEF Injection, IsInjective
<1>5. s \in Surjection(1..n, F)
  BY <1>1, <1>3, <1>4, FS_Injection
<1>6. \E i \in 1..n : s[i] = f
  BY <1>5 DEF Surjection
<1>7. Len(s) = n
  BY <1>1, <1>2
<1> QED BY <1>6, <1>7

LEMMA TypeExecuteCompaction == TypeOK /\ ExecuteCompaction => TypeOK'
<1> SUFFICES ASSUME TypeOK, ExecuteCompaction PROVE TypeOK'
  OBVIOUS
<1>1. task \in Task /\ task.inputs \in SUBSET Files
  BY DEF ExecuteCompaction, TypeOK, Task
<1>2. CASE task.inputs = {}
  BY <1>1, <1>2
     DEF TypeOK, ExecuteCompaction, memVars, walVars, putVars, history, Files,
         Names, Entry, Task
<1>3. CASE task.inputs # {}
  <2>1. PICK s \in Listings(task.inputs), ok \in BOOLEAN :
          /\ files' = Append(files, [k \in Key |-> Folded(s, k)])
          /\ task' = IF ok THEN [task EXCEPT !.output = {Len(files')}] ELSE task
          /\ MayOpen(ok)
    BY <1>3 DEF ExecuteCompaction
  <2>2. s \in Seq(task.inputs)
    BY <1>1, ListingIsSeq
  <2>3. [k \in Key |-> Folded(s, k)] \in Content
    <3>1. \A k \in Key : Folded(s, k) \in Register \cup {NoReg}
      BY <1>1, <2>2, FoldedFound
    <3> QED BY <3>1 DEF Content
  <2>4. /\ files' \in Seq(Content)
        /\ Len(files') \in Files'
        /\ layout \in [Level -> SUBSET Files']
        /\ levelFiles \in [Level -> SUBSET Names']
        /\ manifest \in Seq(Entry')
        /\ opened \in SUBSET Files'
        /\ task \in Task'
    BY <1>1, <2>1, <2>3, MoreFiles
  <2>5. task' \in Task'
    BY <2>1, <2>4 DEF Task
  <2>6. failures' \in Nat
    BY <2>1 DEF MayOpen, TypeOK
  <2> QED BY <2>4, <2>5, <2>6
          DEF TypeOK, ExecuteCompaction, memVars, walVars, putVars, history
<1> QED BY <1>2, <1>3

LEMMA TypeApplyCompaction == TypeOK /\ ApplyCompaction => TypeOK'
<1> SUFFICES ASSUME TypeOK, ApplyCompaction PROVE TypeOK'
  OBVIOUS
<1> DEFINE l == task.level
<1>1. /\ l \in Level /\ l + 1 \in Level
      /\ task.names \in SUBSET Names /\ task.inputs \in SUBSET Files
      /\ task.output \in SUBSET Files
  <2>1. task \in Task
    BY DEF ApplyCompaction, TypeOK
  <2>2. NumLevels \in Nat
    BY EngineAssumption
  <2> QED BY <2>1, <2>2 DEF Task, Level
<1>2. levelFiles' \in [Level -> SUBSET Names] /\ layout' \in [Level -> SUBSET Files]
  BY <1>1, FilesAreNames DEF ApplyCompaction, TypeOK
<1>3. manifest' \in Seq(Entry)
  <2>1. manifest \in Seq(Entry) /\ Len(files) \in Nat
    BY DEF TypeOK
  <2>2. Del \in Entry
    BY DEF Entry
  <2>3. CASE task.output = {}
    BY <2>1, <2>2, <2>3 DEF ApplyCompaction
  <2>4. CASE task.output # {}
    <3>1. Len(files) \in Names
      BY <2>1 DEF Names
    <3>2. <<l + 1, Len(files)>> \in Entry
      BY <1>1, <3>1 DEF Entry
    <3>3. <<<<l + 1, Len(files)>>, Del>> \in Seq(Entry)
      BY <2>2, <3>2
    <3>4. manifest' = manifest \o <<<<l + 1, Len(files)>>, Del>>
      BY <2>4 DEF ApplyCompaction
    <3> QED BY <2>1, <3>3, <3>4
  <2> QED BY <2>3, <2>4
<1> QED BY <1>2, <1>3
        DEF TypeOK, ApplyCompaction, memVars, walVars, putVars, bounds, history, Files, Names, Entry, Task

-----------------------------------------------------------------------------
(* Type correctness of the readers. *)

\* A step of one call of a reader.
LEMMA TypeReader ==
  ASSUME TypeOK, NEW r \in Reader, NEW call \in Call,
         call.at # "idle" => call.key \in Key,
         get' = [get EXCEPT ![r] = call],
         UNCHANGED <<memVars, fileVars, walVars, putVars, workVars, history, bounds>>
  PROVE  TypeOK'
<1>1. /\ get' \in [Reader -> Call]
      /\ \A q \in Reader : get'[q].at # "idle" => get'[q].key \in Key
  BY DEF TypeOK
<1> QED BY <1>1
        DEF TypeOK, memVars, fileVars, walVars, putVars, workVars, bounds, history,
            Files, Names, Entry, Task

LEMMA TypeGetActive ==
  ASSUME TypeOK, NEW r \in Reader, NEW k \in Key, GetActive(r, k)
  PROVE  TypeOK'
<1> DEFINE reg == tables[Len(tables)][k]
           call(at, found) ==
             [at |-> at, key |-> k,
              allowed |-> {acked[k]} \cup
                            (IF pending # NoPut /\ pending.key = k
                             THEN {pending.reg} ELSE {}),
              rotated |-> mutex = "link", found |-> found]
<1>1. reg \in Register \cup {NoReg}
  BY DEF TypeOK, Content
<1>2. {acked[k]} \cup (IF pending # NoPut /\ pending.key = k
                       THEN {pending.reg} ELSE {})
        \in SUBSET (Register \cup {NoReg})
  <2>1. acked[k] \in Register \cup {NoReg}
    BY DEF TypeOK, Content
  <2>2. pending # NoPut => pending.reg \in Register
    BY DEF TypeOK, Record
  <2> QED BY <2>1, <2>2
<1>3. \A found \in Register \cup {NoReg} :
        call("done", found) \in Call /\ call("immutable", found) \in Call
  BY <1>2 DEF Call
<1>4. \/ get' = [get EXCEPT ![r] = call("done", Visible(reg))]
      \/ get' = [get EXCEPT ![r] = call("immutable", NoReg)]
  BY DEF GetActive, BeginGet
<1>5. Visible(reg) \in Register \cup {NoReg} /\ NoReg \in Register \cup {NoReg}
  BY <1>1, VisibleType
<1>6. PICK at \in {"done", "immutable"}, found \in Register \cup {NoReg} :
        get' = [get EXCEPT ![r] = call(at, found)]
  BY <1>4, <1>5
<1>7. call(at, found) \in Call /\ call(at, found).key = k
  BY <1>3
<1> HIDE DEF call
<1> QED BY <1>6, <1>7, TypeReader DEF GetActive

LEMMA TypeGetImmutable ==
  ASSUME TypeOK, NEW r \in Reader, GetImmutable(r)
  PROVE  TypeOK'
<1> DEFINE reg == Newest(tables, 1..linked, get[r].key)
<1>1. get[r] \in Call /\ get[r].key \in Key
  BY DEF TypeOK, GetImmutable
<1>2. tables \in Seq(Content) /\ 1..linked \in SUBSET (1..Len(tables))
  BY DEF TypeOK
<1>3. Visible(reg) \in Register \cup {NoReg}
  BY <1>1, <1>2, NewestType, VisibleType
<1> HIDE DEF reg
<1>4. \/ get' = [get EXCEPT ![r] = [get[r] EXCEPT !.at = "done",
                                                  !.found = Visible(reg)]]
      \/ get' = [get EXCEPT ![r] = [get[r] EXCEPT !.at = "files"]]
  BY DEF GetImmutable, reg, TypeOK
<1>5. /\ [get[r] EXCEPT !.at = "done", !.found = Visible(reg)] \in Call
      /\ [get[r] EXCEPT !.at = "done", !.found = Visible(reg)].key \in Key
      /\ [get[r] EXCEPT !.at = "files"] \in Call
      /\ [get[r] EXCEPT !.at = "files"].key \in Key
  BY <1>1, <1>3 DEF Call
<1> QED BY <1>4, <1>5, TypeReader DEF GetImmutable

LEMMA TypeGetFiles ==
  ASSUME TypeOK, NEW r \in Reader, GetFiles(r)
  PROVE  TypeOK'
<1>1. get[r] \in Call /\ get[r].key \in Key /\ layout \in [Level -> SUBSET Files]
  BY DEF TypeOK, GetFiles
<1>2. PICK reg \in FileVersions(layout, get[r].key) :
        get' = [get EXCEPT ![r].at = "done", ![r].found = Visible(reg)]
  BY DEF GetFiles
<1>3. Visible(reg) \in Register \cup {NoReg}
  BY <1>1, FileVersionsType, VisibleType
<1>4. get' = [get EXCEPT ![r] = [get[r] EXCEPT !.at = "done",
                                               !.found = Visible(reg)]]
  BY <1>2 DEF TypeOK
<1>5. /\ [get[r] EXCEPT !.at = "done", !.found = Visible(reg)] \in Call
      /\ [get[r] EXCEPT !.at = "done", !.found = Visible(reg)].key \in Key
  BY <1>1, <1>3 DEF Call
<1> QED BY <1>4, <1>5, TypeReader DEF GetFiles

LEMMA IdleGetType == IdleGet \in Call /\ IdleGet.at = "idle"
BY DEF IdleGet, Call

LEMMA TypeEndGet ==
  ASSUME TypeOK, NEW r \in Reader, EndGet(r)
  PROVE  TypeOK'
BY IdleGetType, TypeReader DEF EndGet

-----------------------------------------------------------------------------
(* Type correctness of a crash. *)

LEMMA ParsedType ==
  ASSUME NEW reg \in Register
  PROVE  Parsed(reg) \in Register
<1>1. ZeroClock \in Clock /\ Garbage \in Value
  BY EngineAssumption, ClockType
<1> QED BY <1>1 DEF Parsed, Register

\* A record that is read back is a record, and the last one of its key
\* exists.
LEMMA ReplayIs ==
  ASSUME NEW w \in Seq(Record \cup {Torn}), NEW k \in Key
  PROVE  \/ /\ Replay(w)[k] = NoReg
            /\ \A i \in 1..Len(w) : ~(Readable(w, i) /\ w[i].key = k)
         \/ \E i \in 1..Len(w) :
              /\ Readable(w, i) /\ w[i] \in Record /\ w[i].key = k
              /\ \A j \in 1..Len(w) : j > i => ~(Readable(w, j) /\ w[j].key = k)
              /\ Replay(w)[k] = Parsed(w[i].reg)
<1> DEFINE at == {i \in DOMAIN w : Readable(w, i) /\ w[i].key = k}
           last == CHOOSE i \in at : \A j \in at : j <= i
<1>1. Replay(w)[k] = IF at = {} THEN NoReg ELSE Parsed(w[last].reg)
  BY DEF Replay
<1>2. DOMAIN w = 1..Len(w) /\ Len(w) \in Nat
  OBVIOUS
<1>3. CASE at = {}
  BY <1>1, <1>2, <1>3
<1>4. CASE at # {}
  <2>1. at \in SUBSET (0..Len(w))
    <3>1. \A i \in 1..Len(w) : i \in 0..Len(w)
      BY <1>2
    <3> QED BY <1>2, <3>1
  <2>2. \E i \in at : \A j \in at : j <= i
    BY <1>2, <1>4, <2>1, GreatestExists
  <2>3. last \in at /\ \A j \in at : j <= last
    BY <2>2
  <2> HIDE DEF last
  <2>4. w[last] \in Record
    BY <1>2, <2>3 DEF Readable
  <2> QED BY <1>1, <1>2, <1>4, <2>3, <2>4
<1> QED BY <1>3, <1>4

LEMMA ReplayType ==
  ASSUME NEW w \in Seq(Record \cup {Torn})
  PROVE  Replay(w) \in Content
<1>1. ASSUME NEW k \in Key PROVE Replay(w)[k] \in Register \cup {NoReg}
  <2>1. CASE Replay(w)[k] = NoReg
    BY <2>1
  <2>2. CASE \E i \in 1..Len(w) : w[i] \in Record /\ Replay(w)[k] = Parsed(w[i].reg)
    BY <2>2, ParsedType DEF Record
  <2> QED BY <2>1, <2>2, ReplayIs
<1>2. Replay(w) = [k \in Key |-> Replay(w)[k]]
  BY DEF Replay
<1> QED BY <1>1, <1>2 DEF Content

LEMMA LoadedType ==
  ASSUME NEW m \in Seq(Entry)
  PROVE  /\ Loaded(m) \in [Level -> SUBSET Names]
         /\ Opened(m) \in [Level -> SUBSET Files]
<1>1. ASSUME NEW i \in DOMAIN m, Parses(m, i) PROVE m[i][2] \in Names
  <2>1. m[i] \in Level \X Names
    BY <1>1 DEF Parses, Entry
  <2> QED BY <2>1
<1>2. Loaded(m) \in [Level -> SUBSET Names]
  BY <1>1 DEF Loaded
<1>3. Names \ {0} \subseteq Files
  BY DEF Names, Files
<1> QED BY <1>2, <1>3 DEF Opened

\* What comes back after a crash is the log's version of a key, or else one
\* of the files'.
LEMMA RecoveredIs ==
  ASSUME TypeOK, NEW w \in Seq(Record \cup {Torn}), NEW m \in Seq(Entry),
         NEW a \in Recovered(w, m)
  PROVE  /\ a \in Content
         /\ \A k \in Key : \/ a[k] = Replay(w)[k]
                           \/ /\ Replay(w)[k] = NoReg
                              /\ a[k] \in FileVersions(Opened(m), k)
<1>1. Opened(m) \in [Level -> SUBSET Files]
  BY LoadedType
<1>2. ASSUME NEW k \in Key
      PROVE  \/ a[k] = Replay(w)[k]
             \/ /\ Replay(w)[k] = NoReg
                /\ a[k] \in FileVersions(Opened(m), k)
  BY DEF Recovered
<1>3. ASSUME NEW k \in Key PROVE a[k] \in Register \cup {NoReg}
  <2>1. Replay(w)[k] \in Register \cup {NoReg}
    BY ReplayType DEF Content
  <2>2. FileVersions(Opened(m), k) \subseteq Register \cup {NoReg}
    BY <1>1, FileVersionsType
  <2> QED BY <1>2, <2>1, <2>2
<1>4. a = [k \in Key |-> a[k]]
  BY DEF Recovered
<1> QED BY <1>2, <1>3, <1>4 DEF Content

LEMMA TypeRecover ==
  ASSUME TypeOK, NEW w \in Seq(Record \cup {Torn}), NEW s \in 0..Len(w),
         NEW m \in Seq(Entry), Recover(w, s, m),
         unsettled' \in [Key -> SUBSET (Register \cup {NoReg})],
         kills' \in Nat, powerLosses' \in Nat
  PROVE  TypeOK'
<1>1. tables' \in Seq(Content) /\ tables' # <<>> /\ Len(tables') = 1
  BY ReplayType DEF Recover
<1>2. used' \in Nat
  <2>1. IsFiniteSet(DOMAIN w)
    BY FS_Interval
  <2>2. IsFiniteSet({i \in DOMAIN w : Readable(w, i)})
    BY <2>1, FS_Subset
  <2> QED BY <2>2, FS_CardinalityType DEF Recover
<1>3. layout' \in [Level -> SUBSET Files] /\ levelFiles' \in [Level -> SUBSET Names]
  BY LoadedType DEF Recover
<1>4. /\ get' \in [Reader -> Call]
      /\ \A r \in Reader : get'[r].at # "idle" => get'[r].key \in Key
  BY IdleGetType DEF Recover
<1>5. acked' \in Content /\ localClock' \in Clock
  BY RecoveredIs, ClockType DEF Recover
<1>6. synced' \in 0..Len(wal')
  BY DEF Recover
<1> QED BY <1>1, <1>2, <1>3, <1>4, <1>5, <1>6 DEF TypeOK, Recover, Files, Names, Entry, Task

LEMMA LogsType ==
  ASSUME TypeOK, NEW w \in Logs
  PROVE  w \in Seq(Record \cup {Torn}) /\ synced \in 0..Len(w)
<1>1. wal \in Seq(Record \cup {Torn}) /\ synced \in 0..Len(wal)
  BY DEF TypeOK
<1>2. CASE w = wal
  BY <1>1, <1>2
<1>3. CASE mutex = "log" /\ w = Append(wal, pending)
  <2>1. pending \in Record \cup {Torn}
    BY <1>3 DEF TypeOK
  <2> QED BY <1>1, <1>3, <2>1
<1> QED BY <1>2, <1>3 DEF Logs

LEMMA TypeKill == TypeOK /\ Kill => TypeOK'
<1> SUFFICES ASSUME TypeOK, Kill PROVE TypeOK'
  OBVIOUS
<1>1. PICK w \in Logs : Recover(w, synced, manifest)
  BY DEF Kill
<1>2. /\ w \in Seq(Record \cup {Torn}) /\ synced \in 0..Len(w)
      /\ manifest \in Seq(Entry)
  BY LogsType DEF TypeOK
<1>3. kills' \in Nat /\ powerLosses' \in Nat
  BY DEF Kill, TypeOK
<1>4. unsettled' \in [Key -> SUBSET (Register \cup {NoReg})]
  BY DEF Kill, TypeOK, Content
<1> QED BY <1>1, <1>2, <1>3, <1>4, TypeRecover

LEMMA ManifestsType ==
  ASSUME TypeOK, NEW m \in Manifests
  PROVE  m \in Seq(Entry)
<1>1. manifest \in Seq(Entry) /\ Len(manifest) \in Nat
  BY DEF TypeOK
<1>2. CASE \E n \in 0..Len(manifest) : m = SubSeq(manifest, 1, n)
  BY <1>1, <1>2
<1>3. CASE \E n \in 1..Len(manifest) : \E e \in Remains(manifest[n]) :
             m = Append(SubSeq(manifest, 1, n - 1), e)
  <2>0. PICK n \in 1..Len(manifest) : \E e \in Remains(manifest[n]) :
          m = Append(SubSeq(manifest, 1, n - 1), e)
    BY <1>3
  <2>1. PICK e \in Remains(manifest[n]) : m = Append(SubSeq(manifest, 1, n - 1), e)
    BY <2>0
  <2>2. manifest[n] \in Entry
    BY <1>1
  <2>3. e \in Entry
    <3>1. CASE e = Torn
      BY <3>1 DEF Entry
    <3>2. CASE manifest[n] \notin {Torn, Del} /\ e = <<manifest[n][1], 0>>
      <4>1. manifest[n][1] \in Level
        BY <2>2, <3>2 DEF Entry
      <4>2. 0 \in Names
        BY DEF Names, TypeOK
      <4> QED BY <3>2, <4>1, <4>2 DEF Entry
    <3> QED BY <2>1, <3>1, <3>2 DEF Remains
  <2>4. SubSeq(manifest, 1, n - 1) \in Seq(Entry)
    BY <1>1
  <2> QED BY <2>1, <2>3, <2>4
<1>4. \/ \E n \in 0..Len(manifest) : m = SubSeq(manifest, 1, n)
      \/ \E n \in 1..Len(manifest) : \E e \in Remains(manifest[n]) :
           m = Append(SubSeq(manifest, 1, n - 1), e)
  BY DEF Manifests
<1> QED BY <1>2, <1>3, <1>4

\* What a loss of power leaves of a log.
Cut(v, keep, w) ==
  \/ w = SubSeq(v, 1, keep)
  \/ keep < Len(v) /\ w = Append(SubSeq(v, 1, keep), Torn)

LEMMA CutType ==
  ASSUME NEW v \in Seq(Record \cup {Torn}), NEW keep \in 0..Len(v), NEW w,
         Cut(v, keep, w)
  PROVE  /\ w \in Seq(Record \cup {Torn})
         /\ w = SubSeq(v, 1, keep) => Len(w) = keep
         /\ w = Append(SubSeq(v, 1, keep), Torn) => Len(w) = keep + 1
<1>1. SubSeq(v, 1, keep) \in Seq(Record \cup {Torn}) /\ Len(SubSeq(v, 1, keep)) = keep
  OBVIOUS
<1>2. Append(SubSeq(v, 1, keep), Torn) \in Seq(Record \cup {Torn})
  BY <1>1
<1>3. Len(Append(SubSeq(v, 1, keep), Torn)) = keep + 1
  BY <1>1
<1> QED BY <1>1, <1>2, <1>3 DEF Cut

LEMMA PowerLossIs ==
  ASSUME TypeOK, PowerLoss
  PROVE  \E v \in Logs, w \in Seq(Record \cup {Torn}), m \in Seq(Entry), n \in Nat :
           \E keep \in synced..Len(v) :
             /\ keep \in 0..Len(v) /\ Cut(v, keep, w)
             /\ n = Len(w) /\ Recover(w, n, m)
<1>1. PICK v \in Logs, m \in Manifests : \E keep \in synced..Len(v) :
        \/ Recover(SubSeq(v, 1, keep), keep, m)
        \/ keep < Len(v) /\ Recover(Append(SubSeq(v, 1, keep), Torn), keep + 1, m)
  BY DEF PowerLoss
<1>2. PICK keep \in synced..Len(v) :
        \/ Recover(SubSeq(v, 1, keep), keep, m)
        \/ keep < Len(v) /\ Recover(Append(SubSeq(v, 1, keep), Torn), keep + 1, m)
  BY <1>1
<1>3. v \in Seq(Record \cup {Torn}) /\ synced \in 0..Len(v) /\ keep \in 0..Len(v)
  BY <1>2, LogsType
<1>4. m \in Seq(Entry)
  BY ManifestsType
<1>5. PICK w, n : /\ Recover(w, n, m)
                  /\ \/ w = SubSeq(v, 1, keep) /\ n = keep
                     \/ keep < Len(v) /\ w = Append(SubSeq(v, 1, keep), Torn) /\ n = keep + 1
  BY <1>2
<1>6. Cut(v, keep, w)
  BY <1>5 DEF Cut
<1>7. w \in Seq(Record \cup {Torn}) /\ n = Len(w) /\ n \in Nat
  BY <1>3, <1>5, <1>6, CutType
<1>8. /\ v \in Logs /\ keep \in synced..Len(v) /\ keep \in 0..Len(v)
      /\ Recover(w, n, m)
  BY <1>1, <1>2, <1>3, <1>5
<1> QED BY <1>4, <1>6, <1>7, <1>8

LEMMA TypePowerLoss == TypeOK /\ PowerLoss => TypeOK'
<1> SUFFICES ASSUME TypeOK, PowerLoss PROVE TypeOK'
  OBVIOUS
<1>1. PICK w \in Seq(Record \cup {Torn}), m \in Seq(Entry), n \in Nat :
        n = Len(w) /\ Recover(w, n, m)
  BY PowerLossIs
<1>2. n \in 0..Len(w)
  BY <1>1
<1>3. kills' \in Nat /\ powerLosses' \in Nat
  BY DEF PowerLoss, TypeOK
<1>4. unsettled' \in [Key -> SUBSET (Register \cup {NoReg})]
  BY DEF PowerLoss, Settled
<1> QED BY <1>1, <1>2, <1>3, <1>4, TypeRecover

-----------------------------------------------------------------------------
(* Type correctness. *)

LEMMA TypeInit == Init => TypeOK
<1> SUFFICES ASSUME Init PROVE TypeOK
  OBVIOUS
<1>1. /\ tables \in Seq(Content) /\ tables # <<>> /\ Len(tables) = 1
      /\ acked \in Content
  BY NothingType DEF Init
<1>2. get \in [Reader -> Call] /\ \A r \in Reader : get[r].at = "idle"
  BY IdleGetType DEF Init
<1>3. localClock \in Clock
  BY ClockType DEF Init
<1> QED BY <1>1, <1>2, <1>3 DEF Init, TypeOK, Settled

LEMMA TypeStep == TypeOK /\ [Next]_vars => TypeOK'
<1> SUFFICES ASSUME TypeOK, [Next]_vars PROVE TypeOK'
  OBVIOUS
<1>1. CASE Write
  BY <1>1, TypePut, TypePutCrdt DEF Write
<1>2. CASE AppendLog \/ SwapActive \/ LinkFrozen
  BY <1>2, TypeAppendLog, TypeSwapActive, TypeLinkFrozen
<1>3. CASE Worker
  BY <1>3, TypeStartFlush, TypeFlushTable, TypePublishFlush,
     TypeNothingToFlush, TypePlanCompaction, TypeExecuteCompaction,
     TypeApplyCompaction DEF Worker
<1>4. ASSUME NEW r \in Reader, Get(r) PROVE TypeOK'
  BY <1>4, TypeGetActive, TypeGetImmutable, TypeGetFiles, TypeEndGet DEF Get
<1>5. CASE Kill \/ PowerLoss
  BY <1>5, TypeKill, TypePowerLoss
<1>6. CASE UNCHANGED vars
  BY <1>6
     DEF TypeOK, vars, memVars, fileVars, walVars, putVars, workVars, bounds, history,
         Files, Names, Entry, Task
<1> QED BY <1>1, <1>2, <1>3, <1>4, <1>5, <1>6 DEF Next, Writer

\* Every reachable state of the engine is well typed: among others, the
\* list never reaches the active memtable, only memtables in the list are
\* flushed, and every file that is named somewhere has been written.
THEOREM EngineTypeCorrect == Spec => []TypeOK
<1>1. Init => TypeOK
  BY TypeInit
<1>2. TypeOK /\ [Next]_vars => TypeOK'
  BY TypeStep
<1> QED BY <1>1, <1>2, PTL DEF Spec

-----------------------------------------------------------------------------
(* The memtables and the log.                                              *)
(*                                                                         *)
(* Two things take records out of the log: a loss of power, and the bytes  *)
(* of a clock that replay takes for a separator.  Without them the         *)
(* memtables and the log agree, whatever is flushed, compacted and killed; *)
(* with synced writes a loss of power only leaves the first bytes of a     *)
(* record behind, and hides the record that is appended to them.           *)

Memory(tabs, k) == Newest(tabs, 1..Len(tabs), k)

AllLines == NlCounters = {} /\ BarCounters = {} /\ MaxPowerLosses = 0

SyncedLines ==
  /\ NlCounters = {} /\ BarCounters = {}
  /\ SyncWrites \/ MaxPowerLosses = 0

LEMMA AllLinesAreSynced == AllLines => SyncedLines
BY DEF AllLines, SyncedLines

\* Shadowed in the log w.
Behind(w, k) ==
  \E i \in 2..Len(w) : w[i - 1] = Torn /\ w[i] # Torn /\ w[i].key = k

LEMMA ShadowedIs == \A k : Shadowed(k) <=> Behind(wal, k)
BY DEF Shadowed, Behind

LEMMA NoneBehind == \A w \in Seq(Record), k \in Key : ~Behind(w, k)
<1> SUFFICES ASSUME NEW w \in Seq(Record), NEW k \in Key, NEW i \in 2..Len(w),
                    w[i - 1] = Torn
             PROVE  FALSE
  BY DEF Behind
<1>1. i - 1 \in 1..Len(w)
  OBVIOUS
<1>2. w[i - 1] \in Record
  BY <1>1
<1> QED BY <1>2, EngineAssumption

\* Without separator bytes every record that does not follow a torn one is
\* read back as it is.
LEMMA ReadableIs ==
  ASSUME SyncedLines, NEW w \in Seq(Record \cup {Torn}), NEW i \in 1..Len(w),
         w[i] # Torn
  PROVE  /\ w[i] \in Record
         /\ Parsed(w[i].reg) = w[i].reg
         /\ Readable(w, i) <=> (i = 1 \/ w[i - 1] # Torn)
<1>1. w[i] \in Record
  OBVIOUS
<1>2. Framing(w[i].reg) = "whole"
  BY DEF Framing, SyncedLines
<1> QED BY <1>1, <1>2 DEF Readable, Parsed

\* A replay gives the last readable record of a key.
LEMMA ReplayLast ==
  ASSUME SyncedLines, NEW w \in Seq(Record \cup {Torn}), NEW k \in Key,
         NEW i \in 1..Len(w), Readable(w, i), w[i].key = k,
         \A j \in 1..Len(w) : j > i => ~(Readable(w, j) /\ w[j].key = k)
  PROVE  Replay(w)[k] = w[i].reg
<1>1. PICK m \in 1..Len(w) :
        /\ Readable(w, m) /\ w[m].key = k
        /\ \A j \in 1..Len(w) : j > m => ~(Readable(w, j) /\ w[j].key = k)
        /\ Replay(w)[k] = Parsed(w[m].reg)
  <2>1. ~\A j \in 1..Len(w) : ~(Readable(w, j) /\ w[j].key = k)
    OBVIOUS
  <2> QED BY <2>1, ReplayIs
<1>2. ~(m > i) /\ ~(i > m)
  BY <1>1
<1>3. m = i
  BY <1>2
<1>4. w[i] # Torn
  BY DEF Readable
<1> QED BY <1>1, <1>3, <1>4, ReadableIs

\* What is appended to a log changes nothing for the keys of which it has no
\* readable record.
LEMMA ReplayLonger ==
  ASSUME NEW w \in Seq(Record \cup {Torn}), NEW v \in Seq(Record \cup {Torn}),
         NEW k \in Key,
         Len(w) <= Len(v), \A i \in 1..Len(w) : v[i] = w[i],
         \A i \in 1..Len(v) : i > Len(w) => ~(Readable(v, i) /\ v[i].key = k)
  PROVE  Replay(v)[k] = Replay(w)[k]
<1>1. \A i \in 1..Len(w) : Readable(v, i) <=> Readable(w, i)
  <2> TAKE i \in 1..Len(w)
  <2>1. i = 1 \/ i - 1 \in 1..Len(w)
    OBVIOUS
  <2>2. i = 1 \/ v[i - 1] = w[i - 1]
    BY <2>1
  <2> QED BY <2>2 DEF Readable
<1>2. Len(w) \in Nat /\ Len(v) \in Nat /\ 1..Len(w) \subseteq 1..Len(v)
  OBVIOUS
<1>3. \A i \in 1..Len(v) :
        Readable(v, i) /\ v[i].key = k
          => i \in 1..Len(w) /\ Readable(w, i) /\ w[i].key = k /\ v[i] = w[i]
  BY <1>1, <1>2
<1>4. \A i \in 1..Len(w) :
        Readable(w, i) /\ w[i].key = k
          => i \in 1..Len(v) /\ Readable(v, i) /\ v[i].key = k
  BY <1>1, <1>2
<1>5. CASE \A i \in 1..Len(w) : ~(Readable(w, i) /\ w[i].key = k)
  <2>1. \A i \in 1..Len(v) : ~(Readable(v, i) /\ v[i].key = k)
    BY <1>3, <1>5
  <2>2. Replay(w)[k] = NoReg
    BY <1>5, ReplayIs
  <2>3. Replay(v)[k] = NoReg
    BY <2>1, ReplayIs
  <2> QED BY <2>2, <2>3
<1>6. CASE ~\A i \in 1..Len(w) : ~(Readable(w, i) /\ w[i].key = k)
  <2>1. PICK i \in 1..Len(w) :
          /\ Readable(w, i) /\ w[i].key = k
          /\ \A j \in 1..Len(w) : j > i => ~(Readable(w, j) /\ w[j].key = k)
          /\ Replay(w)[k] = Parsed(w[i].reg)
    BY <1>6, ReplayIs
  <2>2. ~\A j \in 1..Len(v) : ~(Readable(v, j) /\ v[j].key = k)
    BY <1>4, <2>1
  <2>3. PICK m \in 1..Len(v) :
          /\ Readable(v, m) /\ v[m].key = k
          /\ \A j \in 1..Len(v) : j > m => ~(Readable(v, j) /\ v[j].key = k)
          /\ Replay(v)[k] = Parsed(v[m].reg)
    BY <2>2, ReplayIs
  <2>4. ~(m > i) /\ ~(i > m)
    BY <1>3, <1>4, <2>1, <2>3
  <2>5. m = i /\ v[m] = w[i]
    BY <1>3, <2>3, <2>4
  <2> QED BY <2>1, <2>3, <2>5
<1> QED BY <1>5, <1>6

\* What a log gives for a key, a longer log does not lose.
LEMMA LongerLog ==
  ASSUME NEW w \in Seq(Record \cup {Torn}), NEW v \in Seq(Record \cup {Torn}),
         NEW k \in Key, Len(w) <= Len(v), \A i \in 1..Len(w) : v[i] = w[i]
  PROVE  /\ Behind(w, k) => Behind(v, k)
         /\ Replay(w)[k] # NoReg => Replay(v)[k] # NoReg
<1>1. /\ Len(w) \in Nat /\ Len(v) \in Nat
      /\ \A i \in 1..Len(w) : i \in 1..Len(v) /\ (i = 1 \/ i - 1 \in 1..Len(w))
  OBVIOUS
<1>2. ASSUME Behind(w, k) PROVE Behind(v, k)
  <2>1. PICK i \in 2..Len(w) : w[i - 1] = Torn /\ w[i] # Torn /\ w[i].key = k
    BY <1>2 DEF Behind
  <2>2. i \in 2..Len(v) /\ i \in 1..Len(w) /\ i - 1 \in 1..Len(w)
    BY <1>1
  <2>3. v[i - 1] = Torn /\ v[i] # Torn /\ v[i].key = k
    BY <2>1, <2>2
  <2> QED BY <2>2, <2>3 DEF Behind
<1>3. ASSUME Replay(w)[k] # NoReg PROVE Replay(v)[k] # NoReg
  <2>1. PICK i \in 1..Len(w) : Readable(w, i) /\ w[i].key = k
    BY <1>3, ReplayIs
  <2>2. i \in 1..Len(v) /\ v[i] = w[i] /\ (i = 1 \/ v[i - 1] = w[i - 1])
    BY <1>1
  <2>3. Readable(v, i) /\ v[i].key = k
    BY <2>1, <2>2 DEF Readable
  <2>4. PICK j \in 1..Len(v) : v[j] \in Record /\ Replay(v)[k] = Parsed(v[j].reg)
    BY <2>2, <2>3, ReplayIs
  <2>5. Parsed(v[j].reg) \in Register
    BY <2>4, ParsedType DEF Record
  <2> QED BY <2>4, <2>5, EngineAssumption
<1> QED BY <1>2, <1>3

\* A prefix of a log.
LEMMA PrefixIs ==
  ASSUME NEW v \in Seq(Record \cup {Torn}), NEW n \in 0..Len(v)
  PROVE  /\ SubSeq(v, 1, n) \in Seq(Record \cup {Torn})
         /\ Len(SubSeq(v, 1, n)) = n /\ n <= Len(v)
         /\ \A i \in 1..n : SubSeq(v, 1, n)[i] = v[i] /\ i \in 1..Len(v)
         /\ SubSeq(v, 1, Len(v)) = v
OBVIOUS

\* One record more: it is what the log gives for its key, unless the log
\* ended in a torn one.
LEMMA ReplayAppend ==
  ASSUME SyncedLines, NEW w \in Seq(Record \cup {Torn}), NEW rec \in Record,
         NEW k \in Key
  PROVE  /\ \/ Replay(Append(w, rec))[k] = Replay(w)[k]
            \/ k = rec.key /\ Replay(Append(w, rec))[k] = rec.reg
         /\ ~Behind(Append(w, rec), k)
              => /\ ~Behind(w, k)
                 /\ k = rec.key => Replay(Append(w, rec))[k] = rec.reg
<1> DEFINE v == Append(w, rec)
           n == Len(w) + 1
<1>1. /\ v \in Seq(Record \cup {Torn}) /\ Len(w) \in Nat /\ Len(v) = n
      /\ v[n] = rec /\ \A i \in 1..Len(w) : v[i] = w[i]
  OBVIOUS
<1>2. n \in 1..Len(v) /\ \A i \in 1..Len(v) : i > Len(w) <=> i = n
  BY <1>1
<1> HIDE DEF v
<1>3. v[n] # Torn
  BY <1>1, EngineAssumption
<1>4. Readable(v, n) <=> (n = 1 \/ v[n - 1] # Torn)
  BY <1>1, <1>2, <1>3, ReadableIs
<1>5. ASSUME Readable(v, n), k = rec.key PROVE Replay(v)[k] = rec.reg
  <2>1. \A j \in 1..Len(v) : ~(j > n)
    BY <1>1
  <2> QED BY <1>1, <1>2, <1>5, <2>1, ReplayLast
<1>6. ASSUME ~(Readable(v, n) /\ k = rec.key) PROVE Replay(v)[k] = Replay(w)[k]
  <2>1. \A i \in 1..Len(v) : i > Len(w) => ~(Readable(v, i) /\ v[i].key = k)
    BY <1>1, <1>2, <1>6
  <2>2. Len(w) <= Len(v)
    BY <1>1
  <2> QED BY <1>1, <2>1, <2>2, ReplayLonger
<1>7. ASSUME ~Behind(v, k) PROVE ~Behind(w, k)
  <2> SUFFICES ASSUME NEW i \in 2..Len(w),
                      w[i - 1] = Torn, w[i] # Torn, w[i].key = k
               PROVE  FALSE
    BY DEF Behind
  <2>1. i \in 2..Len(v) /\ i \in 1..Len(w) /\ i - 1 \in 1..Len(w)
    BY <1>1
  <2>2. v[i - 1] = Torn /\ v[i] # Torn /\ v[i].key = k
    BY <1>1, <2>1
  <2> QED BY <1>7, <2>1, <2>2 DEF Behind
<1>8. ASSUME ~Behind(v, k), k = rec.key PROVE Readable(v, n)
  <2>1. CASE n = 1
    BY <1>4, <2>1
  <2>2. CASE n # 1
    <3>1. n \in 2..Len(v)
      BY <1>1, <2>2
    <3> QED BY <1>1, <1>3, <1>4, <1>8, <3>1 DEF Behind
  <2> QED BY <2>1, <2>2
<1> QED BY <1>5, <1>6, <1>7, <1>8 DEF v

\* The first bytes of a record give nothing.
LEMMA ReplayTorn ==
  ASSUME NEW w \in Seq(Record \cup {Torn}), NEW k \in Key
  PROVE  /\ Replay(Append(w, Torn))[k] = Replay(w)[k]
         /\ Behind(w, k) => Behind(Append(w, Torn), k)
<1> DEFINE v == Append(w, Torn)
           n == Len(w) + 1
<1>1. /\ v \in Seq(Record \cup {Torn}) /\ Len(w) \in Nat /\ Len(v) = n
      /\ v[n] = Torn /\ \A i \in 1..Len(w) : v[i] = w[i]
  OBVIOUS
<1>2. Len(w) <= Len(v) /\ \A i \in 1..Len(v) : i > Len(w) => i = n
  BY <1>1
<1> HIDE DEF v
<1>3. \A i \in 1..Len(v) : i > Len(w) => ~(Readable(v, i) /\ v[i].key = k)
  BY <1>1, <1>2 DEF Readable
<1>4. ASSUME Behind(w, k) PROVE Behind(v, k)
  <2>1. PICK i \in 2..Len(w) : w[i - 1] = Torn /\ w[i] # Torn /\ w[i].key = k
    BY <1>4 DEF Behind
  <2>2. i \in 2..Len(v) /\ i \in 1..Len(w) /\ i - 1 \in 1..Len(w)
    BY <1>1
  <2>3. v[i - 1] = Torn /\ v[i] # Torn /\ v[i].key = k
    BY <1>1, <2>1, <2>2
  <2> QED BY <2>2, <2>3 DEF Behind
<1> QED BY <1>1, <1>2, <1>3, <1>4, ReplayLonger DEF v

LEMMA ReplayEmpty ==
  ASSUME NEW w, w = <<>>, NEW k \in Key
  PROVE  Replay(w)[k] = NoReg
<1>1. w \in Seq(Record \cup {Torn}) /\ Len(w) = 0
  OBVIOUS
<1>2. ~\E i \in 1..Len(w) : TRUE
  BY <1>1
<1> QED BY <1>1, <1>2, ReplayIs

\* Newest only looks at one key, and not at memtables without it.
LEMMA NewestSame ==
  ASSUME NEW t1 \in Seq(Content), NEW t2 \in Seq(Content), NEW k \in Key,
         NEW T1 \in SUBSET (1..Len(t1)), NEW T2 \in SUBSET (1..Len(t2)),
         T1 \subseteq T2,
         \A i \in T1 : t1[i][k] = t2[i][k],
         \A i \in T2 \ T1 : t2[i][k] = NoReg
  PROVE  Newest(t2, T2, k) = Newest(t1, T1, k)
<1>1. \/ /\ Newest(t1, T1, k) = NoReg
         /\ \A i \in T1 : t1[i][k] = NoReg
      \/ \E i \in T1 : /\ t1[i][k] # NoReg
                       /\ Newest(t1, T1, k) = t1[i][k]
                       /\ \A j \in T1 : j > i => t1[j][k] = NoReg
  BY NewestCases
<1>2. CASE /\ Newest(t1, T1, k) = NoReg
           /\ \A i \in T1 : t1[i][k] = NoReg
  <2>1. \A i \in T2 : t2[i][k] = NoReg
    BY <1>2
  <2> QED BY <1>2, <2>1, NewestIsNone
<1>3. CASE \E i \in T1 : /\ t1[i][k] # NoReg
                         /\ Newest(t1, T1, k) = t1[i][k]
                         /\ \A j \in T1 : j > i => t1[j][k] = NoReg
  <2>1. PICK i \in T1 : /\ t1[i][k] # NoReg
                        /\ Newest(t1, T1, k) = t1[i][k]
                        /\ \A j \in T1 : j > i => t1[j][k] = NoReg
    BY <1>3
  <2>2. /\ i \in T2 /\ t2[i][k] # NoReg
        /\ \A j \in T2 : j > i => t2[j][k] = NoReg
    BY <2>1
  <2>3. T2 \in SUBSET Nat
    <3>1. 1..Len(t2) \subseteq Nat /\ T2 \subseteq 1..Len(t2)
      OBVIOUS
    <3> QED BY <3>1
  <2>4. Newest(t2, T2, k) = t2[i][k]
    BY ONLY <2>2, <2>3, NewestIs
  <2> QED BY <2>1, <2>4
<1> QED BY <1>1, <1>2, <1>3

\* A put is what its key has then, and changes no other key.
LEMMA MemoryPut ==
  ASSUME NEW t \in Seq(Content), t # <<>>, NEW k \in Key, NEW reg \in Register,
         NEW j \in Key
  PROVE  Memory([t EXCEPT ![Len(t)][k] = reg], j) =
           IF j = k THEN reg ELSE Memory(t, j)
<1> DEFINE u == [t EXCEPT ![Len(t)][k] = reg]
           b == Len(t)
<1>1. b \in Nat /\ b \in 1..b /\ t[b] \in Content
  OBVIOUS
<1>2. [t[b] EXCEPT ![k] = reg] \in Content
  BY <1>1 DEF Content
<1>3. u = [t EXCEPT ![b] = [t[b] EXCEPT ![k] = reg]]
  OBVIOUS
<1>4. u \in Seq(Content) /\ Len(u) = b
  BY <1>1, <1>2, <1>3
<1>5. u[b][k] = reg /\ \A i \in 1..b : (i # b \/ j # k) => u[i][j] = t[i][j]
  BY <1>1, <1>3 DEF Content
<1> HIDE DEF u, b
<1>6. CASE j = k
  <2>1. /\ 1..b \in SUBSET Nat /\ b \in 1..b /\ u[b][k] # NoReg
        /\ \A i \in 1..b : i > b => u[i][k] = NoReg
    BY <1>1, <1>5, EngineAssumption
  <2>2. Newest(u, 1..b, k) = u[b][k]
    BY <2>1, NewestIs
  <2> QED BY <1>4, <1>5, <1>6, <2>2 DEF Memory, u
<1>7. CASE j # k
  <2>1. /\ Len(t) = b /\ Len(u) = b
        /\ \A i \in 1..Len(t) : t[i][j] = u[i][j]
        /\ \A i \in (1..Len(u)) \ (1..Len(t)) : u[i][j] = NoReg
    BY <1>4, <1>5, <1>7 DEF b
  <2>2. 1..Len(t) \subseteq 1..Len(u)
    BY <2>1
  <2>3. Newest(u, 1..Len(u), j) = Newest(t, 1..Len(t), j)
    BY <1>4, <2>1, <2>2, NewestSame
  <2> QED BY <1>7, <2>3 DEF Memory, u
<1> QED BY <1>6, <1>7

\* A fresh memtable hides nothing.
LEMMA MemoryFresh ==
  ASSUME NEW t \in Seq(Content), NEW j \in Key
  PROVE  Memory(Append(t, Nothing), j) = Memory(t, j)
<1> DEFINE u == Append(t, Nothing)
<1>1. /\ u \in Seq(Content) /\ Len(t) \in Nat /\ Len(u) = Len(t) + 1
      /\ u[Len(u)] = Nothing /\ \A i \in 1..Len(t) : u[i] = t[i]
  BY NothingType
<1>2. Nothing[j] = NoReg
  BY DEF Nothing
<1> HIDE DEF u
<1>3. /\ 1..Len(t) \subseteq 1..Len(u)
      /\ \A i \in 1..Len(t) : t[i][j] = u[i][j]
      /\ \A i \in (1..Len(u)) \ (1..Len(t)) : u[i][j] = NoReg
  BY <1>1, <1>2
<1>4. Newest(u, 1..Len(u), j) = Newest(t, 1..Len(t), j)
  BY <1>1, <1>3, NewestSame
<1> QED BY <1>4 DEF Memory, u

LEMMA MemoryOne ==
  ASSUME NEW c \in Content, NEW j \in Key
  PROVE  Memory(<<c>>, j) = c[j]
<1> DEFINE t == <<c>>
<1>1. t \in Seq(Content) /\ Len(t) = 1 /\ t[1] = c
  OBVIOUS
<1> HIDE DEF t
<1>2. CASE c[j] = NoReg
  <2>1. \A i \in 1..1 : t[i][j] = NoReg
    BY <1>1, <1>2
  <2>2. Newest(t, 1..1, j) = NoReg
    BY <2>1, NewestIsNone
  <2> QED BY <1>1, <1>2, <2>2 DEF Memory, t
<1>3. CASE c[j] # NoReg
  <2>1. /\ 1..1 \in SUBSET Nat /\ 1 \in 1..1 /\ t[1][j] # NoReg
        /\ \A i \in 1..1 : i > 1 => t[i][j] = NoReg
    BY <1>1, <1>3
  <2>2. Newest(t, 1..1, j) = t[1][j]
    BY <2>1, NewestIs
  <2> QED BY <1>1, <2>2 DEF Memory, t
<1> QED BY <1>2, <1>3

-----------------------------------------------------------------------------
(* The log always agrees with memory.                                      *)

\* What a loss of power cannot take from the log.
Lasting == IF SyncWrites THEN SubSeq(wal, 1, synced) ELSE wal

InLog(w, k) == Behind(w, k) \/ Replay(w)[k] # NoReg

\* MemoryIsLogged is not inductive: a put that is about to reach the log
\* must be what memory has, the log must be whole, and to know that nothing
\* comes from a file that memory does not have, every key of a file must be
\* in the log.  A loss of power is survived because a put that fills a
\* memtable syncs all that is in it: what is not synced is in no file.
LoggedInv ==
  /\ MaxPowerLosses = 0 => wal \in Seq(Record)
  /\ SyncWrites /\ mutex \in {"swap", "link"} => synced = Len(wal)
  /\ mutex # "link" => linked = Len(tables) - 1
  /\ mutex = "log" => Memory(tables, pending.key) = pending.reg
  /\ \A k \in Key : \/ Behind(wal, k)
                    \/ mutex = "log" /\ pending.key = k
                    \/ Memory(tables, k) = Replay(wal)[k]
  /\ \A i \in 1..(Len(tables) - 1), k \in Key :
       tables[i][k] # NoReg => InLog(Lasting, k)
  /\ \A f \in Files, k \in Key : files[f][k] # NoReg => InLog(Lasting, k)

LEMMA LastingIs ==
  ASSUME TypeOK
  PROVE  /\ Lasting \in Seq(Record \cup {Torn}) /\ wal \in Seq(Record \cup {Torn})
         /\ Len(Lasting) <= Len(wal) /\ \A i \in 1..Len(Lasting) : wal[i] = Lasting[i]
         /\ SyncWrites => Len(Lasting) = synced
         /\ ~SyncWrites => Lasting = wal
         /\ SyncWrites /\ synced = Len(wal) => Lasting = wal
<1>1. wal \in Seq(Record \cup {Torn}) /\ synced \in 0..Len(wal)
  BY DEF TypeOK
<1> QED BY <1>1, PrefixIs DEF Lasting

\* What outlasts a loss of power is in the log.
LEMMA LastingInLog ==
  ASSUME TypeOK, NEW k \in Key, InLog(Lasting, k)
  PROVE  InLog(wal, k)
BY LastingIs, LongerLog DEF InLog

LEMMA NothingBehind ==
  AllLines /\ LoggedInv => wal \in Seq(Record) /\ \A k \in Key : ~Behind(wal, k)
BY NoneBehind DEF AllLines, LoggedInv

LEMMA LoggedInit == Init => LoggedInv
<1> SUFFICES ASSUME Init PROVE LoggedInv
  OBVIOUS
<1>1. wal = <<>> /\ wal \in Seq(Record) /\ Len(wal) = 0 /\ Len(files) = 0
  BY DEF Init
<1>2. tables = <<Nothing>> /\ Len(tables) = 1 /\ linked = 0 /\ mutex = "free"
  BY DEF Init
<1>3. ASSUME NEW k \in Key PROVE Memory(tables, k) = Replay(wal)[k]
  <2>1. Memory(tables, k) = NoReg
    BY <1>2, NothingType, MemoryOne DEF Nothing
  <2>2. Replay(wal)[k] = NoReg
    BY <1>1, ReplayEmpty
  <2> QED BY <2>1, <2>2
<1> QED BY <1>1, <1>2, <1>3 DEF LoggedInv, Files

\* A put changes memory at its key.
LEMMA InsertMemory ==
  ASSUME TypeOK, NEW k \in Key, NEW reg \in Register, Insert(k, reg),
         NEW j \in Key
  PROVE  Memory(tables', j) = IF j = k THEN reg ELSE Memory(tables, j)
<1>1. tables \in Seq(Content) /\ tables # <<>>
  BY DEF TypeOK
<1>2. tables' = [tables EXCEPT ![Len(tables)][k] = reg]
  BY DEF Insert
<1>3. Memory([tables EXCEPT ![Len(tables)][k] = reg], j) =
        IF j = k THEN reg ELSE Memory(tables, j)
  BY <1>1, MemoryPut
<1> QED BY ONLY <1>2, <1>3

LEMMA LoggedInsert ==
  ASSUME TypeOK, LoggedInv, mutex = "free", NEW k \in Key,
         NEW reg \in Register, Insert(k, reg)
  PROVE  LoggedInv'
<1>1. /\ mutex' = "log" /\ pending' = [key |-> k, reg |-> reg]
      /\ wal' = wal /\ files' = files /\ linked' = linked /\ synced' = synced
  BY DEF Insert, walVars, fileVars
<1>2. \A j \in Key : Memory(tables', j) = IF j = k THEN reg ELSE Memory(tables, j)
  BY InsertMemory
<1>3. /\ Len(tables') = Len(tables) /\ Len(tables) \in Nat
      /\ \A i \in 1..(Len(tables) - 1) : tables'[i] = tables[i]
  BY DEF Insert, TypeOK
<1>4. Memory(tables', pending'.key) = pending'.reg
  BY <1>1, <1>2
<1>5. \A j \in Key : \/ Behind(wal', j)
                    \/ pending'.key = j
                    \/ Memory(tables', j) = Replay(wal')[j]
  BY <1>1, <1>2 DEF LoggedInv
<1>6. Lasting' = Lasting
  BY <1>1 DEF Lasting
<1>7. \A i \in 1..(Len(tables') - 1), j \in Key :
        tables'[i][j] # NoReg => InLog(Lasting', j)
  BY <1>3, <1>6 DEF LoggedInv
<1>8. \A f \in Files', j \in Key : files'[f][j] # NoReg => InLog(Lasting', j)
  BY <1>1, <1>6 DEF LoggedInv, Files
<1> QED BY <1>1, <1>3, <1>4, <1>5, <1>7, <1>8 DEF LoggedInv

\* What the log gives when the put under way has reached it.
LEMMA AppendedLog ==
  ASSUME SyncedLines, TypeOK, LoggedInv, mutex = "log", NEW k \in Key
  PROVE  LET w == Append(wal, pending)
         IN  /\ ~Behind(w, k) => ~Behind(wal, k) /\ Replay(w)[k] = Memory(tables, k)
             /\ Replay(wal)[k] # NoReg => Replay(w)[k] # NoReg
<1>1. wal \in Seq(Record \cup {Torn}) /\ pending \in Record
  BY DEF TypeOK
<1>2. pending.reg # NoReg
  BY <1>1, EngineAssumption DEF Record
<1> QED BY <1>1, <1>2, ReplayAppend DEF LoggedInv

LEMMA LoggedAppendLog ==
  ASSUME SyncedLines, TypeOK, TypeOK', LoggedInv, AppendLog
  PROVE  LoggedInv'
<1>1. /\ mutex = "log" /\ mutex' \in {"free", "swap"}
      /\ wal' = Append(wal, pending) /\ (SyncWrites => synced' = Len(wal'))
      /\ tables' = tables /\ linked' = linked /\ files' = files
  BY DEF AppendLog, FinishPut, memVars, fileVars
<1>2. MaxPowerLosses = 0 => wal' \in Seq(Record)
  BY <1>1 DEF LoggedInv, TypeOK
<1>3. \A k \in Key : Behind(wal', k) \/ Memory(tables', k) = Replay(wal')[k]
  BY <1>1, AppendedLog
<1>4. Lasting' = wal'
  <2>1. wal' \in Seq(Record \cup {Torn})
    BY DEF TypeOK
  <2>2. SubSeq(wal', 1, Len(wal')) = wal'
    BY <2>1
  <2> QED BY <1>1, <2>2 DEF Lasting
<1>5. ASSUME NEW k \in Key, InLog(Lasting, k) PROVE InLog(Lasting', k)
  BY <1>1, <1>4, <1>5, LastingInLog, AppendedLog DEF InLog
<1>6. \A f \in Files', k \in Key : files'[f][k] # NoReg => InLog(Lasting', k)
  BY <1>1, <1>5 DEF LoggedInv, Files
<1>7. \A i \in 1..(Len(tables') - 1), k \in Key :
        tables'[i][k] # NoReg => InLog(Lasting', k)
  BY <1>1, <1>5 DEF LoggedInv
<1>8. mutex' # "link" => linked' = Len(tables') - 1
  BY <1>1 DEF LoggedInv
<1> QED BY <1>1, <1>2, <1>3, <1>6, <1>7, <1>8 DEF LoggedInv

\* What a memtable has, memory has.
LEMMA InMemory ==
  ASSUME TypeOK, NEW i \in 1..Len(tables), NEW k \in Key, tables[i][k] # NoReg
  PROVE  Memory(tables, k) # NoReg
<1>1. tables \in Seq(Content) /\ 1..Len(tables) \in SUBSET (1..Len(tables))
  BY DEF TypeOK
<1>2. \/ /\ Newest(tables, 1..Len(tables), k) = NoReg
         /\ \A j \in 1..Len(tables) : tables[j][k] = NoReg
      \/ \E m \in 1..Len(tables) :
           /\ tables[m][k] # NoReg
           /\ Newest(tables, 1..Len(tables), k) = tables[m][k]
           /\ \A j \in 1..Len(tables) : j > m => tables[j][k] = NoReg
  BY ONLY <1>1, NewestCases
<1> QED BY <1>2 DEF Memory

\* The put that fills a memtable has synced all that is in it.
LEMMA LoggedSwapActive ==
  ASSUME TypeOK, LoggedInv, SwapActive
  PROVE  LoggedInv'
<1>1. /\ mutex = "swap" /\ mutex' = "link"
      /\ tables' = Append(tables, Nothing)
      /\ wal' = wal /\ synced' = synced /\ files' = files
  BY DEF SwapActive, walVars, fileVars
<1>2. \A k \in Key : Memory(tables', k) = Memory(tables, k)
  BY <1>1, MemoryFresh DEF TypeOK
<1>3. Lasting' = Lasting /\ Lasting = wal
  BY <1>1, LastingIs DEF Lasting, LoggedInv
<1>4. /\ Len(tables) \in Nat /\ Len(tables') - 1 = Len(tables)
      /\ \A i \in 1..Len(tables) : tables'[i] = tables[i]
  BY <1>1 DEF TypeOK
<1>5. \A i \in 1..Len(tables), k \in Key : tables[i][k] # NoReg => InLog(wal, k)
  BY <1>1, InMemory DEF LoggedInv, InLog
<1>6. \A i \in 1..(Len(tables') - 1), k \in Key :
        tables'[i][k] # NoReg => InLog(Lasting', k)
  BY <1>3, <1>4, <1>5
<1>7. \A f \in Files', k \in Key : files'[f][k] # NoReg => InLog(Lasting', k)
  BY <1>1, <1>3 DEF LoggedInv, Files
<1> QED BY <1>1, <1>2, <1>6, <1>7 DEF LoggedInv

LEMMA LoggedLinkFrozen ==
  ASSUME TypeOK, LoggedInv, LinkFrozen
  PROVE  LoggedInv'
<1>1. /\ mutex = "link" /\ mutex' = "free"
      /\ tables' = tables /\ linked' = Len(tables) - 1
      /\ wal' = wal /\ synced' = synced /\ files' = files
  BY DEF LinkFrozen, FinishPut, walVars, fileVars
<1>2. Lasting' = Lasting
  BY <1>1 DEF Lasting
<1> QED BY <1>1, <1>2 DEF LoggedInv, Files

\* A step that touches neither memory nor the log, and a file at most by
\* writing one whose keys are logged.
LEMMA LoggedElse ==
  ASSUME TypeOK, LoggedInv,
         tables' = tables, linked' = linked, wal' = wal, synced' = synced,
         mutex' = mutex \/ {mutex, mutex'} = {"free", "worker"},
         pending' = pending,
         \/ files' = files
         \/ \E c \in Content :
              /\ files' = Append(files, c)
              /\ \A k \in Key : c[k] # NoReg => InLog(Lasting, k)
  PROVE  LoggedInv'
<1>1. mutex' \in {"log", "swap", "link"} \/ mutex \in {"log", "swap", "link"}
        => mutex' = mutex
  OBVIOUS
<1>2. Lasting' = Lasting
  BY DEF Lasting
<1>3. \A f \in Files', k \in Key : files'[f][k] # NoReg => InLog(Lasting', k)
  <2>1. CASE files' = files
    BY <1>2, <2>1 DEF LoggedInv, Files
  <2>2. ASSUME NEW c \in Content, files' = Append(files, c),
               \A k \in Key : c[k] # NoReg => InLog(Lasting, k)
        PROVE  \A f \in Files', k \in Key : files'[f][k] # NoReg => InLog(Lasting, k)
    <3>1. /\ Len(files) \in Nat /\ Len(files') = Len(files) + 1
          /\ files'[Len(files')] = c
          /\ \A f \in 1..Len(files) : files'[f] = files[f]
      BY <2>2 DEF TypeOK
    <3> QED BY <2>2, <3>1 DEF LoggedInv, Files
  <2> QED BY <1>2, <2>1, <2>2
<1>4. \A k \in Key : \/ Behind(wal', k)
                     \/ mutex' = "log" /\ pending'.key = k
                     \/ Memory(tables', k) = Replay(wal')[k]
  BY <1>1 DEF LoggedInv
<1>5. \A i \in 1..(Len(tables') - 1), k \in Key :
        tables'[i][k] # NoReg => InLog(Lasting', k)
  BY <1>2 DEF LoggedInv
<1>6. /\ mutex' # "link" => linked' = Len(tables') - 1
      /\ mutex' = "log" => Memory(tables', pending'.key) = pending'.reg
      /\ MaxPowerLosses = 0 => wal' \in Seq(Record)
      /\ SyncWrites /\ mutex' \in {"swap", "link"} => synced' = Len(wal')
  BY <1>1 DEF LoggedInv
<1> QED BY <1>3, <1>4, <1>5, <1>6 DEF LoggedInv

LEMMA LoggedFlushTable ==
  ASSUME TypeOK, LoggedInv, FlushTable
  PROVE  LoggedInv'
<1>1. PICK i \in Unflushed : files' = Append(files, tables[i])
  BY DEF FlushTable
<1>2. /\ i \in 1..Len(tables) /\ i \in 1..(Len(tables) - 1)
      /\ tables[i] \in Content /\ tables \in Seq(Content)
  BY DEF Unflushed, TypeOK
<1>3. ASSUME NEW k \in Key, tables[i][k] # NoReg PROVE InLog(Lasting, k)
  BY <1>2, <1>3 DEF LoggedInv
<1> QED BY <1>1, <1>2, <1>3, LoggedElse DEF FlushTable, walVars, putVars

LEMMA LoggedExecuteCompaction ==
  ASSUME TypeOK, LoggedInv, ExecuteCompaction
  PROVE  LoggedInv'
<1>1. task.inputs \in SUBSET Files
  BY DEF ExecuteCompaction, TypeOK, Task
<1>2. CASE task.inputs = {}
  BY <1>2, LoggedElse DEF ExecuteCompaction, memVars, walVars, putVars
<1>3. CASE task.inputs # {}
  <2>1. PICK s \in Listings(task.inputs) :
          files' = Append(files, [k \in Key |-> Folded(s, k)])
    BY <1>3 DEF ExecuteCompaction
  <2>2. \A k \in Key :
          /\ Folded(s, k) \in Register \cup {NoReg}
          /\ Folded(s, k) # NoReg => \E f \in task.inputs : files[f][k] # NoReg
    BY <1>1, ListingIsSeq, FoldedFound
  <2>3. [k \in Key |-> Folded(s, k)] \in Content
    BY <2>2 DEF Content
  <2>4. \A k \in Key : [j \in Key |-> Folded(s, j)][k] # NoReg => InLog(Lasting, k)
    BY <1>1, <2>2 DEF LoggedInv
  <2> QED BY <2>1, <2>3, <2>4, LoggedElse
          DEF ExecuteCompaction, memVars, walVars, putVars
<1> QED BY <1>2, <1>3

\* The log v when everything stops, and what an open finds of it: w, of
\* which s records are synced.
Killed(v, w, s) == Kill /\ w = v /\ s = synced

LostPower(v, keep, w, s) ==
  PowerLoss /\ keep \in synced..Len(v) /\ Cut(v, keep, w) /\ s = Len(w)

CrashLog(v, w, s) ==
  Killed(v, w, s) \/ \E keep \in 0..Len(v) : LostPower(v, keep, w, s)

LEMMA CrashIs ==
  ASSUME TypeOK, Kill \/ PowerLoss
  PROVE  \E v \in Logs, w \in Seq(Record \cup {Torn}), m \in Seq(Entry), s \in Nat :
           /\ v \in Seq(Record \cup {Torn}) /\ s \in 0..Len(w)
           /\ CrashLog(v, w, s) /\ Recover(w, s, m)
<1>1. CASE Kill
  <2>1. PICK w \in Logs : Recover(w, synced, manifest)
    BY <1>1 DEF Kill
  <2>2. w \in Seq(Record \cup {Torn}) /\ synced \in 0..Len(w) /\ synced \in Nat
    BY LogsType
  <2>3. manifest \in Seq(Entry)
    BY DEF TypeOK
  <2> QED BY <1>1, <2>1, <2>2, <2>3 DEF CrashLog, Killed
<1>2. CASE PowerLoss
  <2>1. PICK v \in Logs, w \in Seq(Record \cup {Torn}), m \in Seq(Entry), n \in Nat :
           \E keep \in synced..Len(v) :
             /\ keep \in 0..Len(v) /\ Cut(v, keep, w)
             /\ n = Len(w) /\ Recover(w, n, m)
    BY <1>2, PowerLossIs
  <2>2. v \in Seq(Record \cup {Torn}) /\ n \in 0..Len(w)
    BY <2>1, LogsType
  <2>3. CrashLog(v, w, n)
    BY <1>2, <2>1 DEF CrashLog, LostPower
  <2> QED BY <2>1, <2>2, <2>3
<1> QED BY <1>1, <1>2

LEMMA LogsAre ==
  ASSUME TypeOK, NEW v \in Logs
  PROVE  /\ v = wal \/ (mutex = "log" /\ pending \in Record /\ v = Append(wal, pending))
         /\ Len(wal) \in Nat /\ Len(v) \in {Len(wal), Len(wal) + 1}
         /\ \A i \in 1..Len(wal) : v[i] = wal[i]
         /\ Len(v) = Len(wal) => v = wal
         /\ \A n \in 0..Len(wal) : SubSeq(v, 1, n) = SubSeq(wal, 1, n)
<1>1. wal \in Seq(Record \cup {Torn}) /\ Len(wal) \in Nat
  BY DEF TypeOK
<1>2. CASE v = wal
  BY <1>1, <1>2
<1>3. CASE mutex = "log" /\ v = Append(wal, pending)
  <2>1. pending \in Record
    BY <1>3 DEF TypeOK
  <2>2. \A n \in 0..Len(wal) :
          SubSeq(Append(wal, pending), 1, n) = SubSeq(wal, 1, n)
    BY <1>1, <2>1
  <2> QED BY <1>1, <1>3, <2>1, <2>2
<1> QED BY <1>2, <1>3 DEF Logs

\* A crash takes nothing that lasts out of the log: of w, which an open finds,
\* u is what lasts.
LEMMA CrashExtends ==
  ASSUME SyncedLines, TypeOK, LoggedInv, NEW v \in Logs,
         NEW w \in Seq(Record \cup {Torn}), NEW s \in 0..Len(w),
         CrashLog(v, w, s)
  PROVE  LET u == IF SyncWrites THEN SubSeq(w, 1, s) ELSE w
         IN  /\ u \in Seq(Record \cup {Torn})
             /\ Len(u) <= Len(w) /\ \A i \in 1..Len(u) : w[i] = u[i]
             /\ Len(Lasting) <= Len(u)
             /\ \A i \in 1..Len(Lasting) : u[i] = Lasting[i]
             /\ Len(Lasting) <= Len(w)
             /\ \A i \in 1..Len(Lasting) : w[i] = Lasting[i]
<1> DEFINE u == IF SyncWrites THEN SubSeq(w, 1, s) ELSE w
<1>1. /\ wal \in Seq(Record \cup {Torn}) /\ synced \in 0..Len(wal)
      /\ v \in Seq(Record \cup {Torn}) /\ synced \in 0..Len(v)
      /\ Len(wal) \in Nat /\ Len(v) \in Nat /\ Len(w) \in Nat
  BY LogsType DEF TypeOK
<1>2. /\ u \in Seq(Record \cup {Torn}) /\ Len(u) \in Nat
      /\ Len(u) <= Len(w) /\ \A i \in 1..Len(u) : w[i] = u[i]
  BY PrefixIs
<1>3. Len(Lasting) <= Len(u) /\ \A i \in 1..Len(Lasting) : u[i] = Lasting[i]
  <2>1. CASE Killed(v, w, s)
    <3>1. CASE SyncWrites
      <4>1. u = SubSeq(wal, 1, synced)
        BY <1>1, <2>1, <3>1, LogsAre DEF Killed
      <4>2. u = Lasting
        BY <3>1, <4>1 DEF Lasting
      <4> HIDE DEF u
      <4> QED BY <1>2, <4>2
    <3>2. CASE ~SyncWrites
      <4>1. Lasting = wal /\ u = v
        BY <2>1, <3>2, LastingIs DEF Killed
      <4>2. Len(wal) <= Len(v) /\ \A i \in 1..Len(wal) : v[i] = wal[i]
        BY LogsAre
      <4> QED BY <4>1, <4>2
    <3> QED BY <3>1, <3>2
  <2>2. ASSUME NEW keep \in 0..Len(v), LostPower(v, keep, w, s)
        PROVE  Len(Lasting) <= Len(u) /\ \A i \in 1..Len(Lasting) : u[i] = Lasting[i]
    <3>1. SyncWrites /\ u = w
      <4>1. MaxPowerLosses # 0
        BY <2>2 DEF LostPower, PowerLoss, TypeOK
      <4>2. SubSeq(w, 1, Len(w)) = w
        BY PrefixIs
      <4> QED BY <2>2, <4>1, <4>2 DEF LostPower, SyncedLines
    <3>2. Lasting = SubSeq(wal, 1, synced) /\ Lasting = SubSeq(v, 1, synced)
      BY <1>1, <3>1, LogsAre DEF Lasting
    <3>3. Len(Lasting) = synced /\ \A i \in 1..synced : Lasting[i] = v[i]
      BY <1>1, <3>2, PrefixIs
    <3>4. keep \in synced..Len(v) /\ Cut(v, keep, w)
      BY <2>2 DEF LostPower
    <3>5. Len(w) >= keep /\ \A i \in 1..keep : w[i] = v[i]
      <4>1. /\ SubSeq(v, 1, keep) \in Seq(Record \cup {Torn})
            /\ Len(SubSeq(v, 1, keep)) = keep
            /\ \A i \in 1..keep : SubSeq(v, 1, keep)[i] = v[i]
        BY <1>1, PrefixIs
      <4>2. CASE w = SubSeq(v, 1, keep)
        BY <4>1, <4>2
      <4>3. CASE w = Append(SubSeq(v, 1, keep), Torn)
        BY <4>1, <4>3
      <4> QED BY <3>4, <4>2, <4>3 DEF Cut
    <3>6. synced <= keep /\ synced \in Nat /\ keep \in Nat
      BY <1>1, <3>4
    <3> QED BY <1>1, <3>1, <3>3, <3>5, <3>6
  <2> QED BY <2>1, <2>2 DEF CrashLog
<1>4. Len(Lasting) \in Nat
  BY LastingIs
<1> HIDE DEF u
<1>5. Len(Lasting) <= Len(w) /\ \A i \in 1..Len(Lasting) : w[i] = Lasting[i]
  BY <1>1, <1>2, <1>3, <1>4
<1> QED BY <1>2, <1>3, <1>5 DEF u

LEMMA CrashLasts ==
  ASSUME SyncedLines, TypeOK, LoggedInv, NEW v \in Logs,
         NEW w \in Seq(Record \cup {Torn}), NEW s \in 0..Len(w),
         CrashLog(v, w, s), NEW k \in Key, InLog(Lasting, k)
  PROVE  InLog(IF SyncWrites THEN SubSeq(w, 1, s) ELSE w, k)
<1> DEFINE u == IF SyncWrites THEN SubSeq(w, 1, s) ELSE w
<1>1. /\ u \in Seq(Record \cup {Torn}) /\ Len(Lasting) <= Len(u)
      /\ \A i \in 1..Len(Lasting) : u[i] = Lasting[i]
  BY CrashExtends
<1> HIDE DEF u
<1>2. InLog(u, k)
  BY <1>1, LastingIs, LongerLog DEF InLog
<1> QED BY <1>2 DEF u

LEMMA LoggedCrash ==
  ASSUME SyncedLines, TypeOK, LoggedInv, Kill \/ PowerLoss
  PROVE  LoggedInv'
<1>1. PICK v \in Logs, w \in Seq(Record \cup {Torn}), m \in Seq(Entry), s \in Nat :
        /\ v \in Seq(Record \cup {Torn}) /\ s \in 0..Len(w)
        /\ CrashLog(v, w, s) /\ Recover(w, s, m)
  BY CrashIs
<1>2. /\ wal' = w /\ tables' = <<Replay(w)>> /\ linked' = 0 /\ synced' = s
      /\ mutex' = "free" /\ files' = files
  BY <1>1 DEF Recover
<1>3. MaxPowerLosses = 0 => w \in Seq(Record)
  <2> SUFFICES ASSUME MaxPowerLosses = 0 PROVE w \in Seq(Record)
    OBVIOUS
  <2>1. w = v
    BY <1>1 DEF CrashLog, Killed, LostPower, PowerLoss, TypeOK
  <2>2. wal \in Seq(Record)
    BY DEF LoggedInv
  <2> QED BY <2>1, <2>2, LogsAre
<1>4. \A k \in Key : Memory(tables', k) = Replay(w)[k]
  <2> TAKE k \in Key
  <2>1. Replay(w) \in Content
    BY ReplayType
  <2> QED BY <1>2, <2>1, MemoryOne
<1>5. linked' = Len(tables') - 1 /\ Len(tables') = 1
  BY <1>2
<1>6. Lasting' = IF SyncWrites THEN SubSeq(w, 1, s) ELSE w
  BY <1>2 DEF Lasting
<1>7. \A k \in Key : InLog(Lasting, k) => InLog(Lasting', k)
  BY <1>1, <1>6, CrashLasts
<1>8. \A f \in Files', k \in Key : files'[f][k] # NoReg => InLog(Lasting', k)
  BY <1>2, <1>7 DEF LoggedInv, Files
<1> QED BY <1>2, <1>3, <1>4, <1>5, <1>8 DEF LoggedInv

LEMMA NoPowerLoss == AllLines /\ TypeOK => ~PowerLoss
BY DEF AllLines, TypeOK, PowerLoss

LEMMA LoggedStep == SyncedLines /\ TypeOK /\ LoggedInv /\ [Next]_vars => LoggedInv'
<1> SUFFICES ASSUME SyncedLines, TypeOK, LoggedInv, [Next]_vars PROVE LoggedInv'
  OBVIOUS
<1>1. ASSUME NEW k \in Key, NEW v \in Written[k], Put(k, v) PROVE LoggedInv'
  <2> DEFINE c == Increment(localClock, Self)
  <2>1. c \in Clock /\ v \in Value
    BY EngineAssumption, ClockType DEF TypeOK
  <2>2. [value |-> v, clock |-> c] \in Register
    BY <2>1 DEF Register
  <2>3. mutex = "free" /\ Insert(k, [value |-> v, clock |-> c])
    BY <1>1 DEF Put
  <2> QED BY <2>2, <2>3, LoggedInsert
<1>2. ASSUME NEW k \in Key, NEW incoming \in Incoming[k], PutCrdt(k, incoming)
      PROVE  LoggedInv'
  <2>1. incoming \in Register
    BY EngineAssumption
  <2>2. PICK existing \in GetResults(k) :
          Insert(k, IF existing = NoReg THEN incoming ELSE Merge(incoming, existing))
    BY <1>2 DEF PutCrdt
  <2>3. (IF existing = NoReg THEN incoming ELSE Merge(incoming, existing)) \in Register
    BY <2>1, GetResultsType, MergeType
  <2>4. mutex = "free"
    BY <1>2 DEF PutCrdt
  <2> QED BY <2>2, <2>3, <2>4, LoggedInsert
<1>3. CASE AppendLog \/ SwapActive \/ LinkFrozen
  BY <1>3, TypeStep, LoggedAppendLog, LoggedSwapActive, LoggedLinkFrozen
<1>4. CASE FlushTable \/ ExecuteCompaction
  BY <1>4, LoggedFlushTable, LoggedExecuteCompaction
<1>5. CASE StartFlush \/ PublishFlush
  <2>1. {mutex, mutex'} = {"free", "worker"}
    BY <1>5 DEF StartFlush, PublishFlush
  <2> QED BY <1>5, <2>1, LoggedElse
          DEF StartFlush, PublishFlush, memVars, fileVars, walVars
<1>6. CASE NothingToFlush \/ PlanCompaction \/ ApplyCompaction
  BY <1>6, LoggedElse
     DEF NothingToFlush, PlanCompaction, ApplyCompaction, memVars, fileVars,
         walVars, putVars
<1>7. ASSUME NEW r \in Reader, Get(r) PROVE LoggedInv'
  BY <1>7, LoggedElse
     DEF Get, GetActive, GetImmutable, GetFiles, EndGet, memVars, fileVars,
         walVars, putVars
<1>8. CASE Kill \/ PowerLoss
  BY <1>8, LoggedCrash
<1>9. CASE UNCHANGED vars
  BY <1>9, LoggedElse DEF vars, memVars, fileVars, walVars, putVars
<1> QED BY <1>1, <1>2, <1>3, <1>4, <1>5, <1>6, <1>7, <1>8, <1>9
        DEF Next, Writer, Write, Worker

LEMMA LoggedImplies == AllLines /\ LoggedInv => MemoryIsLogged
BY NothingBehind DEF LoggedInv, MemoryIsLogged, Memory

\* Unless power is lost or a clock holds a separator byte, memory is what a
\* replay of the log gives, but for the put under way: a kill at any moment
\* of any put, flush or compaction loses nothing else.
THEOREM MemoryAlwaysLogged == AllLines => (Spec => []MemoryIsLogged)
<1> SUFFICES ASSUME AllLines PROVE Spec => []MemoryIsLogged
  OBVIOUS
<1>1. Init => TypeOK /\ LoggedInv
  BY TypeInit, LoggedInit
<1>2. TypeOK /\ LoggedInv /\ [Next]_vars => (TypeOK /\ LoggedInv)'
  BY TypeStep, LoggedStep, AllLinesAreSynced
<1>3. TypeOK /\ LoggedInv => MemoryIsLogged
  BY LoggedImplies
<1> QED BY <1>1, <1>2, <1>3, PTL DEF Spec

-----------------------------------------------------------------------------
(* The engine implements the store. *)

\* The register a key has now, and the one it has after a restart, as the
\* instance Store takes them.
Current == [k \in Key |-> Newest(tables, 1..Len(tables), k)]

Durable == Replay(wal)

\* The instance's copy of LWWRegister is this one.
LEMMA StoreRegister ==
  /\ Store!ZeroClock = ZeroClock /\ Store!Empty = Empty
  /\ \A c, n : Store!Increment(c, n) = Increment(c, n)
  /\ \A c, d : Store!MergeClock(c, d) = MergeClock(c, d)
  /\ \A a, b : Store!Merge(a, b) = Merge(a, b)
<1>1. \A x, y : Store!Larger(x, y) = Larger(x, y)
  BY DEF Store!Larger, Larger
<1>2. \A c, d : Store!MergeClock(c, d) = MergeClock(c, d)
  BY <1>1, Zenon DEF Store!MergeClock, MergeClock
<1>3. \A c, d : Store!Order(c, d) = Order(c, d)
  BY Zenon DEF Store!Order, Order
<1>4. \A a, b : Store!Merge(a, b) = Merge(a, b)
  BY <1>1, <1>2, <1>3, Zenon DEF Store!Merge, Merge
<1> QED BY <1>2, <1>4
        DEF Store!ZeroClock, ZeroClock, Store!Empty, Empty,
            Store!Increment, Increment

LEMMA CurrentIs == \A k \in Key : Current[k] = Memory(tables, k)
BY DEF Current, Memory

\* When nobody holds the mutex, a get finds what memory has: no file has a
\* key that memory does not have.
LEMMA GetIsCurrent ==
  ASSUME TypeOK, LoggedInv, mutex = "free", NEW k \in Key, ~Behind(wal, k),
         NEW reg \in GetResults(k)
  PROVE  reg = Visible(Current[k])
<1> DEFINE T == 1..linked \cup {Len(tables)}
           inMemory == Newest(tables, T, k)
<1>1. T = 1..Len(tables)
  BY DEF LoggedInv, TypeOK
<1>2. inMemory = Current[k]
  BY <1>1 DEF Current
<1>3. CASE inMemory # NoReg
  <2>1. GetResults(k) = {Visible(inMemory)}
    BY <1>3 DEF GetResults
  <2> QED BY <1>2, <2>1
<1>4. CASE inMemory = NoReg
  <2>1. Replay(wal)[k] = NoReg
    BY <1>2, <1>4, CurrentIs DEF LoggedInv
  <2>2. \A f \in Files : files[f][k] = NoReg
    BY <2>1, LastingInLog DEF LoggedInv, InLog
  <2>3. layout \in [Level -> SUBSET Files]
    BY DEF TypeOK
  <2>4. \A found \in FileVersions(layout, k) : found = NoReg
    BY <2>2, <2>3, FileVersionsFound
  <2>5. GetResults(k) = {Visible(found) : found \in FileVersions(layout, k)}
    BY <1>4 DEF GetResults
  <2> QED BY <1>2, <1>4, <2>4, <2>5
<1> QED BY <1>3, <1>4

LEMMA StoreInsert ==
  ASSUME TypeOK, NEW k \in Key, NEW reg \in Register, Insert(k, reg)
  PROVE  Current' = [Current EXCEPT ![k] = reg] /\ Durable' = Durable
<1>1. \A j \in Key : Newest(tables', 1..Len(tables'), j) =
                       IF j = k THEN reg ELSE Newest(tables, 1..Len(tables), j)
  BY InsertMemory DEF Memory
<1>2. wal' = wal
  BY DEF Insert, walVars
<1>3. Durable' = Durable
  BY <1>2 DEF Durable, Replay, Readable
<1> QED BY <1>1, <1>3 DEF Current

LEMMA StorePut ==
  ASSUME TypeOK, NEW k \in Key, NEW v \in Written[k], Put(k, v)
  PROVE  Store!Put(k, v)
<1> DEFINE c == Increment(localClock, Self)
           reg == [value |-> v, clock |-> c]
<1>1. c \in Clock /\ v \in Value
  BY EngineAssumption, ClockType DEF TypeOK
<1>2. reg \in Register
  BY <1>1 DEF Register
<1>3. localClock' = c /\ Insert(k, reg)
  BY DEF Put
<1>4. Current' = [Current EXCEPT ![k] = reg] /\ Durable' = Durable
  BY <1>2, <1>3, StoreInsert
<1> QED BY <1>3, <1>4, StoreRegister DEF Store!Put, Current, Durable

LEMMA StorePutCrdt ==
  ASSUME AllLines, TypeOK, LoggedInv, NEW k \in Key, NEW incoming \in Incoming[k],
         PutCrdt(k, incoming)
  PROVE  Store!PutCrdt(k, incoming)
<1>1. incoming \in Register
  BY EngineAssumption
<1>2. PICK existing \in GetResults(k) :
        Insert(k, IF existing = NoReg THEN incoming ELSE Merge(incoming, existing))
  BY DEF PutCrdt
<1>3. existing = Visible(Current[k]) /\ existing \in Register \cup {NoReg}
  BY GetIsCurrent, GetResultsType, NothingBehind DEF PutCrdt
<1> DEFINE reg == IF Current[k] = NoReg \/ Current[k].value = Empty
                  THEN incoming ELSE Merge(incoming, Current[k])
<1>4. (IF existing = NoReg THEN incoming ELSE Merge(incoming, existing)) = reg
  BY <1>3 DEF Visible
<1>5. reg \in Register
  BY <1>1, <1>3, <1>4, MergeType
<1>6. Current' = [Current EXCEPT ![k] = reg] /\ Durable' = Durable
  BY <1>2, <1>4, <1>5, StoreInsert
<1>7. Current' = [Current EXCEPT ![k] = IF @ = NoReg \/ @.value = Empty
                                        THEN incoming ELSE Merge(incoming, @)]
  BY <1>6 DEF Current
<1>8. localClock' = MergeClock(localClock, incoming.clock)
  BY DEF PutCrdt
<1> QED BY <1>6, <1>7, <1>8, StoreRegister DEF Store!PutCrdt, Current, Durable

LEMMA StoreAppendLog ==
  ASSUME AllLines, TypeOK, LoggedInv, AppendLog
  PROVE  Store!Persist
<1>1. /\ mutex = "log" /\ wal' = Append(wal, pending)
      /\ tables' = tables /\ localClock' = localClock
  BY DEF AppendLog, memVars
<1>2. Replay(wal') = Current
  <2>1. Append(wal, pending) \in Seq(Record)
    BY <1>1, NothingBehind DEF TypeOK
  <2>2. \A k \in Key : Replay(wal')[k] = Current[k]
    BY <1>1, <2>1, NoneBehind, AllLinesAreSynced, AppendedLog, CurrentIs
  <2>3. Replay(wal') = [k \in Key |-> Replay(wal')[k]]
    BY DEF Replay
  <2>4. Current = [k \in Key |-> Current[k]]
    BY DEF Current
  <2> QED BY <2>2, <2>3, <2>4
<1> QED BY <1>1, <1>2 DEF Store!Persist, Current

LEMMA StoreKill ==
  ASSUME AllLines, TypeOK, LoggedInv, Kill
  PROVE  Store!Restart
<1>1. PICK w \in Logs : Recover(w, synced, manifest)
  BY DEF Kill
<1>2. wal' = w /\ tables' = <<Replay(w)>> /\ localClock' = ZeroClock
  BY <1>1 DEF Recover
<1>3. w \in Seq(Record)
  <2>1. wal \in Seq(Record)
    BY NothingBehind
  <2>2. mutex = "log" => pending \in Record
    BY DEF TypeOK
  <2> QED BY <1>1, <2>1, <2>2 DEF Logs
<1>4. Replay(w) \in Content
  BY <1>3, SeqMonotone, ReplayType
<1>5. Current' = Replay(w)
  <2>1. \A k \in Key : Current'[k] = Replay(w)[k]
    BY <1>2, <1>4, MemoryOne DEF Current, Memory
  <2>2. Replay(w) = [k \in Key |-> Replay(w)[k]]
    BY DEF Replay
  <2>3. Current' = [k \in Key |-> Current'[k]]
    BY DEF Current
  <2> QED BY <2>1, <2>2, <2>3
<1>6. Replay(w) \in {Durable, Current}
  <2>1. CASE w = wal
    BY <2>1 DEF Durable
  <2>2. CASE mutex = "log" /\ w = Append(wal, pending)
    <3>1. \A k \in Key : Replay(w)[k] = Current[k]
      BY <1>3, <2>2, NoneBehind, AllLinesAreSynced, AppendedLog, CurrentIs
    <3>2. Replay(w) = [k \in Key |-> Replay(w)[k]]
      BY DEF Replay
    <3>3. Current = [k \in Key |-> Current[k]]
      BY DEF Current
    <3> QED BY <3>1, <3>2, <3>3
  <2> QED BY <2>1, <2>2 DEF Logs
<1> QED BY <1>2, <1>5, <1>6, StoreRegister DEF Store!Restart, Current, Durable

\* Swapping a memtable, linking one, flushing, compacting and reading are
\* nothing to the store.
LEMMA StoreElse ==
  ASSUME TypeOK,
         tables' = tables \/ tables' = Append(tables, Nothing),
         wal' = wal, localClock' = localClock
  PROVE  UNCHANGED Store!vars
<1>1. \A k \in Key : Memory(tables', k) = Memory(tables, k)
  BY MemoryFresh DEF TypeOK
<1>2. Current' = Current
  BY <1>1 DEF Current, Memory
<1>3. Replay(wal)' = Replay(wal)
  BY DEF Replay, Readable
<1> QED BY <1>2, <1>3 DEF Store!vars, Current

LEMMA StoreStep ==
  ASSUME AllLines, TypeOK, LoggedInv, [Next]_vars
  PROVE  [Store!Next]_(Store!vars)
<1>1. CASE Write
  BY <1>1, StorePut, StorePutCrdt DEF Write, Store!Next
<1>2. CASE AppendLog
  BY <1>2, StoreAppendLog DEF Store!Next
<1>3. CASE SwapActive \/ LinkFrozen
  BY <1>3, StoreElse DEF SwapActive, LinkFrozen, walVars
<1>4. CASE Worker
  BY <1>4, StoreElse
     DEF Worker, StartFlush, FlushTable, PublishFlush, NothingToFlush,
         PlanCompaction, ExecuteCompaction, ApplyCompaction, memVars, walVars
<1>5. ASSUME NEW r \in Reader, Get(r) PROVE UNCHANGED Store!vars
  BY <1>5, StoreElse
     DEF Get, GetActive, GetImmutable, GetFiles, EndGet, memVars, walVars
<1>6. CASE Kill \/ PowerLoss
  BY <1>6, StoreKill, NoPowerLoss DEF Store!Next
<1>7. CASE UNCHANGED vars
  BY <1>7, StoreElse DEF vars, memVars, walVars
<1> QED BY <1>1, <1>2, <1>3, <1>4, <1>5, <1>6, <1>7 DEF Next, Writer

LEMMA StoreInit ==
  ASSUME Init
  PROVE  Store!Init
<1>1. tables = <<Nothing>> /\ wal = <<>> /\ mutex = "free" /\ localClock = ZeroClock
  BY DEF Init
<1>2. \A k \in Key : Memory(tables, k) = NoReg
  BY <1>1, NothingType, MemoryOne DEF Nothing
<1>3. Current = [k \in Key |-> NoReg]
  BY <1>2 DEF Current, Memory
<1>4. \A k \in Key : Replay(wal)[k] = NoReg
  BY <1>1, ReplayEmpty
<1>5. Replay(wal) = [k \in Key |-> NoReg]
  <2>1. Replay(wal) = [k \in Key |-> Replay(wal)[k]]
    BY DEF Replay
  <2> QED BY <1>4, <2>1
<1> QED BY <1>1, <1>3, <1>5, StoreRegister DEF Store!Init, Current

\* Unless power is lost or a clock holds a separator byte, the engine is one
\* register per key that put(key, value) and put(key, crdt) write in one
\* step, and that a kill takes back to the last logged write: swapping
\* memtables, flushing, compacting and replaying the log cannot be seen.
THEOREM EngineImplementsStore == AllLines => (Spec => ImplementsStore)
<1> SUFFICES ASSUME AllLines PROVE Spec => ImplementsStore
  OBVIOUS
<1>1. Init => TypeOK /\ LoggedInv /\ Store!Init
  BY TypeInit, LoggedInit, StoreInit
<1>2. TypeOK /\ LoggedInv /\ [Next]_vars => (TypeOK /\ LoggedInv)'
  BY TypeStep, LoggedStep, AllLinesAreSynced
<1>3. TypeOK /\ LoggedInv /\ [Next]_vars => [Store!Next]_(Store!vars)
  BY StoreStep
<1> QED BY <1>1, <1>2, <1>3, PTL DEF Spec, ImplementsStore, Store!Spec

-----------------------------------------------------------------------------
(* A finished put survives a kill. *)

\* What was acknowledged is what the log gives, but for a put that is logged
\* and has not returned; that one is what memory has.
AckedLogged ==
  /\ mutex \in {"log", "swap", "link"} =>
       pending # NoPut /\ Memory(tables, pending.key) = pending.reg
  /\ \A k \in Key : \/ Behind(wal, k)
                    \/ mutex \in {"swap", "link"} /\ pending.key = k
                    \/ acked[k] = Replay(wal)[k]

\* With synced writes, what a loss of power can take from the log are puts
\* that were killed before they returned.
CutSettles ==
  \A k \in Key : \/ Behind(wal, k)
                 \/ mutex \in {"swap", "link"} /\ pending.key = k
                 \/ \A n \in synced..Len(wal) :
                      Replay(SubSeq(wal, 1, n))[k] \in {acked[k]} \cup unsettled[k]

AckedInv == AckedLogged /\ (SyncWrites => CutSettles)

\* When all is synced there is nothing to take.
LEMMA SyncedSettles ==
  ASSUME TypeOK, AckedLogged, synced = Len(wal)
  PROVE  CutSettles
<1>1. wal \in Seq(Record \cup {Torn}) /\ Len(wal) \in Nat
  BY DEF TypeOK
<1>2. \A n \in synced..Len(wal) : SubSeq(wal, 1, n) = wal
  <2> TAKE n \in synced..Len(wal)
  <2>1. n = Len(wal)
    BY <1>1
  <2> QED BY <1>1, <2>1, PrefixIs
<1> QED BY <1>2 DEF AckedLogged, CutSettles

LEMMA SyncedSettled ==
  ASSUME TypeOK', AckedLogged', synced' = Len(wal')
  PROVE  CutSettles'
<1>1. wal' \in Seq(Record \cup {Torn}) /\ Len(wal') \in Nat
  BY DEF TypeOK
<1>2. \A n \in synced'..Len(wal') : SubSeq(wal', 1, n) = wal'
  <2> TAKE n \in synced'..Len(wal')
  <2>1. n = Len(wal')
    BY <1>1
  <2> QED BY <1>1, <2>1, PrefixIs
<1> QED BY <1>2 DEF AckedLogged, CutSettles

LEMMA AckedInit == Init => AckedInv
<1> SUFFICES ASSUME Init PROVE AckedInv
  OBVIOUS
<1>1. wal = <<>> /\ mutex = "free" /\ synced = Len(wal)
  BY DEF Init
<1>2. ASSUME NEW k \in Key PROVE acked[k] = Replay(wal)[k]
  <2>1. Replay(wal)[k] = NoReg
    BY <1>1, ReplayEmpty
  <2> QED BY <2>1 DEF Init, Nothing
<1>3. AckedLogged
  BY <1>1, <1>2 DEF AckedLogged
<1> QED BY <1>1, <1>3, TypeInit, SyncedSettles DEF AckedInv

LEMMA AckedInsert ==
  ASSUME TypeOK, AckedInv, mutex = "free", NEW k \in Key,
         NEW reg \in Register, Insert(k, reg)
  PROVE  AckedInv'
<1>1. /\ mutex' = "log" /\ pending' = [key |-> k, reg |-> reg]
      /\ wal' = wal /\ synced' = synced /\ acked' = acked /\ unsettled' = unsettled
  BY DEF Insert, walVars, history
<1>2. pending' # NoPut
  BY <1>1, EngineAssumption DEF Record
<1>3. Memory(tables', pending'.key) = pending'.reg
  BY <1>1, InsertMemory
<1>4. \A j \in Key : Behind(wal', j) \/ acked'[j] = Replay(wal')[j]
  BY <1>1 DEF AckedInv, AckedLogged
<1>5. CutSettles => CutSettles'
  BY <1>1 DEF CutSettles
<1> QED BY <1>1, <1>2, <1>3, <1>4, <1>5 DEF AckedInv, AckedLogged

LEMMA AckedAppendLog ==
  ASSUME SyncedLines, TypeOK, TypeOK', LoggedInv, AckedInv, AppendLog
  PROVE  AckedInv'
<1>1. /\ mutex = "log" /\ wal' = Append(wal, pending) /\ tables' = tables
      /\ SyncWrites => synced' = Len(wal')
      /\ \/ mutex' = "swap" /\ pending' = pending /\ acked' = acked
         \/ mutex' = "free" /\ acked' = [acked EXCEPT ![pending.key] = pending.reg]
  BY DEF AppendLog, FinishPut, memVars, history
<1>2. wal \in Seq(Record \cup {Torn}) /\ pending \in Record /\ acked \in Content
  BY <1>1 DEF TypeOK
<1>3. \A k \in Key :
        ~Behind(wal', k) => /\ ~Behind(wal, k)
                            /\ Replay(wal')[k] = IF k = pending.key THEN pending.reg
                                                 ELSE Replay(wal)[k]
  BY <1>1, <1>2, ReplayAppend
<1>4. /\ pending # NoPut /\ Memory(tables, pending.key) = pending.reg
      /\ \A k \in Key : Behind(wal, k) \/ acked[k] = Replay(wal)[k]
  BY <1>1 DEF AckedInv, AckedLogged
<1>5. CASE mutex' = "swap" /\ pending' = pending /\ acked' = acked
  <2>1. AckedLogged'
    BY <1>1, <1>3, <1>4, <1>5 DEF AckedLogged
  <2> QED BY <1>1, <2>1, SyncedSettled DEF AckedInv
<1>6. CASE mutex' = "free" /\ acked' = [acked EXCEPT ![pending.key] = pending.reg]
  <2>1. \A k \in Key : Behind(wal', k) \/ acked'[k] = Replay(wal')[k]
    BY <1>2, <1>3, <1>4, <1>6 DEF Content
  <2>2. AckedLogged'
    BY <1>6, <2>1 DEF AckedLogged
  <2> QED BY <1>1, <2>2, SyncedSettled DEF AckedInv
<1> QED BY <1>1, <1>5, <1>6

LEMMA AckedSwapActive ==
  ASSUME TypeOK, AckedInv, SwapActive
  PROVE  AckedInv'
<1>1. /\ mutex = "swap" /\ mutex' = "link"
      /\ tables' = Append(tables, Nothing)
      /\ wal' = wal /\ synced' = synced /\ acked' = acked /\ pending' = pending
      /\ unsettled' = unsettled
  BY DEF SwapActive, walVars, history
<1>2. pending.key \in Key
  BY <1>1 DEF TypeOK, Record
<1>3. Memory(tables', pending.key) = Memory(tables, pending.key)
  BY <1>1, <1>2, MemoryFresh DEF TypeOK
<1>4. CutSettles => CutSettles'
  BY <1>1 DEF CutSettles
<1> QED BY <1>1, <1>3, <1>4 DEF AckedInv, AckedLogged

LEMMA AckedLinkFrozen ==
  ASSUME TypeOK, TypeOK', LoggedInv, AckedInv, LinkFrozen
  PROVE  AckedInv'
<1>1. /\ mutex = "link" /\ mutex' = "free" /\ wal' = wal /\ synced' = synced
      /\ acked' = [acked EXCEPT ![pending.key] = pending.reg]
  BY DEF LinkFrozen, FinishPut, walVars
<1>2. pending.key \in Key /\ acked \in Content
  BY <1>1 DEF TypeOK, Record
<1>3. Behind(wal, pending.key) \/ Replay(wal)[pending.key] = pending.reg
  BY <1>1, <1>2 DEF LoggedInv, AckedInv, AckedLogged
<1>4. \A k \in Key : Behind(wal', k) \/ acked'[k] = Replay(wal')[k]
  BY <1>1, <1>2, <1>3 DEF AckedInv, AckedLogged, Content
<1>5. AckedLogged'
  BY <1>1, <1>4 DEF AckedLogged
<1>6. SyncWrites => synced' = Len(wal')
  BY <1>1 DEF LoggedInv
<1> QED BY <1>5, <1>6, SyncedSettled DEF AckedInv

\* A step that changes neither memory nor the log nor what is acknowledged.
LEMMA AckedElse ==
  ASSUME AckedInv, tables' = tables, wal' = wal, synced' = synced,
         acked' = acked, unsettled' = unsettled, pending' = pending,
         mutex' = mutex \/ {mutex, mutex'} = {"free", "worker"}
  PROVE  AckedInv'
<1>1. CASE mutex' = mutex
  BY <1>1 DEF AckedInv, AckedLogged, CutSettles
<1>2. CASE {mutex, mutex'} = {"free", "worker"}
  <2>1. mutex \in {"free", "worker"} /\ mutex' \in {"free", "worker"}
    BY <1>2
  <2> QED BY <2>1 DEF AckedInv, AckedLogged, CutSettles
<1> QED BY <1>1, <1>2

\* What lasts and can be read is read after a crash.
LEMMA CrashReplays ==
  ASSUME SyncedLines, TypeOK, LoggedInv, NEW v \in Logs,
         NEW w \in Seq(Record \cup {Torn}), NEW s \in 0..Len(w),
         CrashLog(v, w, s), NEW k \in Key, Replay(Lasting)[k] # NoReg
  PROVE  Replay(w)[k] # NoReg
BY CrashExtends, LongerLog, LastingIs

\* No key that a torn record does not hide comes back from a file alone.
LEMMA RecoveredIsLogged ==
  ASSUME SyncedLines, TypeOK, LoggedInv, NEW v \in Logs,
         NEW w \in Seq(Record \cup {Torn}), NEW s \in 0..Len(w),
         NEW m \in Seq(Entry), CrashLog(v, w, s), Recover(w, s, m),
         NEW k \in Key, ~Behind(w, k) \/ ~Behind(wal, k)
  PROVE  acked'[k] = Replay(w)[k]
<1>1. acked' \in Recovered(w, m)
  BY DEF Recover
<1>2. \/ acked'[k] = Replay(w)[k]
      \/ Replay(w)[k] = NoReg /\ acked'[k] \in FileVersions(Opened(m), k)
  BY <1>1, RecoveredIs
<1>3. ASSUME Replay(w)[k] = NoReg, acked'[k] # NoReg,
             acked'[k] \in FileVersions(Opened(m), k)
      PROVE  FALSE
  <2>1. Opened(m) \in [Level -> SUBSET Files]
    BY LoadedType
  <2>2. PICK l \in Level : \E f \in Opened(m)[l] : files[f][k] = acked'[k]
    BY <1>3, <2>1, FileVersionsFound
  <2>3. PICK f \in Files : files[f][k] # NoReg
    BY <1>3, <2>1, <2>2
  <2>4. InLog(Lasting, k)
    BY <2>3 DEF LoggedInv
  <2> DEFINE u == IF SyncWrites THEN SubSeq(w, 1, s) ELSE w
  <2>5. InLog(u, k)
    BY <2>4, CrashLasts
  <2>6. /\ u \in Seq(Record \cup {Torn}) /\ Len(u) <= Len(w)
        /\ \A i \in 1..Len(u) : w[i] = u[i]
    BY PrefixIs
  <2> HIDE DEF u
  <2>7. Behind(u, k) => Behind(w, k)
    BY <2>6, LongerLog
  <2>8. Replay(u)[k] = NoReg
    BY <1>3, <2>6, LongerLog
  <2>9. Behind(w, k) /\ Behind(u, k)
    BY <2>5, <2>7, <2>8 DEF InLog
  <2>10. ~Behind(wal, k)
    BY <2>9
  <2>11. Behind(Lasting, k) => Behind(wal, k)
    BY LastingIs, LongerLog
  <2>12. Replay(Lasting)[k] # NoReg
    BY <2>4, <2>10, <2>11 DEF InLog
  <2> QED BY <1>3, <2>12, CrashReplays
<1> QED BY <1>2, <1>3

LEMMA AckedCrash ==
  ASSUME SyncedLines, TypeOK, TypeOK', LoggedInv, AckedInv, Kill \/ PowerLoss
  PROVE  AckedInv'
<1>1. PICK v \in Logs, w \in Seq(Record \cup {Torn}), m \in Seq(Entry), s \in Nat :
        /\ v \in Seq(Record \cup {Torn}) /\ s \in 0..Len(w)
        /\ CrashLog(v, w, s) /\ Recover(w, s, m)
  BY CrashIs
<1>2. mutex' = "free" /\ wal' = w /\ synced' = s
  BY <1>1 DEF Recover
<1>3. \A k \in Key : ~Behind(w, k) => acked'[k] = Replay(w)[k]
  BY <1>1, RecoveredIsLogged
<1>4. AckedLogged'
  BY <1>2, <1>3 DEF AckedLogged
<1>5. CASE \E keep \in 0..Len(v) : LostPower(v, keep, w, s)
  <2>1. synced' = Len(wal')
    BY <1>2, <1>5 DEF LostPower
  <2> QED BY <1>4, <2>1, SyncedSettled DEF AckedInv
<1>6. CASE Killed(v, w, s)
  <2>1. /\ w = v /\ s = synced
        /\ unsettled' = [k \in Key |-> unsettled[k] \cup {acked[k]}]
    BY <1>6 DEF Killed, Kill
  <2>2. ASSUME SyncWrites, NEW k \in Key, ~Behind(w, k), NEW n \in synced..Len(w)
        PROVE  Replay(SubSeq(w, 1, n))[k] \in {acked'[k]} \cup unsettled'[k]
    <3>1. CASE n = Len(w)
      <4>1. SubSeq(w, 1, Len(w)) = w
        BY <2>2
      <4> QED BY <1>3, <2>2, <3>1, <4>1
    <3>2. CASE n # Len(w)
      <4>1. Len(wal) \in Nat /\ synced \in Nat /\ synced <= Len(wal)
        BY DEF TypeOK
      <4>2. n \in synced..Len(wal) /\ n \in 0..Len(wal)
        BY <2>1, <3>2, <4>1, LogsAre
      <4>3. SubSeq(w, 1, n) = SubSeq(wal, 1, n)
        BY <2>1, <4>2, LogsAre
      <4>4. ~Behind(wal, k)
        <5>1. Len(wal) <= Len(w) /\ \A i \in 1..Len(wal) : w[i] = wal[i]
          BY <2>1, <4>1, LogsAre
        <5>2. wal \in Seq(Record \cup {Torn})
          BY DEF TypeOK
        <5> QED BY <2>2, <5>1, <5>2, LongerLog
      <4>5. ~(mutex \in {"swap", "link"})
        <5> SUFFICES ASSUME mutex \in {"swap", "link"} PROVE FALSE
          OBVIOUS
        <5>1. synced = Len(wal) /\ Len(v) = Len(wal)
          BY <2>2, LogsAre DEF LoggedInv
        <5> QED BY <2>1, <3>2, <4>1, <4>2, <5>1
      <4>6. Replay(SubSeq(wal, 1, n))[k] \in {acked[k]} \cup unsettled[k]
        BY <2>2, <4>2, <4>4, <4>5 DEF AckedInv, CutSettles
      <4> QED BY <2>1, <4>3, <4>6
    <3> QED BY <3>1, <3>2
  <2>3. SyncWrites => CutSettles'
    BY <1>2, <2>1, <2>2 DEF CutSettles
  <2> QED BY <1>4, <2>3 DEF AckedInv
<1> QED BY <1>1, <1>5, <1>6 DEF CrashLog

LEMMA AckedStep ==
  SyncedLines /\ TypeOK /\ LoggedInv /\ AckedInv /\ [Next]_vars => AckedInv'
<1> SUFFICES ASSUME SyncedLines, TypeOK, LoggedInv, AckedInv, [Next]_vars
             PROVE  AckedInv'
  OBVIOUS
<1>1. ASSUME NEW k \in Key, NEW v \in Written[k], Put(k, v) PROVE AckedInv'
  <2> DEFINE c == Increment(localClock, Self)
  <2>1. c \in Clock /\ v \in Value
    BY EngineAssumption, ClockType DEF TypeOK
  <2>2. [value |-> v, clock |-> c] \in Register
    BY <2>1 DEF Register
  <2>3. mutex = "free" /\ Insert(k, [value |-> v, clock |-> c])
    BY <1>1 DEF Put
  <2> QED BY <2>2, <2>3, AckedInsert
<1>2. ASSUME NEW k \in Key, NEW incoming \in Incoming[k], PutCrdt(k, incoming)
      PROVE  AckedInv'
  <2>1. incoming \in Register
    BY EngineAssumption
  <2>2. PICK existing \in GetResults(k) :
          Insert(k, IF existing = NoReg THEN incoming ELSE Merge(incoming, existing))
    BY <1>2 DEF PutCrdt
  <2>3. (IF existing = NoReg THEN incoming ELSE Merge(incoming, existing)) \in Register
    BY <2>1, GetResultsType, MergeType
  <2>4. mutex = "free"
    BY <1>2 DEF PutCrdt
  <2> QED BY <2>2, <2>3, <2>4, AckedInsert
<1>3. CASE AppendLog \/ SwapActive \/ LinkFrozen
  BY <1>3, TypeStep, AckedAppendLog, AckedSwapActive, AckedLinkFrozen
<1>4. CASE StartFlush \/ PublishFlush
  <2>1. {mutex, mutex'} = {"free", "worker"}
    BY <1>4 DEF StartFlush, PublishFlush
  <2> QED BY <1>4, <2>1, AckedElse DEF StartFlush, PublishFlush, memVars, walVars, history
<1>5. CASE \/ FlushTable \/ NothingToFlush
           \/ PlanCompaction \/ ExecuteCompaction \/ ApplyCompaction
  BY <1>5, AckedElse
     DEF FlushTable, NothingToFlush, PlanCompaction, ExecuteCompaction,
         ApplyCompaction, memVars, walVars, putVars, history
<1>6. ASSUME NEW r \in Reader, Get(r) PROVE AckedInv'
  BY <1>6, AckedElse
     DEF Get, GetActive, GetImmutable, GetFiles, EndGet, memVars, walVars, putVars, history
<1>7. CASE Kill \/ PowerLoss
  BY <1>7, TypeStep, AckedCrash
<1>8. CASE UNCHANGED vars
  BY <1>8, AckedElse DEF vars, memVars, walVars, putVars, history
<1> QED BY <1>1, <1>2, <1>3, <1>4, <1>5, <1>6, <1>7, <1>8
        DEF Next, Writer, Write, Worker

\* Only a crash counts as one.
LEMMA OnlyCrash ==
  ASSUME TypeOK, [Next]_vars, kills' > kills \/ powerLosses' > powerLosses
  PROVE  Kill \/ PowerLoss
<1>1. kills \in Nat /\ powerLosses \in Nat
  BY DEF TypeOK
<1>2. CASE Write
  <2>1. ASSUME NEW k, NEW reg, Insert(k, reg)
        PROVE  kills' = kills /\ powerLosses' = powerLosses
    BY <2>1 DEF Insert
  <2>2. \E k, reg : Insert(k, reg)
    BY <1>2 DEF Write, Put, PutCrdt
  <2> QED BY <1>1, <2>1, <2>2
<1>3. CASE AppendLog \/ SwapActive \/ LinkFrozen
  BY <1>1, <1>3 DEF AppendLog, SwapActive, LinkFrozen, bounds, history
<1>4. CASE Worker
  BY <1>1, <1>4
     DEF Worker, StartFlush, FlushTable, PublishFlush, NothingToFlush,
         PlanCompaction, ExecuteCompaction, ApplyCompaction, bounds, history
<1>5. ASSUME NEW r \in Reader, Get(r) PROVE FALSE
  BY <1>1, <1>5 DEF Get, GetActive, GetImmutable, GetFiles, EndGet, bounds, history
<1>6. CASE UNCHANGED vars
  BY <1>1, <1>6 DEF vars, bounds, history
<1> QED BY <1>1, <1>2, <1>3, <1>4, <1>5, <1>6 DEF Next, Writer

\* What comes back of a key in the log v, which holds all that had been
\* written when everything stopped.
LEMMA WholeLog ==
  ASSUME SyncedLines, TypeOK, LoggedInv, AckedInv, NEW v \in Logs,
         NEW k \in Key, ~Behind(wal, k)
  PROVE  \/ Replay(v)[k] = acked[k]
         \/ pending # NoPut /\ pending.key = k /\ Replay(v)[k] = pending.reg
<1>1. wal \in Seq(Record \cup {Torn})
  BY DEF TypeOK
<1>2. CASE Replay(v)[k] = Replay(wal)[k]
  <2>1. CASE mutex \in {"swap", "link"} /\ pending.key = k
    <3>1. Replay(wal)[k] = pending.reg /\ pending # NoPut
      BY <2>1 DEF LoggedInv, AckedInv, AckedLogged
    <3> QED BY <1>2, <2>1, <3>1
  <2>2. CASE acked[k] = Replay(wal)[k]
    BY <1>2, <2>2
  <2> QED BY <2>1, <2>2 DEF AckedInv, AckedLogged
<1>3. CASE mutex = "log" /\ pending \in Record /\ v = Append(wal, pending)
  <2>1. \/ Replay(v)[k] = Replay(wal)[k]
        \/ k = pending.key /\ Replay(v)[k] = pending.reg
    BY <1>1, <1>3, ReplayAppend
  <2>2. pending # NoPut
    BY <1>3 DEF AckedInv, AckedLogged
  <2> QED BY <1>2, <1>3, <2>1, <2>2
<1> QED BY <1>2, <1>3, LogsAre

\* What comes back of a key after a kill, or after a loss of power.
LEMMA AfterCrash ==
  ASSUME SyncedLines, TypeOK, LoggedInv, AckedInv, Kill \/ PowerLoss,
         NEW k \in Key, ~Behind(wal, k)
  PROVE  \/ acked'[k] = acked[k]
         \/ pending # NoPut /\ pending.key = k /\ acked'[k] = pending.reg
         \/ PowerLoss /\ acked'[k] \in unsettled[k]
<1>1. PICK v \in Logs, w \in Seq(Record \cup {Torn}), m \in Seq(Entry), s \in Nat :
        /\ v \in Seq(Record \cup {Torn}) /\ s \in 0..Len(w)
        /\ CrashLog(v, w, s) /\ Recover(w, s, m)
  BY CrashIs
<1>2. acked'[k] = Replay(w)[k]
  BY <1>1, RecoveredIsLogged
<1>3. CASE Killed(v, w, s)
  BY <1>2, <1>3, WholeLog DEF Killed
<1>4. ASSUME NEW keep \in 0..Len(v), LostPower(v, keep, w, s)
      PROVE  \/ acked'[k] = acked[k]
             \/ pending # NoPut /\ pending.key = k /\ acked'[k] = pending.reg
             \/ PowerLoss /\ acked'[k] \in unsettled[k]
  <2>1. Replay(w)[k] = Replay(SubSeq(v, 1, keep))[k]
    <3>1. SubSeq(v, 1, keep) \in Seq(Record \cup {Torn})
      BY <1>1, PrefixIs
    <3> QED BY <1>4, <3>1, ReplayTorn DEF LostPower, Cut
  <2>2. CASE keep = Len(v)
    <3>1. SubSeq(v, 1, keep) = v
      BY <1>1, <2>2, PrefixIs
    <3> QED BY <1>2, <2>1, <3>1, WholeLog
  <2>3. CASE keep # Len(v)
    <3>1. /\ Len(wal) \in Nat /\ synced \in Nat /\ synced <= Len(wal)
          /\ keep \in synced..Len(v)
      BY <1>4 DEF TypeOK, LostPower
    <3>2. keep \in synced..Len(wal) /\ keep \in 0..Len(wal)
      BY <2>3, <3>1, LogsAre
    <3>3. SubSeq(v, 1, keep) = SubSeq(wal, 1, keep)
      BY <3>2, LogsAre
    <3>4. SyncWrites
      BY <1>4 DEF LostPower, PowerLoss, TypeOK, SyncedLines
    <3>5. ~(mutex \in {"swap", "link"})
      <4> SUFFICES ASSUME mutex \in {"swap", "link"} PROVE FALSE
        OBVIOUS
      <4>1. synced = Len(wal) /\ Len(v) = Len(wal)
        BY <3>4, LogsAre DEF LoggedInv
      <4> QED BY <2>3, <3>1, <4>1
    <3>6. Replay(SubSeq(wal, 1, keep))[k] \in {acked[k]} \cup unsettled[k]
      BY <3>2, <3>4, <3>5 DEF AckedInv, CutSettles
    <3> QED BY <1>2, <1>4, <2>1, <3>3, <3>6 DEF LostPower
  <2> QED BY <2>2, <2>3
<1> QED BY <1>1, <1>3, <1>4 DEF CrashLog

\* Unless power is lost or a clock holds a separator byte, a put that has
\* returned survives a kill at any moment: its key comes back as it wrote it
\* or as a put under way was writing it.
THEOREM AckedAlwaysSurvives == AllLines => (Spec => AckedSurvives)
<1> SUFFICES ASSUME AllLines PROVE Spec => AckedSurvives
  OBVIOUS
<1> DEFINE Survives ==
      kills' > kills
        => \A k \in Key :
             \/ acked'[k] = acked[k]
             \/ pending # NoPut /\ pending.key = k /\ acked'[k] = pending.reg
<1>1. Init => TypeOK /\ LoggedInv /\ AckedInv
  BY TypeInit, LoggedInit, AckedInit
<1>2. TypeOK /\ LoggedInv /\ AckedInv /\ [Next]_vars
        => (TypeOK /\ LoggedInv /\ AckedInv)'
  BY TypeStep, LoggedStep, AckedStep, AllLinesAreSynced
<1>3. TypeOK /\ LoggedInv /\ AckedInv /\ [Next]_vars => [Survives]_vars
  BY OnlyCrash, AfterCrash, AllLinesAreSynced, NothingBehind, NoPowerLoss
<1> QED BY <1>1, <1>2, <1>3, PTL DEF Spec, AckedSurvives

\* With synced writes, and clocks without a separator byte, a put that has
\* returned survives any number of losses of power and kills, one after the
\* other and at any moment, unless a loss of power left part of a record at
\* the end of the log and the put was the next to be appended.  Only a put
\* that was killed before it returned can be there after the kill and be
\* gone after a loss of power.
THEOREM AckedAlwaysSurvivesOffTornTail ==
  SyncedLines => (Spec => AckedSurvivesOffTornTail)
<1> SUFFICES ASSUME SyncedLines PROVE Spec => AckedSurvivesOffTornTail
  OBVIOUS
<1> DEFINE Survives ==
      kills' > kills \/ (SyncWrites /\ powerLosses' > powerLosses)
        => \A k \in Key :
             \/ Shadowed(k)
             \/ acked'[k] = acked[k]
             \/ pending # NoPut /\ pending.key = k /\ acked'[k] = pending.reg
             \/ powerLosses' > powerLosses /\ acked'[k] \in unsettled[k]
<1>1. Init => TypeOK /\ LoggedInv /\ AckedInv
  BY TypeInit, LoggedInit, AckedInit
<1>2. TypeOK /\ LoggedInv /\ AckedInv /\ [Next]_vars
        => (TypeOK /\ LoggedInv /\ AckedInv)'
  BY TypeStep, LoggedStep, AckedStep
<1>3. TypeOK /\ PowerLoss => powerLosses' > powerLosses
  BY DEF PowerLoss, TypeOK
<1>4. TypeOK /\ LoggedInv /\ AckedInv /\ [Next]_vars => [Survives]_vars
  BY <1>3, OnlyCrash, AfterCrash, ShadowedIs
<1> QED BY <1>1, <1>2, <1>4, PTL DEF Spec, AckedSurvivesOffTornTail

-----------------------------------------------------------------------------
(* Neither a flush nor a compaction loses a version.                       *)

\* f holds a version of every key that the file g has, and no older one.
Supersedes(f, g) ==
  \A k \in Key : files[g][k] # NoReg =>
    files[f][k] # NoReg /\ Leq(files[g][k].clock, files[f][k].clock)

\* The files of the layout, and those that are about to be published.
Reach(lay, op) == op \cup UNION {lay[l] : l \in Level}

Reachable == Reach(layout, opened)

LEMMA ReachIs ==
  ASSUME NEW lay, NEW op, NEW f
  PROVE  f \in Reach(lay, op) <=> f \in op \/ \E l \in Level : f \in lay[l]
BY DEF Reach

LEMMA ReachableType == TypeOK => Reachable \subseteq Files
<1> SUFFICES ASSUME TypeOK, NEW f \in Reachable PROVE f \in Files
  OBVIOUS
<1>1. f \in opened \/ \E l \in Level : f \in layout[l]
  BY ReachIs DEF Reachable
<1>2. layout \in [Level -> SUBSET Files] /\ opened \in SUBSET Files
  BY DEF TypeOK
<1> QED BY <1>1, <1>2

\* FlushedIsReachable is not inductive: when the inputs of a compaction
\* leave their level, its output must supersede each of them.
FlushedInv ==
  /\ FlushedIsReachable
  /\ worker = "apply" /\ task.inputs # {} =>
       \E f \in task.output : \A g \in task.inputs : Supersedes(f, g)

\* A flushed memtable is never written again, and what superseded it is
\* published still or superseded in its turn.
LEMMA FlushedKept ==
  ASSUME TypeOK, FlushedInv,
         flushed' = flushed,
         \A i \in flushed : tables'[i] = tables[i],
         files' = files \/ \E c : files' = Append(files, c),
         \A g \in Reachable :
           \E f \in Files : f \in Reachable' /\ Supersedes(f, g)
  PROVE  FlushedIsReachable'
<1>1. ASSUME NEW i \in flushed, NEW k \in Key, tables[i][k] # NoReg
      PROVE  \E f \in Reachable' :
               /\ files'[f][k] # NoReg
               /\ Leq(tables[i][k].clock, files'[f][k].clock)
  <2>1. PICK g \in Reachable :
          files[g][k] # NoReg /\ Leq(tables[i][k].clock, files[g][k].clock)
    BY <1>1 DEF FlushedInv, FlushedIsReachable, Reachable, Reach
  <2>2. PICK f \in Files : f \in Reachable' /\ Supersedes(f, g)
    BY <2>1
  <2>3. g \in Files /\ files'[f] = files[f]
    <3>1. g \in Files
      BY ReachableType
    <3>2. files \in Seq(Content) /\ f \in 1..Len(files)
      BY DEF TypeOK, Files
    <3>3. \A c : Append(files, c)[f] = files[f]
      BY <3>2
    <3> QED BY <3>1, <3>3
  <2>4. files[f][k] # NoReg /\ Leq(files[g][k].clock, files[f][k].clock)
    BY <2>1, <2>2 DEF Supersedes
  <2>5. /\ tables[i][k].clock \in Clock
        /\ files[g][k].clock \in Clock /\ files[f][k].clock \in Clock
    <3>1. i \in 1..Len(tables) /\ tables[i] \in Content
      BY DEF TypeOK
    <3>2. files[f] \in Content /\ files[g] \in Content
      BY <2>3 DEF TypeOK, Files
    <3> QED BY <1>1, <2>1, <2>4, <3>1, <3>2 DEF Content, Register
  <2>6. Leq(tables[i][k].clock, files[f][k].clock)
    BY <2>1, <2>4, <2>5, LeqIsPartialOrder
  <2> QED BY <2>2, <2>3, <2>4, <2>6
<1> QED BY <1>1, Zenon DEF FlushedIsReachable, Reachable, Reach

LEMMA SupersedesItself ==
  ASSUME TypeOK, NEW f \in Files
  PROVE  Supersedes(f, f)
<1>1. files[f] \in Content
  BY DEF TypeOK, Files
<1> QED BY <1>1, LeqIsPartialOrder DEF Supersedes, Content, Register

\* A step that publishes nothing and takes nothing away.
LEMMA FlushedElse ==
  ASSUME TypeOK, FlushedInv,
         flushed' = flushed,
         \A i \in flushed : tables'[i] = tables[i],
         files' = files, Reachable \subseteq Reachable',
         worker' = "apply" => worker = "apply" /\ task' = task
  PROVE  FlushedInv'
<1>1. Reachable \subseteq Files
  BY ReachableType
<1>2. FlushedIsReachable'
  <2>1. \A g \in Reachable :
          \E f \in Files : f \in Reachable' /\ Supersedes(f, g)
    BY <1>1, SupersedesItself
  <2> QED BY <2>1, FlushedKept
<1>3. \A f, g : Supersedes(f, g)' <=> Supersedes(f, g)
  BY DEF Supersedes
<1> QED BY <1>2, <1>3 DEF FlushedInv

\* A put, an append and the rotation of the memtables.
LEMMA FlushedWriter ==
  ASSUME TypeOK, FlushedInv,
         UNCHANGED <<flushed, fileVars, workVars>>,
         \/ \E k, reg : tables' = [tables EXCEPT ![Len(tables)][k] = reg]
         \/ \E c : tables' = Append(tables, c)
         \/ tables' = tables
  PROVE  FlushedInv'
<1>1. \A i \in flushed : tables'[i] = tables[i]
  <2>1. /\ tables \in Seq(Content) /\ Len(tables) \in Nat
        /\ \A i \in flushed : i \in 1..(Len(tables) - 1)
    BY DEF TypeOK
  <2>2. \A c : \A i \in flushed : Append(tables, c)[i] = tables[i]
    BY <2>1
  <2>3. \A t : \A i \in flushed :
          [tables EXCEPT ![Len(tables)] = t][i] = tables[i]
    BY <2>1
  <2> QED BY <2>2, <2>3
<1>2. Reachable' = Reachable
  BY DEF fileVars, workVars, Reachable, Reach
<1> QED BY <1>1, <1>2, FlushedElse DEF fileVars, workVars

LEMMA FlushedFlushTable ==
  ASSUME MaxFailures = 0, TypeOK, FlushedInv, FlushTable
  PROVE  FlushedInv'
<1>1. PICK i \in Unflushed, ok \in BOOLEAN :
        /\ files' = Append(files, tables[i])
        /\ opened' = IF ok THEN opened \cup {Len(files) + 1} ELSE opened
        /\ MayOpen(ok)
        /\ flushed' = flushed \cup {i}
  BY DEF FlushTable
<1>2. ok
  BY <1>1 DEF MayOpen, TypeOK
<1> DEFINE f == Len(files) + 1
<1>3. /\ files \in Seq(Content) /\ tables[i] \in Content
      /\ i \in 1..Len(tables)
  BY DEF TypeOK, Unflushed
<1>4. files'[f] = tables[i] /\ \A g \in Files : files'[g] = files[g]
  BY <1>1, <1>3 DEF Files
<1>5. Reachable' = Reachable \cup {f}
  <2>1. layout' = layout /\ opened' = opened \cup {f}
    BY <1>1, <1>2 DEF FlushTable
  <2>2. \A g : g \in Reachable' <=> g \in opened' \/ \E l \in Level : g \in layout'[l]
    BY ReachIs DEF Reachable
  <2>3. \A g : g \in Reachable <=> g \in opened \/ \E l \in Level : g \in layout[l]
    BY ReachIs DEF Reachable
  <2> QED BY <2>1, <2>2, <2>3
<1>6. Reachable \subseteq Files
  BY ReachableType
<1>7. tables' = tables /\ worker' = "flush"
  BY DEF FlushTable
<1> HIDE DEF f
<1>8. ASSUME NEW j \in flushed', NEW k \in Key, tables'[j][k] # NoReg
      PROVE  \E g \in Reachable' :
               /\ files'[g][k] # NoReg
               /\ Leq(tables'[j][k].clock, files'[g][k].clock)
  <2>1. CASE j = i
    <3>1. tables[i][k].clock \in Clock
      BY <1>3, <1>7, <1>8, <2>1 DEF Content, Register
    <3>2. Leq(tables[i][k].clock, tables[i][k].clock)
      BY <3>1, LeqIsPartialOrder
    <3> QED BY <1>4, <1>5, <1>7, <1>8, <2>1, <3>2
  <2>2. CASE j \in flushed
    <3>1. PICK g \in Reachable :
            files[g][k] # NoReg /\ Leq(tables[j][k].clock, files[g][k].clock)
      BY <1>7, <1>8, <2>2 DEF FlushedInv, FlushedIsReachable, Reachable, Reach
    <3> QED BY <1>4, <1>5, <1>6, <1>7, <3>1
  <2> QED BY <1>1, <2>1, <2>2
<1>9. FlushedIsReachable'
  BY <1>8, Zenon DEF FlushedIsReachable, Reachable, Reach
<1> QED BY <1>7, <1>9 DEF FlushedInv

LEMMA FlushedPublishFlush ==
  ASSUME TypeOK, FlushedInv, PublishFlush
  PROVE  FlushedInv'
<1>1. layout' = [layout EXCEPT ![0] = @ \cup opened] /\ layout \in [Level -> SUBSET Files]
  BY DEF PublishFlush, TypeOK
<1>2. Reachable \subseteq Reachable'
  <2>1. \A g : g \in Reachable' <=> g \in opened' \/ \E l \in Level : g \in layout'[l]
    BY ReachIs DEF Reachable
  <2>2. \A g : g \in Reachable <=> g \in opened \/ \E l \in Level : g \in layout[l]
    BY ReachIs DEF Reachable
  <2>3. \A l \in Level : layout[l] \subseteq layout'[l]
    BY <1>1
  <2>4. opened \subseteq layout'[0]
    BY <1>1, ZeroIsLevel
  <2> QED BY <2>1, <2>2, <2>3, <2>4, ZeroIsLevel
<1> QED BY <1>2, FlushedElse DEF PublishFlush, memVars

LEMMA FlushedExecuteCompaction ==
  ASSUME MaxFailures = 0, TypeOK, FlushedInv, ExecuteCompaction
  PROVE  FlushedInv'
<1>1. task \in Task /\ task.inputs \in SUBSET Files
  BY DEF ExecuteCompaction, TypeOK, Task
<1>2. /\ tables' = tables /\ flushed' = flushed
      /\ layout' = layout /\ opened' = opened
  BY DEF ExecuteCompaction, memVars
<1>3. CASE task.inputs = {}
  <2>1. files' = files /\ task' = task
    BY <1>3 DEF ExecuteCompaction
  <2>2. FlushedIsReachable'
    BY <1>2, <2>1 DEF FlushedInv, FlushedIsReachable
  <2> QED BY <1>3, <2>1, <2>2 DEF FlushedInv
<1>4. CASE task.inputs # {}
  <2>0. PICK n \in Nat : n = Len(files) + 1
    BY DEF TypeOK
  <2>1. PICK s \in Listings(task.inputs), ok \in BOOLEAN :
          /\ files' = Append(files, [k \in Key |-> Folded(s, k)])
          /\ task' = IF ok THEN [task EXCEPT !.output = {n}] ELSE task
          /\ MayOpen(ok)
    <3>1. PICK s \in Listings(task.inputs), ok \in BOOLEAN :
            /\ files' = Append(files, [k \in Key |-> Folded(s, k)])
            /\ task' = IF ok THEN [task EXCEPT !.output = {Len(files')}] ELSE task
            /\ MayOpen(ok)
      BY <1>4 DEF ExecuteCompaction
    <3>2. Len(files') = n
      BY <2>0, <3>1 DEF TypeOK
    <3> QED BY <3>1, <3>2
  <2>2. ok
    BY <2>1 DEF MayOpen, TypeOK
  <2>3. task'.inputs = task.inputs /\ task'.output = {n}
    BY <1>1, <2>1, <2>2 DEF Task
  <2>4. /\ files'[n] = [k \in Key |-> Folded(s, k)]
        /\ \A g \in Files : files'[g] = files[g]
    BY <2>0, <2>1 DEF TypeOK, Files
  <2>5. ASSUME NEW g \in task.inputs PROVE Supersedes(n, g)'
    <3>1. PICK i \in 1..Len(s) : s[i] = g
      BY <1>1, ListingIsAll
    <3>2. s \in Seq(task.inputs)
      BY <1>1, ListingIsSeq
    <3>3. ASSUME NEW k \in Key, files[g][k] # NoReg
          PROVE  /\ Folded(s, k) # NoReg
                 /\ Leq(files[g][k].clock, Folded(s, k).clock)
      BY <1>1, <3>1, <3>2, <3>3, FoldedCovers
    <3> QED BY <1>1, <2>4, <3>3 DEF Supersedes
  <2>6. FlushedIsReachable'
    <3>1. Reachable' = Reachable
      BY <1>2 DEF Reachable
    <3>2. Reachable \subseteq Files
      BY ReachableType
    <3> QED BY <1>2, <2>1, <3>1, <3>2, SupersedesItself, FlushedKept
  <2> QED BY <2>3, <2>5, <2>6 DEF FlushedInv
<1> QED BY <1>3, <1>4

LEMMA FlushedApplyCompaction ==
  ASSUME TypeOK, FlushedInv, ApplyCompaction
  PROVE  FlushedInv'
<1>1. /\ task.level \in Level /\ task.level + 1 \in Level
      /\ task.inputs \in SUBSET Files /\ task.output \in SUBSET Files
  <2>1. task \in Task
    BY DEF ApplyCompaction, TypeOK
  <2>2. NumLevels \in Nat
    BY EngineAssumption
  <2> QED BY <2>1, <2>2 DEF Task, Level
<1> DEFINE l == task.level
<1>2. layout' = [layout EXCEPT ![l] = @ \ task.inputs, ![l + 1] = @ \cup task.output]
  BY DEF ApplyCompaction
<1>3. layout \in [Level -> SUBSET Files] /\ l # l + 1
  BY <1>1 DEF TypeOK, Level
<1>4. /\ layout'[l] = layout[l] \ task.inputs
      /\ layout'[l + 1] = layout[l + 1] \cup task.output
      /\ \A m \in Level \ {l} : layout[m] \subseteq layout'[m]
  BY <1>1, <1>2, <1>3
<1> HIDE DEF l
<1>5. /\ tables' = tables /\ flushed' = flushed /\ files' = files
      /\ opened' = opened /\ worker' = "flush" /\ worker = "apply"
  BY DEF ApplyCompaction, memVars
<1>6. /\ task.output \subseteq Reachable'
      /\ \A g \in Reachable : g \in Reachable' \/ g \in task.inputs
  BY <1>1, <1>4, <1>5, ReachIs DEF Reachable, l
<1>7. ASSUME NEW g \in Reachable
      PROVE  \E f \in Files : f \in Reachable' /\ Supersedes(f, g)
  <2>1. g \in Files
    BY ReachableType
  <2>2. CASE g \in Reachable'
    BY <1>5, <2>1, <2>2, SupersedesItself
  <2>3. CASE g \in task.inputs
    <3>1. PICK f \in task.output : Supersedes(f, g)
      BY <1>5, <2>3 DEF FlushedInv
    <3> QED BY <1>1, <1>6, <3>1
  <2> QED BY <1>6, <2>2, <2>3
<1>8. FlushedIsReachable'
  BY <1>5, <1>7, FlushedKept
<1> QED BY <1>5, <1>8 DEF FlushedInv

LEMMA FlushedRecover ==
  ASSUME NEW w, NEW s, NEW m, Recover(w, s, m)
  PROVE  FlushedInv'
BY DEF Recover, FlushedInv, FlushedIsReachable

LEMMA FlushedStep ==
  ASSUME MaxFailures = 0, TypeOK, FlushedInv, [Next]_vars
  PROVE  FlushedInv'
<1>1. CASE Write
  <2>1. \E k, reg : Insert(k, reg)
    BY <1>1 DEF Write, Put, PutCrdt
  <2> QED BY <2>1, FlushedWriter DEF Insert
<1>2. CASE AppendLog
  BY <1>2, FlushedWriter DEF AppendLog, memVars
<1>3. CASE SwapActive \/ LinkFrozen
  BY <1>3, FlushedWriter DEF SwapActive, LinkFrozen
<1>4. CASE FlushTable \/ PublishFlush \/ ExecuteCompaction \/ ApplyCompaction
  BY <1>4, FlushedFlushTable, FlushedPublishFlush, FlushedExecuteCompaction,
     FlushedApplyCompaction
<1>5. CASE StartFlush \/ NothingToFlush \/ PlanCompaction
  <2>1. /\ UNCHANGED <<memVars, fileVars, opened>>
        /\ worker' = "apply" => worker = "apply" /\ task' = task
    BY <1>5 DEF StartFlush, NothingToFlush, PlanCompaction, workVars
  <2> QED BY <2>1, FlushedElse DEF memVars, fileVars, Reachable
<1>6. ASSUME NEW r \in Reader, Get(r) PROVE FlushedInv'
  BY <1>6, FlushedWriter
     DEF Get, GetActive, GetImmutable, GetFiles, EndGet, memVars
<1>7. CASE Kill \/ PowerLoss
  BY <1>7, FlushedRecover DEF Kill, PowerLoss
<1>8. CASE UNCHANGED vars
  BY <1>8, FlushedWriter DEF vars, memVars
<1> QED BY <1>1, <1>2, <1>3, <1>4, <1>5, <1>6, <1>7, <1>8
        DEF Next, Writer, Worker

\* If every table file that is written can be opened, then whatever is
\* flushed and compacted, killed and opened again, what a flushed memtable
\* held is in a published file, or superseded by what is.
THEOREM FlushedAlwaysReachable ==
  MaxFailures = 0 => (Spec => []FlushedIsReachable)
<1> SUFFICES ASSUME MaxFailures = 0 PROVE Spec => []FlushedIsReachable
  OBVIOUS
<1>1. Init => TypeOK /\ FlushedInv
  BY TypeInit DEF Init, FlushedInv, FlushedIsReachable
<1>2. TypeOK /\ FlushedInv /\ [Next]_vars => (TypeOK /\ FlushedInv)'
  BY TypeStep, FlushedStep
<1>3. FlushedInv => FlushedIsReachable
  BY DEF FlushedInv
<1> QED BY <1>1, <1>2, <1>3, PTL DEF Spec

-----------------------------------------------------------------------------
(* The readers, that take no lock. *)

\* What a call that has searched the active memtable will find in the list.
Frozen(k) == Newest(tables, 1..linked, k)

\* The memtable in which the put under way is.
ActiveInv ==
  mutex \in {"log", "swap"} => tables[Len(tables)][pending.key] = pending.reg

\* ReadsOffRotationAreRegular is not inductive: what a call has still to find
\* must be what it may return.  While no memtable is rotated the list stays
\* as it was when the call began, and a file can only get the key from it.
CallOf(r, k) == get[r].at # "idle" /\ get[r].key = k /\ ~get[r].rotated

CallInv(r) ==
  \A k \in Key : CallOf(r, k) =>
    /\ mutex # "link"
    /\ \/ Behind(wal, k)
       \/ /\ get[r].at \in {"immutable", "files"} =>
               /\ Frozen(k) \in get[r].allowed
               /\ Frozen(k) = NoReg => \A f \in Files : files[f][k] = NoReg
          /\ get[r].at = "files" => Frozen(k) = NoReg
          /\ get[r].at = "done" =>
               get[r].found \in {Visible(v) : v \in get[r].allowed}

CallsInv == \A r \in Reader : CallInv(r)

\* A call that a step leaves where it is, the memtables of the list as they
\* are, and the files without keys that are new to the list and the files.
LEMMA CallStays ==
  ASSUME TypeOK, NEW r \in Reader, CallInv(r),
         \/ get'[r].at = "idle"
         \/ /\ get'[r].at = get[r].at /\ get'[r].key = get[r].key
            /\ get'[r].rotated = get[r].rotated /\ get'[r].found = get[r].found
            /\ get[r].allowed \subseteq get'[r].allowed,
         mutex' # "link",
         \A k \in Key : Behind(wal, k) => Behind(wal', k),
         \A k \in Key : Frozen(k)' = Frozen(k),
         \A f \in Files', k \in Key :
           files'[f][k] # NoReg =>
             Frozen(k) # NoReg \/ \E g \in Files : files[g][k] # NoReg
  PROVE  CallInv(r)'
<1> SUFFICES ASSUME NEW k \in Key, CallOf(r, k)', ~Behind(wal', k)
             PROVE  /\ get'[r].at \in {"immutable", "files"} =>
                         /\ Frozen(k)' \in get'[r].allowed
                         /\ Frozen(k)' = NoReg
                              => \A f \in Files' : files'[f][k] = NoReg
                    /\ get'[r].at = "files" => Frozen(k)' = NoReg
                    /\ get'[r].at = "done" =>
                         get'[r].found \in {Visible(v) : v \in get'[r].allowed}
  BY DEF CallInv
<1>1. /\ get'[r].at = get[r].at /\ get'[r].key = get[r].key
      /\ get'[r].rotated = get[r].rotated /\ get'[r].found = get[r].found
      /\ get[r].allowed \subseteq get'[r].allowed
  BY DEF CallOf
<1>2. CallOf(r, k) /\ ~Behind(wal, k)
  BY <1>1 DEF CallOf
<1>3. /\ get[r].at \in {"immutable", "files"} =>
           /\ Frozen(k) \in get[r].allowed
           /\ Frozen(k) = NoReg => \A f \in Files : files[f][k] = NoReg
      /\ get[r].at = "files" => Frozen(k) = NoReg
      /\ get[r].at = "done" => get[r].found \in {Visible(v) : v \in get[r].allowed}
  BY <1>2 DEF CallInv
<1>4. Frozen(k)' = Frozen(k)
  OBVIOUS
<1>5. ASSUME Frozen(k) = NoReg, \A f \in Files : files[f][k] = NoReg
      PROVE  \A f \in Files' : files'[f][k] = NoReg
  BY <1>5
<1> QED BY <1>1, <1>3, <1>4, <1>5

\* The memtables in the list do not change.
LEMMA FrozenStays ==
  ASSUME TypeOK, TypeOK', linked' = linked, NEW k \in Key,
         \/ tables' = tables
         \/ \E j \in Key, reg \in Register : Insert(j, reg)
  PROVE  Frozen(k)' = Frozen(k)
<1>1. CASE tables' = tables
  BY <1>1 DEF Frozen
<1>2. ASSUME NEW j \in Key, NEW reg \in Register, Insert(j, reg)
      PROVE  Frozen(k)' = Frozen(k)
  <2>1. tables' = [tables EXCEPT ![Len(tables)][j] = reg]
    BY <1>2 DEF Insert
  <2>2. /\ tables \in Seq(Content) /\ tables' \in Seq(Content)
        /\ linked \in 0..(Len(tables) - 1)
    BY DEF TypeOK
  <2>3. Len(tables) \in Nat /\ Len(tables') = Len(tables)
    BY <2>1, <2>2
  <2>4. \A i \in 1..linked : i \in 1..Len(tables) /\ i # Len(tables)
    BY <2>2, <2>3
  <2>5. \A i \in 1..linked : tables[i][k] = tables'[i][k]
    BY <2>1, <2>2, <2>4
  <2>6. 1..linked \in SUBSET (1..Len(tables)) /\ 1..linked \in SUBSET (1..Len(tables'))
    BY <2>3, <2>4
  <2>7. Newest(tables', 1..linked, k) = Newest(tables, 1..linked, k)
    BY <2>2, <2>5, <2>6, NewestSame
  <2> QED BY <2>7 DEF Frozen
<1> QED BY <1>1, <1>2

LEMMA ReadsInsert ==
  ASSUME TypeOK, TypeOK', CallsInv, mutex = "free", NEW k \in Key,
         NEW reg \in Register, Insert(k, reg)
  PROVE  ActiveInv' /\ CallsInv'
<1>1. /\ mutex' = "log" /\ pending' = [key |-> k, reg |-> reg]
      /\ tables' = [tables EXCEPT ![Len(tables)][k] = reg]
      /\ wal' = wal /\ files' = files /\ linked' = linked
  BY DEF Insert, walVars, fileVars
<1>2. ActiveInv'
  <2>1. /\ tables \in Seq(Content) /\ tables' \in Seq(Content)
        /\ linked \in 0..(Len(tables) - 1)
    BY DEF TypeOK
  <2>2. Len(tables) \in 1..Len(tables) /\ Len(tables') = Len(tables)
    BY <1>1, <2>1
  <2>3. tables[Len(tables)] \in [Key -> Register \cup {NoReg}]
    BY <2>1, <2>2 DEF Content
  <2>4. tables'[Len(tables)][k] = reg
    BY <1>1, <2>1, <2>2, <2>3
  <2> QED BY <1>1, <2>2, <2>4 DEF ActiveInv
<1>3. ASSUME NEW r \in Reader PROVE CallInv(r)'
  <2>1. get' = [s \in Reader |->
                  IF get[s].at # "idle" /\ get[s].key = k
                  THEN [get[s] EXCEPT !.allowed = @ \cup {reg}] ELSE get[s]]
    BY DEF Insert, Witness
  <2>2. get[r] \in Call
    BY DEF TypeOK
  <2>3. /\ get'[r].at = get[r].at /\ get'[r].key = get[r].key
        /\ get'[r].rotated = get[r].rotated /\ get'[r].found = get[r].found
        /\ get[r].allowed \subseteq get'[r].allowed
    BY <2>1, <2>2 DEF Call
  <2>4. \A j \in Key : Frozen(j)' = Frozen(j)
    BY <1>1, FrozenStays
  <2>5. CallInv(r)
    BY DEF CallsInv
  <2> QED BY <1>1, <2>3, <2>4, <2>5, CallStays DEF Files
<1> QED BY <1>2, <1>3 DEF CallsInv

\* A step of the writer or the worker that leaves the memtables alone, and
\* the files but for one whose keys the list or another file has.
LEMMA ReadsElse ==
  ASSUME TypeOK, TypeOK', ActiveInv, CallsInv,
         tables' = tables, linked' = linked, get' = get,
         mutex' # "link",
         mutex' \in {"log", "swap"} =>
           mutex \in {"log", "swap"} /\ pending' = pending,
         \A k \in Key : Behind(wal, k) => Behind(wal', k),
         \/ files' = files
         \/ \E c \in Content :
              /\ files' = Append(files, c)
              /\ \A k \in Key : c[k] # NoReg =>
                   Frozen(k) # NoReg \/ \E g \in Files : files[g][k] # NoReg
  PROVE  ActiveInv' /\ CallsInv'
<1>1. ActiveInv'
  BY DEF ActiveInv
<1>2. \A f \in Files', k \in Key :
        files'[f][k] # NoReg =>
          Frozen(k) # NoReg \/ \E g \in Files : files[g][k] # NoReg
  <2>1. CASE files' = files
    BY <2>1 DEF Files
  <2>2. ASSUME NEW c \in Content, files' = Append(files, c),
               \A k \in Key : c[k] # NoReg =>
                 Frozen(k) # NoReg \/ \E g \in Files : files[g][k] # NoReg
        PROVE  \A f \in Files', k \in Key :
                 files'[f][k] # NoReg =>
                   Frozen(k) # NoReg \/ \E g \in Files : files[g][k] # NoReg
    <3>1. /\ Len(files) \in Nat /\ Len(files') = Len(files) + 1
          /\ files'[Len(files')] = c
          /\ \A f \in 1..Len(files) : files'[f] = files[f]
      BY <2>2 DEF TypeOK
    <3> QED BY <2>2, <3>1 DEF Files
  <2> QED BY <2>1, <2>2
<1>3. \A k \in Key : Frozen(k)' = Frozen(k)
  BY FrozenStays
<1>4. ASSUME NEW r \in Reader PROVE CallInv(r)'
  <2>1. CallInv(r)
    BY DEF CallsInv
  <2> QED BY <1>2, <1>3, <2>1, CallStays
<1> QED BY <1>1, <1>4 DEF CallsInv

\* A record more hides no more keys, and reveals none.
LEMMA BehindStays ==
  ASSUME TypeOK, NEW rec \in Record, NEW k \in Key, Behind(wal, k)
  PROVE  Behind(Append(wal, rec), k)
<1> DEFINE v == Append(wal, rec)
<1>1. PICK i \in 2..Len(wal) : wal[i - 1] = Torn /\ wal[i] # Torn /\ wal[i].key = k
  BY DEF Behind
<1>2. /\ Len(wal) \in Nat /\ Len(v) = Len(wal) + 1
      /\ \A j \in 1..Len(wal) : v[j] = wal[j]
  BY DEF TypeOK
<1> HIDE DEF v
<1>3. i \in 2..Len(v) /\ i \in 1..Len(wal) /\ i - 1 \in 1..Len(wal)
  BY <1>2
<1>4. v[i - 1] = Torn /\ v[i] # Torn /\ v[i].key = k
  BY <1>1, <1>2, <1>3
<1>5. Behind(v, k)
  BY <1>3, <1>4 DEF Behind
<1> QED BY <1>5 DEF v

LEMMA ReadsAppendLog ==
  ASSUME TypeOK, TypeOK', ActiveInv, CallsInv, AppendLog
  PROVE  ActiveInv' /\ CallsInv'
<1>1. /\ mutex = "log" /\ mutex' \in {"free", "swap"}
      /\ mutex' = "swap" => pending' = pending
      /\ wal' = Append(wal, pending)
      /\ tables' = tables /\ linked' = linked /\ files' = files /\ get' = get
  BY DEF AppendLog, FinishPut, memVars, fileVars
<1>2. \A k \in Key : Behind(wal, k) => Behind(wal', k)
  BY <1>1, BehindStays DEF TypeOK
<1> QED BY <1>1, <1>2, ReadsElse

\* Whoever is inside a call when a memtable is swapped out is excused.
LEMMA ReadsSwapActive ==
  ASSUME TypeOK, SwapActive
  PROVE  ActiveInv' /\ CallsInv'
<1>1. ActiveInv'
  BY DEF SwapActive, ActiveInv
<1>2. \A r \in Reader : get'[r].at # "idle" => get'[r].rotated
  BY DEF SwapActive, TypeOK, Call
<1> QED BY <1>1, <1>2 DEF CallsInv, CallInv, CallOf

LEMMA ReadsLinkFrozen ==
  ASSUME TypeOK, CallsInv, LinkFrozen
  PROVE  ActiveInv' /\ CallsInv'
<1>1. mutex = "link" /\ mutex' = "free" /\ get' = get
  BY DEF LinkFrozen, FinishPut
<1>2. \A r \in Reader : get[r].at # "idle" => get[r].rotated
  BY <1>1 DEF CallsInv, CallInv, CallOf, TypeOK
<1> QED BY <1>1, <1>2 DEF ActiveInv, CallsInv, CallInv, CallOf

LEMMA ReadsFlushTable ==
  ASSUME TypeOK, TypeOK', ActiveInv, CallsInv, FlushTable
  PROVE  ActiveInv' /\ CallsInv'
<1>1. PICK i \in Unflushed : files' = Append(files, tables[i])
  BY DEF FlushTable
<1>2. /\ i \in 1..linked /\ i \in 1..Len(tables)
      /\ tables[i] \in Content /\ tables \in Seq(Content)
      /\ 1..linked \in SUBSET (1..Len(tables))
  <2>1. /\ tables \in Seq(Content) /\ Len(tables) \in Nat
        /\ linked \in 0..(Len(tables) - 1) /\ i \in 1..linked
    BY DEF Unflushed, TypeOK
  <2>2. \A j \in 1..linked : j \in 1..Len(tables)
    BY <2>1
  <2> QED BY <2>1, <2>2
<1>3. ASSUME NEW k \in Key, tables[i][k] # NoReg PROVE Frozen(k) # NoReg
  <2>1. \/ /\ Newest(tables, 1..linked, k) = NoReg
           /\ \A j \in 1..linked : tables[j][k] = NoReg
        \/ \E m \in 1..linked :
             /\ tables[m][k] # NoReg
             /\ Newest(tables, 1..linked, k) = tables[m][k]
             /\ \A j \in 1..linked : j > m => tables[j][k] = NoReg
    BY ONLY <1>2, NewestCases
  <2> QED BY <1>2, <1>3, <2>1 DEF Frozen
<1>4. /\ mutex = "worker" /\ mutex' = "worker" /\ wal' = wal
      /\ tables' = tables /\ linked' = linked /\ get' = get
  BY DEF FlushTable, walVars, putVars
<1> QED BY <1>1, <1>2, <1>3, <1>4, ReadsElse

LEMMA ReadsExecuteCompaction ==
  ASSUME TypeOK, TypeOK', LoggedInv, ActiveInv, CallsInv, ExecuteCompaction
  PROVE  ActiveInv' /\ CallsInv'
<1>1. task.inputs \in SUBSET Files
  BY DEF ExecuteCompaction, TypeOK, Task
<1>2. /\ tables' = tables /\ linked' = linked /\ get' = get /\ wal' = wal
      /\ mutex' = mutex /\ pending' = pending
  BY DEF ExecuteCompaction, memVars, walVars, putVars
<1>3. \/ files' = files
      \/ \E c \in Content :
           /\ files' = Append(files, c)
           /\ \A k \in Key : c[k] # NoReg => \E g \in Files : files[g][k] # NoReg
  <2>1. CASE task.inputs = {}
    BY <2>1 DEF ExecuteCompaction
  <2>2. CASE task.inputs # {}
    <3>1. PICK s \in Listings(task.inputs) :
            files' = Append(files, [k \in Key |-> Folded(s, k)])
      BY <2>2 DEF ExecuteCompaction
    <3>2. \A k \in Key :
            /\ Folded(s, k) \in Register \cup {NoReg}
            /\ Folded(s, k) # NoReg => \E f \in task.inputs : files[f][k] # NoReg
      BY <1>1, ListingIsSeq, FoldedFound
    <3>3. [k \in Key |-> Folded(s, k)] \in Content
      BY <3>2 DEF Content
    <3>4. \A k \in Key : [j \in Key |-> Folded(s, j)][k] # NoReg
                           => \E g \in Files : files[g][k] # NoReg
      BY <1>1, <3>2
    <3> QED BY <3>1, <3>3, <3>4
  <2> QED BY <2>1, <2>2
<1>4. CASE mutex # "link"
  BY <1>2, <1>3, <1>4, ReadsElse
<1>5. CASE mutex = "link"
  <2>1. \A r \in Reader : get[r].at # "idle" => get[r].rotated
    BY <1>5 DEF CallsInv, CallInv, CallOf, TypeOK
  <2> QED BY <1>2, <1>5, <2>1 DEF ActiveInv, CallsInv, CallInv, CallOf
<1> QED BY <1>4, <1>5

\* The active memtable hides the others.
LEMMA ActiveHides ==
  ASSUME TypeOK, NEW k \in Key
  PROVE  LET reg == tables[Len(tables)][k]
         IN  /\ reg # NoReg => Memory(tables, k) = reg
             /\ reg = NoReg /\ linked = Len(tables) - 1 => Frozen(k) = Memory(tables, k)
<1> DEFINE n == Len(tables)
<1>1. /\ tables \in Seq(Content) /\ n \in Nat /\ n \in 1..n
      /\ 1..n \in SUBSET Nat /\ \A i \in 1..n : ~(i > n)
  BY DEF TypeOK
<1> HIDE DEF n
<1>2. ASSUME tables[n][k] # NoReg PROVE Newest(tables, 1..n, k) = tables[n][k]
  BY <1>1, <1>2, NewestIs
<1>3. ASSUME tables[n][k] = NoReg, linked = n - 1
      PROVE  Newest(tables, 1..n, k) = Newest(tables, 1..linked, k)
  <2>1. /\ 1..linked \subseteq 1..n
        /\ \A i \in (1..n) \ (1..linked) : i = n
    BY <1>1, <1>3
  <2>2. 1..linked \in SUBSET (1..Len(tables)) /\ 1..n \in SUBSET (1..Len(tables))
    BY <2>1 DEF n
  <2>3. \A i \in (1..n) \ (1..linked) : tables[i][k] = NoReg
    BY <1>3, <2>1
  <2>4. 1..linked \subseteq 1..n /\ tables \in Seq(Content)
    BY <1>1, <2>1
  <2> QED BY <2>2, <2>3, <2>4, NewestSame
<1> QED BY <1>2, <1>3 DEF n, Memory, Frozen


\* A step of one reader leaves the calls of the others alone.
LEMMA OtherCalls ==
  ASSUME TypeOK, TypeOK', CallsInv, NEW r \in Reader, NEW s \in Reader, s # r,
         get'[s] = get[s], UNCHANGED <<memVars, fileVars, walVars, putVars>>,
         mutex # "link" \/ get[s].at = "idle" \/ get[s].rotated
  PROVE  CallInv(s)'
<1>1. CASE mutex # "link"
  <2>1. /\ tables' = tables /\ linked' = linked /\ files' = files
        /\ wal' = wal /\ mutex' = mutex
    BY DEF memVars, fileVars, walVars, putVars
  <2>2. \A k \in Key : Frozen(k)' = Frozen(k)
    BY <2>1 DEF Frozen
  <2>3. CallInv(s)
    BY DEF CallsInv
  <2> QED BY <1>1, <2>1, <2>2, <2>3, CallStays DEF Files
<1>2. CASE get[s].at = "idle" \/ get[s].rotated
  BY <1>2 DEF CallInv, CallOf
<1> QED BY <1>1, <1>2

\* What is current, or on its way, when a call begins.
LEMMA BegunAllows ==
  ASSUME TypeOK, LoggedInv, AckedInv, ActiveInv, mutex # "link",
         NEW k \in Key, ~Behind(wal, k)
  PROVE  LET reg == tables[Len(tables)][k]
         IN  /\ reg # NoReg =>
                  \/ reg = acked[k]
                  \/ pending # NoPut /\ pending.key = k /\ reg = pending.reg
             /\ reg = NoReg =>
                  /\ Frozen(k) = acked[k]
                  /\ Frozen(k) = NoReg => \A f \in Files : files[f][k] = NoReg
<1> DEFINE reg == tables[Len(tables)][k]
<1>1. /\ reg # NoReg => Memory(tables, k) = reg
      /\ reg = NoReg => Frozen(k) = Memory(tables, k)
  BY ActiveHides DEF LoggedInv
<1>2. CASE mutex \in {"log", "swap"} /\ pending.key = k
  <2>1. pending # NoPut /\ Memory(tables, k) = pending.reg
    BY <1>2 DEF AckedInv, AckedLogged
  <2>2. reg = pending.reg /\ pending.reg # NoReg
    BY <1>2, EngineAssumption DEF ActiveInv, TypeOK, Record
  <2> QED BY <1>2, <2>1, <2>2
<1>3. CASE ~(mutex \in {"log", "swap"} /\ pending.key = k)
  <2>1. Memory(tables, k) = Replay(wal)[k] /\ acked[k] = Replay(wal)[k]
    BY <1>3 DEF LoggedInv, AckedInv, AckedLogged
  <2>2. Replay(wal)[k] = NoReg => \A f \in Files : files[f][k] = NoReg
    BY LastingInLog DEF LoggedInv, InLog
  <2> QED BY <1>1, <2>1, <2>2
<1> QED BY <1>2, <1>3

LEMMA ReadsGetActive ==
  ASSUME TypeOK, LoggedInv, AckedInv, ActiveInv,
         NEW r \in Reader, NEW k \in Key, GetActive(r, k)
  PROVE  CallInv(r)'
<1> DEFINE reg == tables[Len(tables)][k]
           now == {acked[k]} \cup (IF pending # NoPut /\ pending.key = k
                                   THEN {pending.reg} ELSE {})
           at  == IF reg # NoReg THEN "done" ELSE "immutable"
           found == IF reg # NoReg THEN Visible(reg) ELSE NoReg
<1>1. get' = [get EXCEPT ![r] = [at |-> at, key |-> k, allowed |-> now,
                                 rotated |-> mutex = "link", found |-> found]]
  BY DEF GetActive, BeginGet
<1>2. get'[r] = [at |-> at, key |-> k, allowed |-> now,
                 rotated |-> mutex = "link", found |-> found]
  BY <1>1 DEF TypeOK
<1> HIDE DEF now
<1>3. /\ get'[r].at = at /\ get'[r].key = k /\ get'[r].allowed = now
      /\ get'[r].rotated = (mutex = "link") /\ get'[r].found = found
  BY <1>2
<1>4. /\ tables' = tables /\ linked' = linked /\ files' = files
      /\ wal' = wal /\ mutex' = mutex
  BY DEF GetActive, memVars, fileVars, walVars, putVars
<1>5. Frozen(k)' = Frozen(k)
  BY <1>4 DEF Frozen
<1> SUFFICES ASSUME CallOf(r, k)', mutex # "link", ~Behind(wal, k)
             PROVE  /\ at = "immutable" =>
                         /\ Frozen(k) \in now
                         /\ Frozen(k) = NoReg => \A f \in Files : files[f][k] = NoReg
                    /\ at = "done" => found \in {Visible(v) : v \in now}
  BY <1>3, <1>4, <1>5 DEF CallInv, CallOf, Files
<1>6. /\ reg # NoReg => \/ reg = acked[k]
                        \/ pending # NoPut /\ pending.key = k /\ reg = pending.reg
      /\ reg = NoReg => /\ Frozen(k) = acked[k]
                        /\ Frozen(k) = NoReg => \A f \in Files : files[f][k] = NoReg
  BY BegunAllows
<1>7. reg # NoReg => reg \in now
  BY <1>6 DEF now
<1>8. acked[k] \in now
  BY DEF now
<1> QED BY <1>6, <1>7, <1>8

LEMMA ReadsGetImmutable ==
  ASSUME TypeOK, CallsInv, NEW r \in Reader, GetImmutable(r)
  PROVE  CallInv(r)'
<1> DEFINE k == get[r].key
           reg == Newest(tables, 1..linked, k)
<1>1. /\ tables' = tables /\ linked' = linked /\ files' = files
      /\ wal' = wal /\ mutex' = mutex
  BY DEF GetImmutable, memVars, fileVars, walVars, putVars
<1>2. /\ get'[r].key = k /\ get'[r].allowed = get[r].allowed
      /\ get'[r].rotated = get[r].rotated
      /\ reg # NoReg => get'[r].at = "done" /\ get'[r].found = Visible(reg)
      /\ reg = NoReg => get'[r].at = "files"
  BY DEF GetImmutable, TypeOK, Call
<1>3. \A j \in Key : Frozen(j)' = Frozen(j)
  BY <1>1 DEF Frozen
<1>4. ASSUME NEW j \in Key, CallOf(r, j)'
      PROVE  /\ mutex' # "link"
             /\ \/ Behind(wal', j)
                \/ /\ get'[r].at \in {"immutable", "files"} =>
                        /\ Frozen(j)' \in get'[r].allowed
                        /\ Frozen(j)' = NoReg
                             => \A f \in Files' : files'[f][j] = NoReg
                   /\ get'[r].at = "files" => Frozen(j)' = NoReg
                   /\ get'[r].at = "done" =>
                        get'[r].found \in {Visible(v) : v \in get'[r].allowed}
  <2>1. CallOf(r, j) /\ get[r].at = "immutable" /\ j = k
    BY <1>2, <1>4 DEF CallOf, GetImmutable
  <2>2. /\ mutex # "link"
        /\ \/ Behind(wal, j)
           \/ /\ Frozen(j) \in get[r].allowed
              /\ Frozen(j) = NoReg => \A f \in Files : files[f][j] = NoReg
    BY <2>1 DEF CallsInv, CallInv
  <2>3. reg = Frozen(j) /\ Files' = Files
    BY <1>1, <2>1 DEF Frozen, Files
  <2>4. CASE reg = NoReg
    BY <1>1, <1>2, <1>3, <2>2, <2>3, <2>4
  <2>5. CASE reg # NoReg
    BY <1>1, <1>2, <1>3, <2>2, <2>3, <2>5
  <2> QED BY <2>4, <2>5
<1> QED BY <1>4 DEF CallInv

LEMMA ReadsGetFiles ==
  ASSUME TypeOK, CallsInv, NEW r \in Reader, GetFiles(r)
  PROVE  CallInv(r)'
<1>1. /\ tables' = tables /\ linked' = linked /\ files' = files
      /\ wal' = wal /\ mutex' = mutex
  BY DEF GetFiles, memVars, fileVars, walVars, putVars
<1>2. PICK reg \in FileVersions(layout, get[r].key) :
        get' = [get EXCEPT ![r].at = "done", ![r].found = Visible(reg)]
  BY DEF GetFiles
<1>3. /\ get'[r].key = get[r].key /\ get'[r].allowed = get[r].allowed
      /\ get'[r].rotated = get[r].rotated
      /\ get'[r].at = "done" /\ get'[r].found = Visible(reg)
  BY <1>2 DEF TypeOK, Call
<1>4. layout \in [Level -> SUBSET Files]
  BY DEF TypeOK
<1>5. ASSUME NEW j \in Key, CallOf(r, j)'
      PROVE  /\ mutex' # "link"
             /\ Behind(wal', j) \/ get'[r].found \in {Visible(v) : v \in get'[r].allowed}
  <2>1. CallOf(r, j) /\ get[r].at = "files" /\ j = get[r].key
    BY <1>3, <1>5 DEF CallOf, GetFiles
  <2>2. mutex # "link"
    BY <2>1 DEF CallsInv, CallInv
  <2>3. ASSUME ~Behind(wal, j) PROVE reg \in get[r].allowed
    <3>1. NoReg \in get[r].allowed /\ \A f \in Files : files[f][j] = NoReg
      BY <2>1, <2>3 DEF CallsInv, CallInv
    <3>2. reg = NoReg
      BY <1>2, <1>4, <2>1, <3>1, FileVersionsFound
    <3> QED BY <3>1, <3>2
  <2> QED BY <1>1, <1>3, <2>2, <2>3
<1> QED BY <1>3, <1>5 DEF CallInv

LEMMA ReadsGet ==
  ASSUME TypeOK, TypeOK', LoggedInv, AckedInv, ActiveInv, CallsInv,
         NEW r \in Reader, Get(r)
  PROVE  ActiveInv' /\ CallsInv'
<1>1. UNCHANGED <<memVars, fileVars, walVars, putVars>>
  BY DEF Get, GetActive, GetImmutable, GetFiles, EndGet
<1>2. ActiveInv'
  BY <1>1 DEF ActiveInv, memVars, putVars
<1>3. ASSUME NEW s \in Reader, s # r PROVE CallInv(s)'
  <2>1. get'[s] = get[s]
    BY <1>3 DEF Get, GetActive, BeginGet, GetImmutable, GetFiles, EndGet, TypeOK
  <2>2. mutex # "link" \/ get[s].at = "idle" \/ get[s].rotated
    BY DEF CallsInv, CallInv, CallOf, TypeOK
  <2> QED BY <1>1, <1>3, <2>1, <2>2, OtherCalls
<1>4. CallInv(r)'
  <2>1. CASE EndGet(r)
    <3>1. get'[r].at = "idle"
      BY <2>1, IdleGetType DEF EndGet, TypeOK
    <3> QED BY <3>1 DEF CallInv, CallOf
  <2> QED BY <2>1, ReadsGetActive, ReadsGetImmutable, ReadsGetFiles DEF Get
<1> QED BY <1>2, <1>3, <1>4 DEF CallsInv

LEMMA ReadsInit == Init => ActiveInv /\ CallsInv
BY IdleGetType DEF Init, ActiveInv, CallsInv, CallInv, CallOf

LEMMA ReadsStep ==
  TypeOK /\ LoggedInv /\ AckedInv /\ ActiveInv /\ CallsInv /\ [Next]_vars
    => ActiveInv' /\ CallsInv'
<1> SUFFICES ASSUME TypeOK, LoggedInv, AckedInv, ActiveInv, CallsInv, [Next]_vars
             PROVE  ActiveInv' /\ CallsInv'
  OBVIOUS
<1> DEFINE Calls == ActiveInv' /\ CallsInv'
<1>0. TypeOK'
  BY TypeStep
<1>1. ASSUME NEW k \in Key, NEW v \in Written[k], Put(k, v) PROVE Calls
  <2> DEFINE c == Increment(localClock, Self)
  <2>1. c \in Clock /\ v \in Value
    BY EngineAssumption, ClockType DEF TypeOK
  <2>2. [value |-> v, clock |-> c] \in Register
    BY <2>1 DEF Register
  <2>3. mutex = "free" /\ Insert(k, [value |-> v, clock |-> c])
    BY <1>1 DEF Put
  <2> QED BY <1>0, <2>2, <2>3, ReadsInsert
<1>2. ASSUME NEW k \in Key, NEW incoming \in Incoming[k], PutCrdt(k, incoming)
      PROVE  Calls
  <2>1. incoming \in Register
    BY EngineAssumption
  <2>2. PICK existing \in GetResults(k) :
          Insert(k, IF existing = NoReg THEN incoming ELSE Merge(incoming, existing))
    BY <1>2 DEF PutCrdt
  <2>3. (IF existing = NoReg THEN incoming ELSE Merge(incoming, existing)) \in Register
    BY <2>1, GetResultsType, MergeType
  <2>4. mutex = "free"
    BY <1>2 DEF PutCrdt
  <2> QED BY <1>0, <2>2, <2>3, <2>4, ReadsInsert
<1>3. CASE AppendLog \/ SwapActive \/ LinkFrozen
  BY <1>0, <1>3, ReadsAppendLog, ReadsSwapActive, ReadsLinkFrozen
<1>4. CASE FlushTable \/ ExecuteCompaction
  BY <1>0, <1>4, ReadsFlushTable, ReadsExecuteCompaction
<1>5. CASE StartFlush \/ PublishFlush
  BY <1>0, <1>5, ReadsElse
     DEF StartFlush, PublishFlush, memVars, fileVars, walVars
<1>6. CASE NothingToFlush \/ ApplyCompaction \/ PlanCompaction
  BY <1>0, <1>6, ReadsElse
     DEF NothingToFlush, PlanCompaction, ApplyCompaction, memVars, fileVars,
         walVars, putVars
<1>7. ASSUME NEW r \in Reader, Get(r) PROVE Calls
  BY <1>0, <1>7, ReadsGet
<1>8. CASE Kill \/ PowerLoss
  <2>1. mutex' = "free" /\ get' = [r \in Reader |-> IdleGet]
    BY <1>8 DEF Kill, PowerLoss, Recover
  <2> QED BY <2>1, IdleGetType DEF ActiveInv, CallsInv, CallInv, CallOf
<1>9. CASE UNCHANGED vars
  <2>1. UNCHANGED <<memVars, fileVars, walVars, putVars, get>>
    BY <1>9 DEF vars
  <2> QED BY <2>1 DEF ActiveInv, CallsInv, CallInv, CallOf, Frozen, Files, memVars,
                      fileVars, walVars, putVars
<1> QED BY <1>1, <1>2, <1>3, <1>4, <1>5, <1>6, <1>7, <1>8, <1>9
        DEF Next, Writer, Write, Worker

\* The reads of the keys that no torn record hides.
RegularOffTornTail ==
  \A r \in Reader :
    get[r].at = "done" /\ ~get[r].rotated /\ ~Shadowed(get[r].key)
      => get[r].found \in {Visible(v) : v \in get[r].allowed}

LEMMA ReadsImplies == TypeOK /\ CallsInv => RegularOffTornTail
BY ShadowedIs DEF RegularOffTornTail, CallsInv, CallInv, CallOf, TypeOK

\* With synced writes, and clocks without a separator byte, a call of get()
\* that no rotation of the memtables falls into returns a version that was
\* current during the call, whatever is put, flushed and compacted between
\* its three lookups and whatever crashes came before, unless the last record
\* of the key stands behind a torn one.
THEOREM ReadsAlwaysRegularOffTornTail ==
  SyncedLines => (Spec => []RegularOffTornTail)
<1> SUFFICES ASSUME SyncedLines PROVE Spec => []RegularOffTornTail
  OBVIOUS
<1> DEFINE Inv == TypeOK /\ LoggedInv /\ AckedInv /\ ActiveInv /\ CallsInv
<1>1. Init => Inv
  BY TypeInit, LoggedInit, AckedInit, ReadsInit
<1>2. Inv /\ [Next]_vars => Inv'
  BY TypeStep, LoggedStep, AckedStep, ReadsStep
<1>3. Inv => RegularOffTornTail
  BY ReadsImplies
<1> HIDE DEF Inv
<1> QED BY <1>1, <1>2, <1>3, PTL DEF Spec

\* Unless power is lost or a clock holds a separator byte, every call of
\* get() that no rotation of the memtables falls into returns a version that
\* was current during the call, whatever is put, flushed, compacted and
\* killed, and whether the files of the worker open or not.
THEOREM ReadsAlwaysRegularOffRotation ==
  AllLines => (Spec => []ReadsOffRotationAreRegular)
<1> SUFFICES ASSUME AllLines PROVE Spec => []ReadsOffRotationAreRegular
  OBVIOUS
<1> DEFINE Inv == TypeOK /\ LoggedInv /\ AckedInv /\ ActiveInv /\ CallsInv
<1>1. Init => Inv
  BY TypeInit, LoggedInit, AckedInit, ReadsInit
<1>2. Inv /\ [Next]_vars => Inv'
  BY TypeStep, LoggedStep, AckedStep, ReadsStep, AllLinesAreSynced
<1>3. Inv => ReadsOffRotationAreRegular
  <2> SUFFICES ASSUME Inv, NEW r \in Reader, get[r].at = "done", ~get[r].rotated
               PROVE  get[r].found \in {Visible(v) : v \in get[r].allowed}
    BY DEF ReadsOffRotationAreRegular
  <2>1. get[r].key \in Key
    BY DEF TypeOK
  <2>2. ~Shadowed(get[r].key)
    BY <2>1, NothingBehind, ShadowedIs
  <2> QED BY <2>2, ReadsImplies DEF RegularOffTornTail
<1> HIDE DEF Inv
<1> QED BY <1>1, <1>2, <1>3, PTL DEF Spec

-----------------------------------------------------------------------------
(* The merge of a scan. *)

\* What a merge with a register that covers the other, or is covered by it,
\* gives.
LEMMA MergeCovers ==
  ASSUME NEW a \in Register, NEW b \in Register
  PROVE  /\ Leq(b.clock, a.clock) => Merge(a, b) = a
         /\ Leq(a.clock, b.clock) /\ ~Leq(b.clock, a.clock) => Merge(a, b) = b
<1> DEFINE ac == a.clock
           bc == b.clock
<1>0. ac \in Clock /\ bc \in Clock
  BY DEF Register
<1>1. ASSUME Leq(bc, ac) PROVE Merge(a, b) = a
  <2>1. Order(ac, bc) \notin {"HappensBefore", "Concurrent"}
    BY <1>0, <1>1, OrderMeaning
  <2>2. Merge(a, b) = [a EXCEPT !.clock = MergeClock(ac, bc)]
    BY <2>1 DEF Merge
  <2>3. MergeClock(ac, bc) = ac
    BY <1>0, <1>1, MergeClockIsJoin, LeqIsPartialOrder, ClockType
  <2> QED BY <2>2, <2>3 DEF Register
<1>2. ASSUME Leq(ac, bc), ~Leq(bc, ac) PROVE Merge(a, b) = b
  <2>1. Order(ac, bc) = "HappensBefore"
    BY <1>0, <1>2, OrderMeaning
  <2> QED BY <2>1 DEF Merge
<1> QED BY <1>1, <1>2

\* The registers that top covers, every other one strictly at node x.
Under(top, x) ==
  {reg \in Register : /\ Leq(reg.clock, top.clock)
                      /\ reg = top \/ reg.clock[x] < top.clock[x]}

\* The registers that top covers, and those of them with its clock.
Below(top) == {reg \in Register : Leq(reg.clock, top.clock)}

Stamped(top) == {reg \in Register : reg.clock = top.clock}

LEMMA BelowMerge ==
  ASSUME NEW top \in Register, NEW a \in Below(top), NEW b \in Below(top)
  PROVE  /\ Merge(a, b) \in Below(top)
         /\ a \in Stamped(top) \/ b \in Stamped(top) => Merge(a, b) \in Stamped(top)
<1>1. /\ a \in Register /\ b \in Register
      /\ a.clock \in Clock /\ b.clock \in Clock /\ top.clock \in Clock
      /\ Leq(a.clock, top.clock) /\ Leq(b.clock, top.clock)
  BY DEF Below, Register
<1>2. Merge(a, b) \in Register /\ Merge(a, b).clock = MergeClock(a.clock, b.clock)
  BY <1>1, MergeType, MergeJoinsClocks
<1>3. /\ Leq(MergeClock(a.clock, b.clock), top.clock)
      /\ Leq(a.clock, MergeClock(a.clock, b.clock))
      /\ Leq(b.clock, MergeClock(a.clock, b.clock))
      /\ MergeClock(a.clock, b.clock) \in Clock
  BY <1>1, MergeClockIsJoin, ClockType
<1>4. ASSUME a.clock = top.clock \/ b.clock = top.clock
      PROVE  MergeClock(a.clock, b.clock) = top.clock
  BY <1>1, <1>3, <1>4, LeqIsPartialOrder
<1> QED BY <1>2, <1>3, <1>4 DEF Below, Stamped

\* Merging such registers gives such a register, and top once it is there.
LEMMA UnderMerge ==
  ASSUME NEW top \in Register, NEW x \in Node,
         NEW a \in Under(top, x), NEW b \in Under(top, x)
  PROVE  /\ Merge(a, b) \in Under(top, x)
         /\ a = top \/ b = top => Merge(a, b) = top
<1>0. /\ a \in Register /\ b \in Register /\ top \in Register
      /\ a.clock \in Clock /\ b.clock \in Clock /\ top.clock \in Clock
      /\ a.clock[x] \in Nat /\ b.clock[x] \in Nat /\ top.clock[x] \in Nat
      /\ Leq(a.clock, top.clock) /\ Leq(b.clock, top.clock)
      /\ Leq(top.clock, top.clock)
  BY LeqIsPartialOrder DEF Under, Register, Clock
<1>1. CASE a = top
  BY <1>0, <1>1, MergeCovers
<1>2. CASE a # top /\ b = top
  <2>1. a.clock[x] < top.clock[x]
    BY <1>2 DEF Under
  <2>2. ~Leq(top.clock, a.clock)
    BY <1>0, <2>1 DEF Leq
  <2> QED BY <1>0, <1>2, <2>2, MergeCovers
<1>3. CASE a # top /\ b # top
  <2>1. a.clock[x] < top.clock[x] /\ b.clock[x] < top.clock[x]
    BY <1>3 DEF Under
  <2>2. /\ Merge(a, b) \in Register
        /\ Merge(a, b).clock = MergeClock(a.clock, b.clock)
    BY <1>0, MergeType, MergeJoinsClocks
  <2>3. Leq(MergeClock(a.clock, b.clock), top.clock)
    BY <1>0, MergeClockIsJoin
  <2>4. MergeClock(a.clock, b.clock)[x] < top.clock[x]
    BY <2>1 DEF MergeClock, Larger
  <2> QED BY <1>3, <2>2, <2>3, <2>4 DEF Under
<1> QED BY <1>0, <1>1, <1>2, <1>3

\* What a fold of registers of a set gives is in the set, if merges are.
LEMMA FoldStays ==
  ASSUME NEW n \in Nat, NEW r, NEW g, IsFold(g, r, n),
         NEW A, \A a, b \in A : Merge(a, b) \in A,
         \A i \in 1..n : r[i] \in A \cup {NoReg}
  PROVE  g[n] \in A \cup {NoReg}
<1> DEFINE B == {i \in 0..n : g[i] \notin A \cup {NoReg}}
<1> SUFFICES ASSUME B # {} PROVE FALSE
  OBVIOUS
<1>1. B \in SUBSET Nat
  OBVIOUS
<1>2. PICK m \in B : \A j \in B : m <= j
  BY <1>1, LeastExists
<1>3. m # 0
  <2>1. g[0] = NoReg
    BY DEF IsFold
  <2> QED BY <1>2, <2>1
<1>4. m \in 1..n /\ m - 1 \in 0..n /\ m - 1 \notin B
  BY <1>2, <1>3
<1>5. g[m] = FoldStep(g[m - 1], r[m])
  BY <1>4 DEF IsFold
<1>6. g[m - 1] \in A \cup {NoReg} /\ r[m] \in A \cup {NoReg}
  BY <1>4
<1>7. g[m] \in A \cup {NoReg}
  BY <1>5, <1>6 DEF FoldStep
<1> QED BY <1>2, <1>7

\* A compaction of registers of such a set gives one of them.
LEMMA FoldedStays ==
  ASSUME TypeOK, NEW F \in SUBSET Files, NEW s \in Seq(F), NEW k \in Key,
         NEW A, \A a, b \in A : Merge(a, b) \in A,
         \A f \in F : files[f][k] \in A \cup {NoReg}
  PROVE  Folded(s, k) \in A \cup {NoReg}
<1>1. PICK r, g : /\ IsFold(g, r, Len(s)) /\ Folded(s, k) = g[Len(s)]
                  /\ \A i \in 1..Len(s) : /\ r[i] = files[s[i]][k]
                                          /\ r[i] \in Register \cup {NoReg}
  BY FoldedIsFold
<1>2. Len(s) \in Nat /\ \A i \in 1..Len(s) : s[i] \in F
  OBVIOUS
<1>3. \A i \in 1..Len(s) : r[i] \in A \cup {NoReg}
  BY <1>1, <1>2
<1> QED BY <1>1, <1>2, <1>3, FoldStays

\* A step of a scan.
ScanStep(acc, v) == IF acc = NoReg THEN v ELSE Merge(acc, v)

\* What one round of a scan over V makes of the results g of the scans that
\* leave one version out.
ScanRound(g, V) ==
  IF V = {} THEN {NoReg}
  ELSE UNION {{ScanStep(acc, v) : acc \in g[V \ {v}]} : v \in V}

\* g gives the results of every scan over at most m of the versions S.
IsScan(g, S, m) ==
  \A V \in SUBSET S : Cardinality(V) <= m => g[V] = ScanRound(g, V)

LEMMA ScanRoundSame ==
  ASSUME NEW g, NEW h, NEW V, \A v \in V : g[V \ {v}] = h[V \ {v}]
  PROVE  ScanRound(g, V) = ScanRound(h, V)
BY DEF ScanRound

LEMMA ScanExists ==
  ASSUME NEW S, IsFiniteSet(S), NEW n \in Nat
  PROVE  \E g : IsScan(g, S, n)
<1> DEFINE B == {m \in 0..n : \A g : ~IsScan(g, S, m)}
<1> SUFFICES ASSUME B # {} PROVE FALSE
  OBVIOUS
<1>1. PICK m \in B : \A j \in B : m <= j
  <2>1. B \in SUBSET Nat
    OBVIOUS
  <2> QED BY <2>1, LeastExists
<1>2. \A V \in SUBSET S : /\ IsFiniteSet(V) /\ Cardinality(V) \in Nat
                          /\ Cardinality(V) = 0 <=> V = {}
                          /\ \A v \in V : Cardinality(V \ {v}) = Cardinality(V) - 1
  BY FS_Subset, FS_CardinalityType, FS_EmptySet, FS_RemoveElement
<1>3. CASE m = 0
  <2> DEFINE g == [V \in SUBSET S |-> {NoReg}]
  <2>1. \A V \in SUBSET S : Cardinality(V) <= 0 => V = {}
    BY <1>2
  <2>2. \A V \in SUBSET S : Cardinality(V) <= 0 => g[V] = ScanRound(g, V)
    BY <2>1 DEF ScanRound
  <2> HIDE DEF g
  <2> QED BY <1>1, <1>3, <2>2 DEF IsScan
<1>4. CASE m # 0
  <2>1. m \in Nat /\ m - 1 \in 0..n /\ m - 1 \notin B
    BY <1>1, <1>4
  <2>2. PICK g : IsScan(g, S, m - 1)
    BY <2>1
  <2> DEFINE h == [V \in SUBSET S |-> IF Cardinality(V) <= m - 1 THEN g[V]
                                      ELSE ScanRound(g, V)]
  <2>3. \A V \in SUBSET S :
          h[V] = IF Cardinality(V) <= m - 1 THEN g[V] ELSE ScanRound(g, V)
    OBVIOUS
  <2> HIDE DEF h
  <2>5. ASSUME NEW V \in SUBSET S, Cardinality(V) <= m
        PROVE  h[V] = ScanRound(h, V)
    <3>1. \A v \in V : V \ {v} \in SUBSET S /\ Cardinality(V \ {v}) <= m - 1
      BY <1>2, <2>1, <2>5
    <3>2. \A v \in V : g[V \ {v}] = h[V \ {v}]
      BY <2>3, <3>1
    <3>3. ScanRound(g, V) = ScanRound(h, V)
      BY ONLY <3>2, ScanRoundSame
    <3>4. Cardinality(V) <= m - 1 => g[V] = ScanRound(g, V)
      BY <2>2 DEF IsScan
    <3> QED BY <2>3, <3>3, <3>4
  <2>4. IsScan(h, S, m)
    BY <2>5 DEF IsScan
  <2> QED BY <1>1, <2>4
<1> QED BY <1>3, <1>4

\* A scan over versions of a set that merges do not leave gives a register of
\* T, in whatever order it merges them, if one of them is of T and what it is
\* merged with becomes one of T.
LEMMA ScanGives ==
  ASSUME NEW S, IsFiniteSet(S), NEW g, IsScan(g, S, Cardinality(S)),
         NEW A \in SUBSET Register, NEW T,
         \A a, b \in A : /\ Merge(a, b) \in A
                         /\ a \in T \/ b \in T => Merge(a, b) \in T,
         S \subseteq A, NEW top \in S, top \in T
  PROVE  g[S] # {} /\ g[S] \subseteq T
<1> DEFINE P(V) == IF V = {} THEN g[V] = {NoReg}
                   ELSE /\ g[V] # {} /\ g[V] \subseteq A
                        /\ top \in V => g[V] \subseteq T
           B == {m \in 0..Cardinality(S) :
                   \E V \in SUBSET S : Cardinality(V) = m /\ ~P(V)}
<1>1. \A V \in SUBSET S : /\ IsFiniteSet(V) /\ Cardinality(V) \in 0..Cardinality(S)
                          /\ Cardinality(V) = 0 <=> V = {}
                          /\ \A v \in V : Cardinality(V \ {v}) = Cardinality(V) - 1
                          /\ g[V] = ScanRound(g, V)
  <2>1. Cardinality(S) \in Nat
    BY FS_CardinalityType
  <2>2. \A V \in SUBSET S : /\ IsFiniteSet(V) /\ Cardinality(V) \in Nat
                            /\ Cardinality(V) <= Cardinality(S)
    BY FS_Subset, FS_CardinalityType
  <2>3. \A V \in SUBSET S : /\ Cardinality(V) = 0 <=> V = {}
                            /\ \A v \in V : Cardinality(V \ {v}) = Cardinality(V) - 1
    BY <2>2, FS_EmptySet, FS_RemoveElement
  <2> QED BY <2>1, <2>2, <2>3 DEF IsScan
<1>2. B = {}
  <2> SUFFICES ASSUME B # {} PROVE FALSE
    OBVIOUS
  <2>1. PICK m \in B : \A j \in B : m <= j
    <3>1. B \in SUBSET Nat
      BY FS_CardinalityType
    <3> QED BY <3>1, LeastExists
  <2>2. PICK V \in SUBSET S : Cardinality(V) = m /\ ~P(V)
    BY <2>1
  <2>3. ASSUME NEW v \in V PROVE P(V \ {v})
    <3>1. V \ {v} \in SUBSET S /\ Cardinality(V \ {v}) = m - 1
      BY <1>1, <2>2
    <3>2. m - 1 \in 0..Cardinality(S) /\ m \in Nat
      BY <1>1, <3>1
    <3>3. m - 1 \notin B
      BY <2>1, <3>2
    <3> QED BY <3>1, <3>2, <3>3
  <2>4. V # {}
    BY <1>1, <2>2 DEF ScanRound
  <2>5. g[V] = UNION {{ScanStep(acc, v) : acc \in g[V \ {v}]} : v \in V}
    BY <1>1, <2>4 DEF ScanRound
  <2>6. ASSUME NEW v \in V, NEW acc \in g[V \ {v}]
        PROVE  /\ ScanStep(acc, v) \in A
               /\ top \in V => ScanStep(acc, v) \in T
    <3>1. v \in A
      BY <2>2
    <3>2. CASE V \ {v} = {}
      <4>1. acc = NoReg
        BY <2>3, <2>6, <3>2
      <4> QED BY <3>1, <3>2, <4>1 DEF ScanStep
    <3>3. CASE V \ {v} # {}
      <4>1. acc \in A /\ (top \in V \ {v} => acc \in T)
        BY <2>3, <2>6, <3>3
      <4>2. ScanStep(acc, v) = Merge(acc, v)
        BY <4>1, EngineAssumption DEF ScanStep
      <4>3. top \in V \ {v} \/ v = top \/ top \notin V
        OBVIOUS
      <4> QED BY <3>1, <4>1, <4>2, <4>3
    <3> QED BY <3>2, <3>3
  <2>7. g[V] # {}
    <3>1. PICK v \in V : TRUE
      BY <2>4
    <3>2. PICK acc \in g[V \ {v}] : TRUE
      <4>1. P(V \ {v})
        BY <2>3
      <4>2. CASE V \ {v} = {}
        BY <4>1, <4>2
      <4>3. CASE V \ {v} # {}
        BY <4>1, <4>3
      <4> QED BY <4>2, <4>3
    <3>3. ScanStep(acc, v) \in g[V]
      <4>1. ScanStep(acc, v) \in {ScanStep(a, v) : a \in g[V \ {v}]}
        BY <3>2
      <4>2. {ScanStep(a, v) : a \in g[V \ {v}]}
              \in {{ScanStep(a, w) : a \in g[V \ {w}]} : w \in V}
        BY <3>1
      <4> QED BY <2>5, <4>1, <4>2
    <3> QED BY <3>3
  <2>8. /\ g[V] \subseteq A
        /\ top \in V => g[V] \subseteq T
    <3>1. ASSUME NEW reg \in g[V]
          PROVE  reg \in A /\ (top \in V => reg \in T)
      <4>1. PICK v \in V : \E acc \in g[V \ {v}] : reg = ScanStep(acc, v)
        BY <2>5
      <4> QED BY <2>6, <4>1
    <3> QED BY <3>1
  <2>9. P(V)
    BY <2>4, <2>7, <2>8
  <2> QED BY <2>2, <2>9
<1>3. P(S)
  BY <1>1, <1>2
<1> QED BY <1>3

LEMMA VersionsFinite ==
  ASSUME TypeOK, NEW k \in Key
  PROVE  IsFiniteSet(Versions(k))
<1> DEFINE I == 1..linked \cup {Len(tables)}
           F == UNION {layout[l] : l \in Level}
           t == [i \in I |-> tables[i][k]]
           v == [f \in F |-> files[f][k]]
<1>1. IsFiniteSet(I)
  <2>1. Len(tables) \in Nat /\ linked \in Nat
    BY DEF TypeOK
  <2>2. IsFiniteSet(1..Len(tables))
    BY <2>1, FS_Interval
  <2>3. I \in SUBSET (1..Len(tables))
    BY <2>1 DEF TypeOK
  <2> QED BY <2>2, <2>3, FS_Subset
<1>2. IsFiniteSet(F)
  <2>1. Len(files) \in Nat
    BY DEF TypeOK
  <2>2. IsFiniteSet(1..Len(files))
    BY <2>1, FS_Interval
  <2>3. F \in SUBSET (1..Len(files))
    BY DEF TypeOK, Files
  <2> QED BY <2>2, <2>3, FS_Subset
<1>3. Versions(k) \in SUBSET ({t[i] : i \in I} \cup {v[f] : f \in F})
  BY DEF Versions
<1> HIDE DEF I, F, t, v
<1>4. IsFiniteSet({t[i] : i \in I}) /\ IsFiniteSet({v[f] : f \in F})
  BY <1>1, <1>2, ImageFinite
<1>5. IsFiniteSet({t[i] : i \in I} \cup {v[f] : f \in F})
  BY <1>4, FS_Union
<1> QED BY <1>3, <1>5, FS_Subset

\* The results of a scan are those of the rounds over all versions.
LEMMA ScanMergesAre ==
  ASSUME NEW k, IsFiniteSet(Versions(k))
  PROVE  \E g : /\ IsScan(g, Versions(k), Cardinality(Versions(k)))
                /\ ScanMerges(k) = g[Versions(k)]
<1> DEFINE S == Versions(k)
           G(g) == g = [V \in SUBSET S |->
                          IF V = {} THEN {NoReg}
                          ELSE UNION {{IF acc = NoReg THEN v ELSE Merge(acc, v) :
                                         acc \in g[V \ {v}]} : v \in V}]
           fold == CHOOSE g : G(g)
<1>1. \A V \in SUBSET S : Cardinality(V) <= Cardinality(S)
  BY FS_Subset
<1>2. \A g, V : ScanRound(g, V) =
                  IF V = {} THEN {NoReg}
                  ELSE UNION {{IF acc = NoReg THEN v ELSE Merge(acc, v) :
                                 acc \in g[V \ {v}]} : v \in V}
  BY DEF ScanRound, ScanStep
<1>3. ScanMerges(k) = fold[S]
  BY Zenon DEF ScanMerges
<1> HIDE DEF S
<1>4. \A g : G(g) => IsScan(g, S, Cardinality(S))
  <2> SUFFICES ASSUME NEW g, G(g), NEW V \in SUBSET S
               PROVE  g[V] = ScanRound(g, V)
    BY DEF IsScan
  <2> QED BY <1>2
<1>5. \E g : G(g)
  <2>1. Cardinality(S) \in Nat /\ IsFiniteSet(S)
    BY FS_CardinalityType DEF S
  <2>2. PICK g : IsScan(g, S, Cardinality(S))
    BY <2>1, ScanExists
  <2> DEFINE h == [V \in SUBSET S |-> g[V]]
  <2>3. ASSUME NEW V \in SUBSET S PROVE h[V] = ScanRound(h, V)
    <3>1. g[V] = ScanRound(g, V)
      BY <1>1, <2>2 DEF IsScan, S
    <3>2. \A v \in V : g[V \ {v}] = h[V \ {v}]
      OBVIOUS
    <3> HIDE DEF h
    <3>3. ScanRound(g, V) = ScanRound(h, V)
      BY ONLY <3>2, ScanRoundSame
    <3> QED BY <3>1, <3>3 DEF h
  <2>4. h = [V \in SUBSET S |-> ScanRound(h, V)]
    <3>1. h = [V \in SUBSET S |-> h[V]]
      OBVIOUS
    <3> HIDE DEF h
    <3> QED BY <2>3, <3>1
  <2> HIDE DEF h
  <2>5. G(h)
    BY <1>2, <2>4
  <2> QED BY <2>5
<1> HIDE DEF G
<1>6. G(fold)
  BY <1>5, Zenon
<1> HIDE DEF fold
<1> QED BY <1>3, <1>4, <1>6 DEF S

-----------------------------------------------------------------------------
(* The puts of a key.                                                      *)
(*                                                                         *)
(* W are the registers that puts have written to a key, top the last of    *)
(* them.                                                                   *)

Covers(c, W) == \A w \in W : Leq(w.clock, c)

Removes(W) == {w \in W : w.value = Empty}

\* A remove may hide what is there, and only then an incoming register is
\* written without a merge with what it does not cover: but for what a remove
\* covers, the last put covers everything.
History(W, top) ==
  /\ IF W = {} THEN top = NoReg ELSE top \in W
  /\ \A w \in W : \/ Leq(w.clock, top.clock)
                  \/ \E t \in Removes(W) : Leq(w.clock, t.clock)

\* What merges of the puts may give.
Drawn(W) ==
  {reg \in Register : \A x \in Node : \E w \in W : reg.clock[x] <= w.clock[x]}

LEMMA DrawnMerge ==
  ASSUME NEW W \in SUBSET Register, NEW a \in Drawn(W), NEW b \in Drawn(W)
  PROVE  Merge(a, b) \in Drawn(W)
<1>0. /\ a \in Register /\ b \in Register /\ Merge(a, b) \in Register
      /\ Merge(a, b).clock = MergeClock(a.clock, b.clock)
  BY MergeType, MergeJoinsClocks DEF Drawn
<1>1. ASSUME NEW x \in Node
      PROVE  \E w \in W : Merge(a, b).clock[x] <= w.clock[x]
  <2>1. Merge(a, b).clock[x] \in {a.clock[x], b.clock[x]}
    BY <1>0 DEF MergeClock, Larger
  <2> QED BY <2>1 DEF Drawn
<1> QED BY <1>0, <1>1 DEF Drawn

\* The puts are drawn from themselves.
LEMMA PutsAreDrawn ==
  ASSUME NEW W \in SUBSET Register
  PROVE  W \subseteq Drawn(W)
<1> SUFFICES ASSUME NEW w \in W PROVE w \in Drawn(W)
  OBVIOUS
<1>1. w \in Register /\ \A x \in Node : w.clock[x] \in Nat
  BY DEF Register, Clock
<1> QED BY <1>1 DEF Drawn

\* What the last put covers once it covers every remove.
LEMMA AllCovered ==
  ASSUME NEW W \in SUBSET Register, NEW top \in Register, History(W, top),
         Covers(top.clock, Removes(W))
  PROVE  W \cup Drawn(W) \subseteq Below(top)
<1>0. top.clock \in Clock
  BY DEF Register
<1>1. ASSUME NEW w \in W PROVE Leq(w.clock, top.clock)
  <2>1. CASE \E t \in Removes(W) : Leq(w.clock, t.clock)
    <3>1. PICK t \in Removes(W) : Leq(w.clock, t.clock)
      BY <2>1
    <3>2. Leq(t.clock, top.clock) /\ t.clock \in Clock /\ w.clock \in Clock
      BY DEF Covers, Removes, Register
    <3> QED BY <1>0, <3>1, <3>2, LeqIsPartialOrder
  <2> QED BY <2>1 DEF History
<1>2. ASSUME NEW reg \in Drawn(W) PROVE Leq(reg.clock, top.clock)
  <2>1. ASSUME NEW x \in Node PROVE reg.clock[x] <= top.clock[x]
    <3>1. PICK w \in W : reg.clock[x] <= w.clock[x]
      BY DEF Drawn
    <3>2. w.clock[x] <= top.clock[x]
      BY <1>1 DEF Leq
    <3>3. /\ reg.clock[x] \in Nat /\ w.clock[x] \in Nat /\ top.clock[x] \in Nat
      BY <1>0 DEF Drawn, Register, Clock
    <3> QED BY <3>1, <3>2, <3>3
  <2> QED BY <2>1 DEF Leq
<1> QED BY <1>1, <1>2 DEF Below, Drawn

\* A put goes on with the history if it covers the last put, or if that is
\* not to be seen.
LEMMA HistoryGrows ==
  ASSUME NEW W \in SUBSET Register, NEW top, History(W, top),
         NEW new \in Register,
         W # {} => Leq(top.clock, new.clock) \/ top.value = Empty
  PROVE  /\ History(W \cup {new}, new)
         /\ Drawn(W) \subseteq Drawn(W \cup {new})
<1> DEFINE Z == W \cup {new}
<1>0. new.clock \in Clock /\ Leq(new.clock, new.clock)
  BY LeqIsPartialOrder DEF Register
<1>1. Removes(W) \subseteq Removes(Z)
  BY DEF Removes
<1>2. ASSUME NEW w \in W
      PROVE  \/ Leq(w.clock, new.clock)
             \/ \E t \in Removes(Z) : Leq(w.clock, t.clock)
  <2>1. top \in W /\ top.clock \in Clock /\ w.clock \in Clock
    BY DEF History, Register
  <2>2. CASE \E t \in Removes(W) : Leq(w.clock, t.clock)
    BY <1>1, <2>2
  <2>3. CASE Leq(w.clock, top.clock)
    <3>1. CASE top.value = Empty
      <4>1. top \in Removes(W)
        BY <2>1, <3>1 DEF Removes
      <4> QED BY <1>1, <2>3, <4>1
    <3>2. CASE Leq(top.clock, new.clock)
      BY <1>0, <2>1, <2>3, <3>2, LeqIsPartialOrder
    <3> QED BY <3>1, <3>2
  <2> QED BY <2>2, <2>3 DEF History
<1>3. History(Z, new)
  BY <1>0, <1>2 DEF History
<1> QED BY <1>3 DEF Drawn

-----------------------------------------------------------------------------
(* Scans and gets agree.                                                   *)

\* What puts have written to a key: the registers in the log, and the one
\* that has not reached it yet.
Wrote(k) ==
  {reg \in Register :
     \/ \E i \in 1..Len(wal) : wal[i] = [key |-> k, reg |-> reg]
     \/ mutex = "log" /\ pending = [key |-> k, reg |-> reg]}

\* ScanAgreesWithGet is not inductive: it says nothing of a key with a remove
\* that is not covered, and nothing of what later puts will leave uncovered.
\* Every version of a key is a put of it or was merged from some.
ScanInv ==
  kills = 0 /\ powerLosses = 0 =>
    /\ mutex # "link" => linked = Len(tables) - 1
    /\ \A k \in Key :
         /\ Covers(localClock, Wrote(k))
         /\ History(Wrote(k), Memory(tables, k))
         /\ \A i \in 1..Len(tables) : tables[i][k] \in Wrote(k) \cup {NoReg}
         /\ \A f \in Files : files[f][k] \in Drawn(Wrote(k)) \cup {NoReg}

LEMMA WroteType == \A k : Wrote(k) \in SUBSET Register
BY DEF Wrote

LEMMA NothingDrawn == Drawn({}) = {}
BY EngineAssumption DEF Drawn

\* When nobody holds the mutex, a get finds the last put.
LEMMA GetIsLastPut ==
  ASSUME TypeOK, ScanInv, kills = 0, powerLosses = 0,
         mutex = "free", NEW k \in Key
  PROVE  GetResults(k) = {Visible(Memory(tables, k))}
<1> DEFINE T == 1..linked \cup {Len(tables)}
           inMemory == Newest(tables, T, k)
<1>1. T = 1..Len(tables)
  BY DEF ScanInv, TypeOK
<1>2. inMemory = Memory(tables, k)
  BY <1>1 DEF Memory
<1>3. CASE inMemory # NoReg
  <2>1. GetResults(k) = {Visible(inMemory)}
    BY <1>3 DEF GetResults
  <2> QED BY <1>2, <2>1
<1>4. CASE inMemory = NoReg
  <2>1. Wrote(k) = {}
    BY <1>2, <1>4, WroteType, EngineAssumption DEF ScanInv, History
  <2>2. \A f \in Files : files[f][k] = NoReg
    BY <2>1, NothingDrawn DEF ScanInv
  <2>3. layout \in [Level -> SUBSET Files]
    BY DEF TypeOK
  <2>4. FileVersions(layout, k) = {NoReg}
    <3>1. {l \in Level : {f \in layout[l] : files[f][k] # NoReg} # {}} = {}
      BY <2>2, <2>3
    <3> QED BY <3>1 DEF FileVersions
  <2>5. GetResults(k) = {Visible(found) : found \in FileVersions(layout, k)}
    BY <1>4 DEF GetResults
  <2> QED BY <1>2, <1>4, <2>4, <2>5
<1> QED BY <1>3, <1>4

\* The version that memory has is one of those a scan merges.
LEMMA LastPutIsScanned ==
  ASSUME TypeOK, ScanInv, kills = 0, powerLosses = 0,
         mutex = "free", NEW k \in Key
  PROVE  /\ Memory(tables, k) # NoReg => Memory(tables, k) \in Versions(k)
         /\ \A v \in Versions(k) :
              v \in Wrote(k) \cup Drawn(Wrote(k))
<1>1. 1..linked \cup {Len(tables)} = 1..Len(tables) /\ tables \in Seq(Content)
  BY DEF ScanInv, TypeOK
<1>2. ASSUME Memory(tables, k) # NoReg
      PROVE  Memory(tables, k) \in Versions(k)
  <2>1. PICK i \in 1..Len(tables) : /\ tables[i][k] # NoReg
                                    /\ Memory(tables, k) = tables[i][k]
    <3>1. 1..Len(tables) \in SUBSET (1..Len(tables))
      OBVIOUS
    <3>2. \/ Newest(tables, 1..Len(tables), k) = NoReg
          \/ \E i \in 1..Len(tables) :
               /\ tables[i][k] # NoReg
               /\ Newest(tables, 1..Len(tables), k) = tables[i][k]
      BY ONLY <1>1, <3>1, NewestCases
    <3> QED BY <1>2, <3>2 DEF Memory
  <2> QED BY <1>1, <2>1 DEF Versions
<1>3. ASSUME NEW v \in Versions(k)
      PROVE  v \in Wrote(k) \cup Drawn(Wrote(k))
  <2>1. CASE \E i \in 1..Len(tables) : v = tables[i][k]
    BY <2>1 DEF ScanInv, Versions
  <2>2. CASE \E f \in Files : v = files[f][k]
    BY <2>2 DEF ScanInv, Versions
  <2>3. UNION {layout[l] : l \in Level} \subseteq Files
    BY DEF TypeOK
  <2> QED BY <1>1, <2>1, <2>2, <2>3 DEF Versions
<1> QED BY <1>2, <1>3

LEMMA ScanImplies ==
  ASSUME TypeOK, ScanInv
  PROVE  ScanAgreesWithGet
<1> DEFINE top(k) == Memory(tables, k)
<1> SUFFICES ASSUME mutex = "free", kills = 0, powerLosses = 0, NEW k \in Key,
                    CoversRemoves(k)
             PROVE  /\ \A reg \in ScanMerges(k) : reg # NoReg => reg.clock = top(k).clock
                    /\ HasNewStamp(k) => ScanResults(k) = GetResults(k)
  BY DEF ScanAgreesWithGet, Memory, LastPut
<1> DEFINE S == Versions(k)
<1>1. GetResults(k) = {Visible(top(k))}
  BY GetIsLastPut
<1>2. IsFiniteSet(S)
  BY VersionsFinite
<1>3. PICK g : IsScan(g, S, Cardinality(S)) /\ ScanMerges(k) = g[S]
  BY <1>2, ScanMergesAre
<1>4. History(Wrote(k), top(k)) /\ Wrote(k) \in SUBSET Register
  BY WroteType DEF ScanInv
<1>5. CASE top(k) = NoReg
  <2>1. Wrote(k) = {}
    BY <1>4, <1>5, EngineAssumption DEF History
  <2>2. S = {}
    BY <2>1, LastPutIsScanned, NothingDrawn
  <2>3. g[{}] = ScanRound(g, {})
    BY <1>3, <2>2, FS_EmptySet DEF IsScan
  <2>4. ScanMerges(k) = {NoReg}
    BY <1>3, <2>2, <2>3 DEF ScanRound
  <2> QED BY <1>1, <1>5, <2>4 DEF ScanResults
<1>6. CASE top(k) # NoReg
  <2>1. top(k) \in S
    BY <1>6, LastPutIsScanned
  <2>2. top(k) \in Register
    <3>1. Wrote(k) # {}
      BY <1>4, <1>6 DEF History
    <3> QED BY <1>4, <3>1 DEF History
  <2>3. Covers(top(k).clock, Removes(Wrote(k)))
    <3> SUFFICES ASSUME NEW t \in Wrote(k), t.value = Empty
                 PROVE  Leq(t.clock, top(k).clock)
      BY DEF Covers, Removes
    <3>1. PICK i \in 1..Len(wal) : wal[i] = [key |-> k, reg |-> t]
      BY DEF Wrote
    <3>2. DOMAIN wal = 1..Len(wal)
      BY DEF TypeOK
    <3> QED BY <3>1, <3>2 DEF CoversRemoves, LastPut, Memory
  <2>4. S \subseteq Below(top(k))
    BY <1>4, <2>2, <2>3, AllCovered, LastPutIsScanned
  <2>5. \A n \in Node : (\A v \in S : v = top(k) \/ v.clock[n] < top(k).clock[n])
                          => S \subseteq Under(top(k), n)
    BY <2>4 DEF Under, Below
  <2>6. HasNewStamp(k) => \E n \in Node : S \subseteq Under(top(k), n)
    BY <2>5 DEF HasNewStamp, LastPut, Memory
  <2> HIDE DEF S, top
  <2>7. g[S] \subseteq Stamped(top(k))
    <3>1. Below(top(k)) \in SUBSET Register /\ top(k) \in Stamped(top(k))
      BY <2>2 DEF Below, Stamped
    <3>2. \A a, b \in Below(top(k)) :
            /\ Merge(a, b) \in Below(top(k))
            /\ a \in Stamped(top(k)) \/ b \in Stamped(top(k))
                 => Merge(a, b) \in Stamped(top(k))
      BY <2>2, BelowMerge
    <3> QED BY <1>2, <1>3, <2>1, <2>4, <3>1, <3>2, ScanGives
  <2>8. ASSUME NEW n \in Node, S \subseteq Under(top(k), n)
        PROVE  g[S] = {top(k)}
    <3>1. Under(top(k), n) \in SUBSET Register /\ top(k) \in {top(k)}
      BY DEF Under
    <3>2. \A a, b \in Under(top(k), n) :
            /\ Merge(a, b) \in Under(top(k), n)
            /\ a \in {top(k)} \/ b \in {top(k)} => Merge(a, b) \in {top(k)}
      BY <2>2, UnderMerge
    <3>3. g[S] # {} /\ g[S] \subseteq {top(k)}
      BY <1>2, <1>3, <2>1, <2>8, <3>1, <3>2, ScanGives
    <3> QED BY <3>3
  <2>9. \A reg \in ScanMerges(k) : reg.clock = top(k).clock
    BY <1>3, <2>7 DEF Stamped
  <2>10. HasNewStamp(k) => ScanResults(k) = GetResults(k)
    <3> SUFFICES ASSUME HasNewStamp(k)
                 PROVE  {Visible(reg) : reg \in g[S]} = {Visible(top(k))}
      BY <1>1, <1>3 DEF ScanResults
    <3>1. g[S] = {top(k)}
      BY <2>6, <2>8
    <3> QED BY <3>1
  <2> QED BY <2>9, <2>10
<1> QED BY <1>5, <1>6

LEMMA ScanInit == ASSUME Init PROVE ScanInv
<1>1. /\ wal = <<>> /\ Len(wal) = 0 /\ mutex = "free" /\ Len(files) = 0
      /\ tables = <<Nothing>> /\ Len(tables) = 1 /\ tables[1] = Nothing
      /\ linked = 0 /\ localClock = ZeroClock
  BY DEF Init
<1>2. \A k \in Key : Wrote(k) = {}
  BY <1>1 DEF Wrote
<1>3. \A k \in Key : Memory(tables, k) = NoReg /\ tables[1][k] = NoReg
  BY <1>1, MemoryOne, NothingType DEF Nothing
<1>5. \A k \in Key : /\ Covers(localClock, Wrote(k))
                     /\ History(Wrote(k), Memory(tables, k))
  BY <1>2, <1>3 DEF Covers, History
<1> QED BY <1>1, <1>3, <1>5 DEF ScanInv, Files

\* A step that writes nothing to any key and leaves the memtables as they
\* are, but for a fresh one, and a file at most by adding one whose versions
\* are drawn from the puts.
LEMMA ScanElse ==
  ASSUME TypeOK, ScanInv,
         kills' = kills, powerLosses' = powerLosses,
         localClock' = localClock, wal' = wal, pending' = pending,
         mutex' = "log" <=> mutex = "log",
         mutex' # "link" /\ linked = Len(tables) - 1 => linked' = Len(tables') - 1,
         mutex = "link" /\ mutex' # "link" => linked' = Len(tables') - 1,
         tables' = tables \/ tables' = Append(tables, Nothing),
         \/ files' = files
         \/ \E c \in Content :
              /\ files' = Append(files, c)
              /\ kills = 0 /\ powerLosses = 0 =>
                   \A k \in Key :
                     c[k] \in Drawn(Wrote(k)) \cup {NoReg}
  PROVE  ScanInv'
<1> SUFFICES ASSUME kills = 0, powerLosses = 0 PROVE ScanInv'
  BY DEF ScanInv
<1>1. \A k : Wrote(k)' = Wrote(k)
  BY DEF Wrote
<1>2. ASSUME NEW k \in Key
      PROVE  /\ Memory(tables', k) = Memory(tables, k)
             /\ \A i \in 1..Len(tables') : tables'[i][k] \in Wrote(k) \cup {NoReg}
  <2>0. tables \in Seq(Content) /\ Len(tables) \in Nat
    BY DEF TypeOK
  <2>1. CASE tables' = tables
    BY <2>1 DEF ScanInv
  <2>2. CASE tables' = Append(tables, Nothing)
    <3>1. Memory(tables', k) = Memory(tables, k)
      BY <2>0, <2>2, MemoryFresh
    <3>2. /\ Len(tables') = Len(tables) + 1 /\ tables'[Len(tables')] = Nothing
          /\ \A i \in 1..Len(tables) : tables'[i] = tables[i]
      BY <2>0, <2>2
    <3>3. Nothing[k] = NoReg
      BY DEF Nothing
    <3> QED BY <2>0, <3>1, <3>2, <3>3 DEF ScanInv
  <2> QED BY <2>1, <2>2
<1>3. ASSUME NEW k \in Key, NEW f \in Files'
      PROVE  files'[f][k] \in Drawn(Wrote(k)) \cup {NoReg}
  <2>1. CASE files' = files
    BY <2>1 DEF ScanInv, Files
  <2>2. ASSUME NEW c \in Content, files' = Append(files, c),
               c[k] \in Drawn(Wrote(k)) \cup {NoReg}
        PROVE  files'[f][k] \in Drawn(Wrote(k)) \cup {NoReg}
    <3>1. /\ Len(files) \in Nat /\ Len(files') = Len(files) + 1
          /\ files'[Len(files')] = c
          /\ \A g \in 1..Len(files) : files'[g] = files[g]
      BY <2>2 DEF TypeOK
    <3> QED BY <2>2, <3>1 DEF ScanInv, Files
  <2> QED BY <2>1, <2>2
<1>4. mutex' # "link" => linked' = Len(tables') - 1
  BY DEF ScanInv
<1>5. \A k \in Key : /\ Covers(localClock', Wrote(k))
                     /\ History(Wrote(k), Memory(tables, k))
  BY DEF ScanInv
<1> QED BY <1>1, <1>2, <1>3, <1>4, <1>5 DEF ScanInv

\* A put writes its register, and nothing to the other keys.
LEMMA ScanInsert ==
  ASSUME TypeOK, TypeOK', ScanInv, kills = 0, powerLosses = 0,
         mutex = "free", NEW k \in Key, NEW reg \in Register, Insert(k, reg),
         Leq(localClock, localClock'),
         Leq(reg.clock, localClock'),
         History(Wrote(k) \cup {reg}, reg),
         Drawn(Wrote(k)) \subseteq Drawn(Wrote(k) \cup {reg})
  PROVE  ScanInv'
<1>1. /\ mutex' = "log" /\ pending' = [key |-> k, reg |-> reg]
      /\ wal' = wal /\ files' = files /\ linked' = linked
      /\ tables' = [tables EXCEPT ![Len(tables)][k] = reg]
  BY DEF Insert, walVars, fileVars
<1>2. \A j \in Key : Memory(tables', j) = IF j = k THEN reg ELSE Memory(tables, j)
  BY InsertMemory
<1>3. \A j \in Key : Wrote(j)' = IF j = k THEN Wrote(j) \cup {reg} ELSE Wrote(j)
  BY <1>1 DEF Wrote
<1>4. /\ Len(tables') = Len(tables)
      /\ \A i \in 1..Len(tables), j \in Key :
           tables'[i][j] = tables[i][j] \/ (j = k /\ tables'[i][j] = reg)
  <2>0. tables \in Seq(Content) /\ tables # <<>>
    BY DEF TypeOK
  <2>1. /\ Len(tables) \in 1..Len(tables)
        /\ \A i \in 1..Len(tables) : tables[i] \in Content
    BY <2>0
  <2> QED BY <1>1, <2>0, <2>1 DEF Content
<1>5. localClock \in Clock /\ localClock' \in Clock
  BY DEF TypeOK
<1>6. ASSUME NEW j \in Key PROVE Covers(localClock', Wrote(j))
  <2>1. Covers(localClock, Wrote(j)) /\ Wrote(j) \in SUBSET Register
    BY WroteType DEF ScanInv
  <2>2. ASSUME NEW w \in Wrote(j) PROVE Leq(w.clock, localClock')
    <3>1. w.clock \in Clock /\ Leq(w.clock, localClock)
      BY <2>1 DEF Covers, Register
    <3> QED BY <1>5, <3>1, LeqIsPartialOrder
  <2> QED BY <2>2 DEF Covers
<1>7. ASSUME NEW j \in Key, j # k
      PROVE  /\ Covers(localClock', Wrote(j)')
             /\ History(Wrote(j)', Memory(tables', j))
             /\ \A i \in 1..Len(tables') : tables'[i][j] \in Wrote(j)' \cup {NoReg}
             /\ \A f \in Files : files'[f][j] \in Drawn(Wrote(j)') \cup {NoReg}
  BY <1>1, <1>2, <1>3, <1>4, <1>6, <1>7 DEF ScanInv
<1>8. /\ Covers(localClock', Wrote(k)')
      /\ History(Wrote(k)', Memory(tables', k))
      /\ \A i \in 1..Len(tables') : tables'[i][k] \in Wrote(k)' \cup {NoReg}
      /\ \A f \in Files : files'[f][k] \in Drawn(Wrote(k)') \cup {NoReg}
  <2>1. Wrote(k)' = Wrote(k) \cup {reg} /\ Memory(tables', k) = reg
    BY <1>2, <1>3
  <2>2. Covers(localClock', Wrote(k) \cup {reg})
    BY <1>6 DEF Covers
  <2>3. \A i \in 1..Len(tables') : tables'[i][k] \in Wrote(k) \cup {reg, NoReg}
    BY <1>4 DEF ScanInv
  <2>4. \A f \in Files : files'[f][k] \in Drawn(Wrote(k) \cup {reg}) \cup {NoReg}
    BY <1>1 DEF ScanInv
  <2> QED BY <2>1, <2>2, <2>3, <2>4
<1>9. mutex' # "link" => linked' = Len(tables') - 1
  BY <1>1, <1>4 DEF ScanInv
<1> QED BY <1>1, <1>7, <1>8, <1>9 DEF ScanInv, Files

LEMMA ScanPut ==
  ASSUME TypeOK, TypeOK', ScanInv, kills = 0, powerLosses = 0,
         NEW k \in Key, NEW v \in Written[k], Put(k, v)
  PROVE  ScanInv'
<1> DEFINE d == Increment(localClock, Self)
           new == [value |-> v, clock |-> d]
           top == Memory(tables, k)
           W == Wrote(k)
<1>1. localClock \in Clock /\ d \in Clock /\ v \in Value /\ new \in Register
  <2>1. localClock \in Clock /\ d \in Clock /\ v \in Value
    BY EngineAssumption, ClockType DEF TypeOK
  <2> QED BY <2>1 DEF Register
<1>2. mutex = "free" /\ localClock' = d /\ Insert(k, new)
  BY DEF Put
<1>3. W \in SUBSET Register /\ Covers(localClock, W) /\ History(W, top)
  BY WroteType DEF ScanInv
<1>4. Leq(localClock, d) /\ Leq(new.clock, d)
  <2>1. Leq(localClock, d)
    BY <1>1 DEF Leq, Increment, Clock
  <2> QED BY <1>1, <2>1, LeqIsPartialOrder
<1>5. W # {} => Leq(top.clock, new.clock)
  <2> SUFFICES ASSUME W # {} PROVE Leq(top.clock, d)
    OBVIOUS
  <2>1. top \in W /\ top.clock \in Clock
    BY <1>3 DEF History, Register
  <2>2. Leq(top.clock, localClock)
    BY <1>3, <2>1 DEF Covers
  <2> QED BY <1>1, <1>4, <2>1, <2>2, LeqIsPartialOrder
<1>6. History(W \cup {new}, new) /\ Drawn(W) \subseteq Drawn(W \cup {new})
  <2> HIDE DEF W, top, new
  <2> QED BY <1>1, <1>3, <1>5, HistoryGrows
<1> HIDE DEF d, new
<1> QED BY <1>1, <1>2, <1>4, <1>6, ScanInsert

LEMMA ScanPutCrdt ==
  ASSUME TypeOK, TypeOK', ScanInv, kills = 0, powerLosses = 0,
         NEW k \in Key, NEW r \in Incoming[k], PutCrdt(k, r)
  PROVE  ScanInv'
<1> DEFINE top == Memory(tables, k)
           W == Wrote(k)
           d == MergeClock(localClock, r.clock)
           new == IF Visible(top) = NoReg THEN r ELSE Merge(r, top)
<1>1. /\ localClock \in Clock /\ r \in Register /\ r.clock \in Clock
      /\ W \in SUBSET Register
  <2>1. localClock \in Clock
    BY DEF TypeOK
  <2>2. r \in Register
    BY EngineAssumption
  <2> QED BY <2>1, <2>2, WroteType DEF Register
<1>2. mutex = "free" /\ localClock' = d
  BY DEF PutCrdt
<1>3. Covers(localClock, W) /\ History(W, top)
  BY DEF ScanInv
<1>4. Insert(k, new)
  <2>1. GetResults(k) = {Visible(top)}
    BY <1>2, GetIsLastPut
  <2>2. Insert(k, IF Visible(top) = NoReg THEN r ELSE Merge(r, Visible(top)))
    BY <2>1 DEF PutCrdt
  <2> QED BY <2>2 DEF Visible
<1>5. Leq(localClock, d) /\ Leq(r.clock, d) /\ d \in Clock
  BY <1>1, MergeClockIsJoin, ClockType
<1> HIDE DEF top, W
<1>6. top = NoReg \/ top \in W
  BY <1>3 DEF History
<1>7. /\ new \in Register /\ Leq(new.clock, d)
      /\ W # {} => Leq(top.clock, new.clock) \/ top.value = Empty
  <2>1. CASE Visible(top) = NoReg
    <3>1. new = r
      BY <2>1
    <3>2. W # {} => top.value = Empty
      BY <1>1, <1>3, <2>1, EngineAssumption DEF Visible, History
    <3> QED BY <1>1, <1>5, <3>1, <3>2
  <2>2. CASE Visible(top) # NoReg
    <3>1. new = Merge(r, top)
      BY <2>2
    <3>2. top \in W /\ top \in Register /\ top.clock \in Clock
      BY <1>1, <1>6, <2>2 DEF Visible, Register
    <3>3. /\ new \in Register /\ new.clock = MergeClock(r.clock, top.clock)
      BY <1>1, <3>1, <3>2, MergeType, MergeJoinsClocks
    <3>4. Leq(top.clock, d)
      <4>1. Leq(top.clock, localClock)
        BY <1>3, <3>2 DEF Covers
      <4> QED BY <1>1, <1>5, <3>2, <4>1, LeqIsPartialOrder
    <3>5. /\ Leq(MergeClock(r.clock, top.clock), d)
          /\ Leq(top.clock, MergeClock(r.clock, top.clock))
      BY <1>1, <1>5, <3>2, <3>4, MergeClockIsJoin
    <3> QED BY <3>3, <3>5
  <2> QED BY <2>1, <2>2
<1> HIDE DEF new, d
<1>8. History(W \cup {new}, new) /\ Drawn(W) \subseteq Drawn(W \cup {new})
  BY <1>1, <1>3, <1>7, HistoryGrows
<1> QED BY <1>2, <1>4, <1>5, <1>7, <1>8, ScanInsert DEF W, top

\* The output of a flush or of a compaction is drawn from the puts.
LEMMA ScanNewFile ==
  ASSUME TypeOK, ScanInv, FlushTable \/ ExecuteCompaction
  PROVE  ScanInv'
<1> DEFINE A(k) == Drawn(Wrote(k))
<1>1. /\ kills' = kills /\ powerLosses' = powerLosses
      /\ localClock' = localClock /\ tables' = tables /\ linked' = linked
      /\ wal' = wal /\ mutex' = mutex /\ pending' = pending
  BY DEF FlushTable, ExecuteCompaction, memVars, walVars, putVars
<1>2. \/ files' = files
      \/ \E c \in Content :
           /\ files' = Append(files, c)
           /\ kills = 0 /\ powerLosses = 0 =>
                \A k \in Key : c[k] \in A(k) \cup {NoReg}
  <2>1. CASE FlushTable
    <3>1. PICK i \in Unflushed : files' = Append(files, tables[i])
      BY <2>1 DEF FlushTable
    <3>2. i \in 1..Len(tables) /\ tables[i] \in Content
      BY <3>1 DEF Unflushed, TypeOK
    <3>3. ASSUME kills = 0, powerLosses = 0, NEW k \in Key
          PROVE  tables[i][k] \in A(k) \cup {NoReg}
      <4>1. tables[i][k] \in Wrote(k) \cup {NoReg}
        BY <3>2, <3>3 DEF ScanInv
      <4>2. Wrote(k) \subseteq A(k)
        BY WroteType, PutsAreDrawn
      <4> QED BY <4>1, <4>2
    <3> QED BY <3>1, <3>2, <3>3
  <2>2. CASE ExecuteCompaction /\ task.inputs # {}
    <3>1. task.inputs \in SUBSET Files
      BY <2>2 DEF ExecuteCompaction, TypeOK, Task
    <3>2. PICK s \in Listings(task.inputs) :
            files' = Append(files, [k \in Key |-> Folded(s, k)])
      BY <2>2 DEF ExecuteCompaction
    <3>3. s \in Seq(task.inputs)
      BY <3>1, ListingIsSeq
    <3> DEFINE c == [k \in Key |-> Folded(s, k)]
    <3>4. c \in Content
      BY <3>1, <3>3, FoldedFound DEF Content
    <3>5. ASSUME kills = 0, powerLosses = 0, NEW k \in Key
          PROVE  Folded(s, k) \in A(k) \cup {NoReg}
      <4>2. \A a, b \in A(k) : Merge(a, b) \in A(k)
        BY WroteType, DrawnMerge
      <4>3. \A f \in task.inputs : files[f][k] \in A(k) \cup {NoReg}
        BY <3>1, <3>5 DEF ScanInv
      <4> HIDE DEF A
      <4> QED BY <3>1, <3>3, <4>2, <4>3, FoldedStays
    <3>6. \A k \in Key : c[k] = Folded(s, k)
      OBVIOUS
    <3> HIDE DEF c, A
    <3>7. files' = Append(files, c)
      BY <3>2 DEF c
    <3>8. kills = 0 /\ powerLosses = 0 => \A k \in Key : c[k] \in A(k) \cup {NoReg}
      BY <3>5, <3>6
    <3> QED BY <3>4, <3>7, <3>8
  <2>3. CASE ExecuteCompaction /\ task.inputs = {}
    BY <2>3 DEF ExecuteCompaction
  <2> QED BY <2>1, <2>2, <2>3
<1> QED BY <1>1, <1>2, ScanElse

LEMMA ScanInvStep ==
  ASSUME TypeOK, ScanInv, [Next]_vars
  PROVE  ScanInv'
<1>0. TypeOK'
  BY TypeStep
<1> SUFFICES ASSUME kills' = 0, powerLosses' = 0 PROVE ScanInv'
  BY DEF ScanInv
<1>1. ASSUME NEW k \in Key, NEW v \in Written[k], Put(k, v) PROVE ScanInv'
  <2>1. kills' = kills /\ powerLosses' = powerLosses
    BY <1>1 DEF Put, Insert
  <2> QED BY <1>0, <1>1, <2>1, ScanPut
<1>2. ASSUME NEW k \in Key, NEW r \in Incoming[k], PutCrdt(k, r)
      PROVE  ScanInv'
  <2>1. kills' = kills /\ powerLosses' = powerLosses
    BY <1>2 DEF PutCrdt, Insert
  <2> QED BY <1>0, <1>2, <2>1, ScanPutCrdt
<1>3. CASE AppendLog

  <2>1. /\ kills' = kills /\ powerLosses' = powerLosses
        /\ localClock' = localClock /\ tables' = tables /\ linked' = linked
        /\ files' = files
        /\ mutex = "log" /\ mutex' \in {"free", "swap"}
        /\ wal' = Append(wal, pending)
    BY <1>3 DEF AppendLog, FinishPut, memVars, fileVars, bounds, history
  <2>2. \A k : Wrote(k)' = Wrote(k)
    <3>1. wal \in Seq(Record \cup {Torn}) /\ pending \in Record
      BY <2>1 DEF TypeOK
    <3>2. /\ Len(wal) \in Nat /\ Len(wal') = Len(wal) + 1
          /\ wal'[Len(wal')] = pending
          /\ \A i \in 1..Len(wal) : wal'[i] = wal[i]
      BY <2>1, <3>1
    <3>3. \A rec : (\E i \in 1..Len(wal') : wal'[i] = rec)
                     <=> (\E i \in 1..Len(wal) : wal[i] = rec) \/ pending = rec
      BY <3>2
    <3> QED BY <2>1, <3>3 DEF Wrote
  <2> QED BY <2>1, <2>2 DEF ScanInv, Files
<1>4. CASE SwapActive
  BY <1>4, ScanElse DEF SwapActive, fileVars, walVars, bounds, history
<1>5. CASE LinkFrozen
  <2>1. /\ mutex = "link" /\ mutex' = "free" /\ tables' = tables
        /\ linked' = Len(tables) - 1 /\ localClock' = localClock
        /\ files' = files /\ wal' = wal /\ kills' = kills
        /\ powerLosses' = powerLosses
    BY <1>5 DEF LinkFrozen, FinishPut, fileVars, walVars, bounds, history
  <2>2. \A k : Wrote(k)' = Wrote(k)
    BY <2>1 DEF Wrote
  <2> QED BY <2>1, <2>2 DEF ScanInv, Files
<1>6. CASE FlushTable \/ ExecuteCompaction
  BY <1>6, ScanNewFile
<1>7. CASE StartFlush \/ PublishFlush
  BY <1>7, ScanElse DEF StartFlush, PublishFlush, memVars, fileVars, walVars, bounds, history
<1>8. CASE NothingToFlush \/ ApplyCompaction \/ PlanCompaction
  BY <1>8, ScanElse
     DEF NothingToFlush, PlanCompaction, ApplyCompaction, memVars, fileVars,
         walVars, putVars, bounds, history
<1>9. ASSUME NEW r \in Reader, Get(r) PROVE ScanInv'
  BY <1>9, ScanElse
     DEF Get, GetActive, GetImmutable, GetFiles, EndGet, memVars, fileVars,
         walVars, putVars, bounds, history
<1>10. CASE Kill \/ PowerLoss
  <2>1. kills \in Nat /\ powerLosses \in Nat
    BY DEF TypeOK
  <2> QED BY <1>10, <2>1 DEF Kill, PowerLoss
<1>11. CASE UNCHANGED vars
  BY <1>11, ScanElse DEF vars, memVars, fileVars, walVars, putVars, bounds, history
<1> QED BY <1>1, <1>2, <1>3, <1>4, <1>5, <1>6, <1>7, <1>8, <1>9, <1>10, <1>11
        DEF Next, Writer, Write, Worker

\* Until the first crash a scan gives for a key the clock of its last put, in
\* whatever order it merges the versions that are in memtables and files, and
\* what a get of it gives if that put carries a new stamp, while nobody puts
\* and when the last put of the key covers every remove of it: whatever was
\* put, received, frozen, flushed and compacted, and whether the files of the
\* worker open or not.
THEOREM ScanAlwaysAgreesWithGet == Spec => []ScanAgreesWithGet
<1>1. Init => TypeOK /\ ScanInv
  BY TypeInit, ScanInit
<1>2. TypeOK /\ ScanInv /\ [Next]_vars => TypeOK' /\ ScanInv'
  BY TypeStep, ScanInvStep
<1>3. TypeOK /\ ScanInv => ScanAgreesWithGet
  BY ScanImplies
<1> QED BY <1>1, <1>2, <1>3, PTL DEF Spec

=============================================================================
