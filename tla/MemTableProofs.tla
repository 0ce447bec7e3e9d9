--------------------------- MODULE MemTableProofs ---------------------------
(***************************************************************************)
(* Theorems about MemTable, for every set of keys, sizes and readers,      *)
(* every number of levels and every block size.                            *)
(***************************************************************************)
EXTENDS MemTable, ArenaProofs

-----------------------------------------------------------------------------
(* The inductive invariant. *)

\* A search for key k in level i may stand at n.
Reached(n, i, k) == n \in {head} \cup Linked(i) /\ (n = head \/ n < k)

\* The put has found the node behind which its key belongs in level i.
PrevIsFound(i) ==
  LET p == put.prev[i]
  IN  Reached(p, i, put.key) /\ (next[p][i] = Nil \/ next[p][i] >= put.key)

\* No node is higher than the list.
HeightsFit == \A k \in Key : height[k] <= maxHeight

\* What the writer has found stays where it belongs while it links level by
\* level: nobody else changes the list.
WriterInv ==
  /\ put.at \notin {"idle", "find", "insert"} => put.view \in View
  /\ put.at = "find" =>
       /\ put.level < maxHeight
       /\ Reached(put.node, put.level, put.key)
       /\ \A i \in Heights : put.level < i /\ i < maxHeight => PrevIsFound(i)
  /\ put.at = "insert" =>
       /\ put.node = put.prev[0]
       /\ \A i \in Heights : i < maxHeight => PrevIsFound(i)
  /\ put.at \in {"point", "link"} =>
       /\ put.level < height[put.key]
       /\ \A i \in Heights : put.level <= i /\ i < height[put.key] => PrevIsFound(i)
  /\ put.at = "link" =>
       next[put.key][put.level] = next[put.prev[put.level]][put.level]

\* A reader stands on a node that is in the list of its level, and a node
\* never leaves a list.
ReaderInv ==
  \A r \in Reader :
    LET c == call[r]
    IN  /\ c.at \in {"min", "max", "start"} => c.node = head
        /\ c.at = "find" => Reached(c.node, c.level, c.from)
        /\ c.at \in {"copy", "next"} => c.node \in Linked(0)

ListInv == LevelsAreSorted /\ HeightsFit /\ WriterInv /\ ReaderInv

-----------------------------------------------------------------------------
(* The list at one moment. *)

LEMMA HeightsAre == 0 \in Heights /\ Heights \subseteq Nat
BY MemTableAssumption DEF Heights

\* Whoever is in a level is in the one below.
LEMMA LinkedBelow ==
  ASSUME TypeOK, NEW i \in Heights, i > 0
  PROVE  i - 1 \in Heights /\ Linked(i) \subseteq Linked(i - 1)
<1>1. i \in Nat /\ i - 1 \in Heights
  BY MemTableAssumption DEF Heights
<1>2. \A k \in Key : height[k] \in Nat
  BY DEF TypeOK
<1>3. put.level \in Nat
  BY HeightsAre DEF TypeOK, Writing
<1> QED BY <1>1, <1>2, <1>3 DEF Linked

\* A pointer that is followed leads to a node of the level, or nowhere.
LEMMA NextIsLinked ==
  ASSUME LevelsAreSorted, NEW i \in Heights, NEW n \in {head} \cup Linked(i)
  PROVE  /\ next[n][i] \in Linked(i) \cup {Nil}
         /\ next[n][i] # Uninit
         /\ next[n][i] # Nil => next[n][i] \in Nat /\ (n = head \/ n < next[n][i])
<1>1. IsNext(n, next[n][i], Linked(i))
  BY DEF LevelsAreSorted
<1>2. Linked(i) \subseteq Key /\ Key \subseteq Nat
  BY MemTableAssumption DEF Linked
<1>3. next[n][i] \in Linked(i) \cup {Nil}
  BY <1>1 DEF IsNext
<1>4. next[n][i] # Nil => next[n][i] \in Nat /\ (n = head \/ n < next[n][i])
  BY <1>1, <1>2 DEF IsNext
<1> QED BY <1>2, <1>3, <1>4, MemTableAssumption

\* A node of the level that is not behind the key is not behind n either.
LEMMA NextIsLeast ==
  ASSUME LevelsAreSorted, NEW i \in Heights, NEW n \in {head} \cup Linked(i),
         NEW k \in Linked(i), n = head \/ n < k
  PROVE  next[n][i] # Nil /\ next[n][i] <= k
BY MemTableAssumption DEF LevelsAreSorted, IsNext, Linked

-----------------------------------------------------------------------------
(* Steps that leave the list alone. *)

\* Only a put that links can change who is linked.
LEMMA LinkedSame ==
  ASSUME height' = height,
         \/ put.at \notin {"point", "link"} /\ put'.at \notin {"point", "link"}
         \/ put' = put
         \/ /\ put.at = "point" /\ put'.at = "link"
            /\ put'.key = put.key /\ put'.level = put.level
  PROVE  \A i : Linked(i)' = Linked(i)
BY DEF Linked

LEMMA ListSame ==
  ASSUME LevelsAreSorted, HeightsFit, UNCHANGED <<next, height, maxHeight>>,
         \A i : Linked(i)' = Linked(i)
  PROVE  LevelsAreSorted' /\ HeightsFit'
BY DEF LevelsAreSorted, HeightsFit

\* The call of a reader stands where it stood.
SameCall(r) ==
  /\ call'[r].at = call[r].at /\ call'[r].node = call[r].node
  /\ call'[r].level = call[r].level /\ call'[r].from = call[r].from
  /\ call'[r].to = call[r].to

LEMMA ReadersSame ==
  ASSUME TypeOK, ReaderInv, \A r \in Reader : SameCall(r),
         \A i \in Heights : Linked(i) \subseteq Linked(i)'
  PROVE  ReaderInv'
<1> SUFFICES ASSUME NEW r \in Reader
             PROVE  (LET c == call[r]
                     IN  /\ c.at \in {"min", "max", "start"} => c.node = head
                         /\ c.at = "find" => Reached(c.node, c.level, c.from)
                         /\ c.at \in {"copy", "next"} => c.node \in Linked(0))'
  BY DEF ReaderInv
<1>1. call[r].level \in Heights /\ 0 \in Heights
  BY HeightsAre DEF TypeOK, Reading
<1>2. /\ call[r].at \in {"min", "max", "start"} => call[r].node = head
      /\ call[r].at = "find" => Reached(call[r].node, call[r].level, call[r].from)
      /\ call[r].at \in {"copy", "next"} => call[r].node \in Linked(0)
  BY DEF ReaderInv
<1>3. \A i \in Heights : \A n : n \in Linked(i) => n \in Linked(i)'
  OBVIOUS
<1>4. /\ call'[r].at = call[r].at /\ call'[r].node = call[r].node
      /\ call'[r].level = call[r].level /\ call'[r].from = call[r].from
  BY DEF SameCall
<1>5. CASE call[r].at \in {"min", "max", "start"}
  BY <1>2, <1>4, <1>5
<1>6. CASE call[r].at = "find"
  BY <1>1, <1>2, <1>3, <1>4, <1>6 DEF Reached, Linked
<1>7. CASE call[r].at \in {"copy", "next"}
  BY <1>1, <1>2, <1>3, <1>4, <1>7 DEF Linked
<1> QED BY <1>4, <1>5, <1>6, <1>7

LEMMA CallsUnchanged ==
  ASSUME call' = call
  PROVE  \A r \in Reader : SameCall(r)
BY DEF SameCall

\* A put that does not search or link has nothing to keep.
LEMMA WriterDone ==
  ASSUME put'.at \notin {"find", "insert", "point", "link"},
         put'.at = "idle" \/ put'.view \in View
  PROVE  WriterInv'
BY DEF WriterInv

-----------------------------------------------------------------------------
(* The writer and the list. *)

LEMMA ListPut ==
  ASSUME TypeOK, ListInv, NEW k \in Key, NEW size \in ValueSizes[k], Put(k, size)
  PROVE  ListInv'
<1>1. /\ put.at = "idle" /\ put'.at = "find" /\ put'.key = k
      /\ put'.level = maxHeight - 1 /\ put'.node = head
      /\ UNCHANGED <<next, height, maxHeight, call>>
  BY DEF Put, IdlePut, listVars
<1>2. \A i : Linked(i)' = Linked(i)
  BY <1>1, LinkedSame
<1>3. WriterInv'
  <2>1. maxHeight \in Nat /\ Heights \subseteq Nat
    BY HeightsAre, MemTableAssumption DEF TypeOK
  <2> QED BY <1>1, <2>1 DEF WriterInv, Reached
<1> QED BY <1>1, <1>2, <1>3, ListSame, ReadersSame, CallsUnchanged DEF ListInv

LEMMA ListPutFind ==
  ASSUME TypeOK, ListInv, PutFind
  PROVE  ListInv'
<1> DEFINE n == next[put.node][put.level]
<1>1. /\ put.at = "find" /\ put \in Writing /\ put.key \in Key /\ put.key \in Nat
      /\ put.level \in Heights /\ put.level \in Nat
      /\ maxHeight \in Nat /\ put.prev \in [Heights -> Node \cup {Uninit}]
  BY HeightsAre, MemTableAssumption DEF PutFind, TypeOK, Writing
<1>2. /\ Reached(put.node, put.level, put.key)
      /\ put.level < maxHeight
      /\ \A i \in Heights : put.level < i /\ i < maxHeight => PrevIsFound(i)
  BY <1>1 DEF ListInv, WriterInv
<1>3. /\ n \in Linked(put.level) \cup {Nil}
      /\ n # Nil => n \in Nat
  BY <1>1, <1>2, NextIsLinked DEF ListInv, Reached
<1> HIDE DEF n
<1>4. UNCHANGED <<next, height, maxHeight, call>> /\ put'.key = put.key
  BY <1>1 DEF PutFind, listVars, Writing
<1>5. CASE KeyIsAfterNode(put.key, n)
  <2>1. /\ put'.at = "find" /\ put'.node = n /\ put'.level = put.level
        /\ put'.prev = put.prev
    BY <1>1, <1>5 DEF PutFind, n, Writing
  <2>2. \A i : Linked(i)' = Linked(i)
    BY <1>1, <1>4, <2>1, LinkedSame
  <2>3. Reached(n, put.level, put.key)
    BY <1>3, <1>5 DEF KeyIsAfterNode, Reached
  <2>4. WriterInv'
    BY <1>2, <1>4, <2>1, <2>2, <2>3 DEF WriterInv, Reached, PrevIsFound
  <2> QED BY <1>4, <2>2, <2>4, ListSame, ReadersSame, CallsUnchanged DEF ListInv
<1>6. CASE ~KeyIsAfterNode(put.key, n)
  <2>1. PICK l \in Heights : l = put.level /\ l \in Nat
    BY <1>1
  <2>2. /\ put'.at \in {"find", "insert"} /\ put'.node = put.node
        /\ put'.prev = [put.prev EXCEPT ![l] = put.node]
        /\ l > 0 => put'.at = "find" /\ put'.level = l - 1
        /\ l = 0 => put'.at = "insert"
    BY <1>1, <1>6, <2>1 DEF PutFind, n, Writing
  <2>3. \A i : Linked(i)' = Linked(i)
    BY <1>1, <1>4, <2>2, LinkedSame
  <2>4. /\ n = Nil \/ n >= put.key
        /\ put'.prev[l] = put.node
        /\ \A i \in Heights : i # l => put'.prev[i] = put.prev[i]
    BY <1>1, <1>3, <1>6, <2>1, <2>2 DEF KeyIsAfterNode
  <2>5. PrevIsFound(l)'
    BY <1>1, <1>2, <1>4, <2>1, <2>2, <2>3, <2>4 DEF PrevIsFound, Reached, n
  <2>6. \A i \in Heights : i > l /\ i < maxHeight => PrevIsFound(i)'
    BY <1>1, <1>2, <1>4, <2>1, <2>2, <2>3, <2>4, HeightsAre DEF PrevIsFound, Reached
  <2>7. \A i \in Heights : i >= l /\ i < maxHeight => PrevIsFound(i)'
    BY <2>1, <2>5, <2>6, HeightsAre
  <2>8. CASE l > 0
    <3>1. Reached(put.node, l - 1, put.key)
      BY <1>1, <1>2, <2>1, <2>8, LinkedBelow DEF Reached
    <3>2. \A i \in Heights : l - 1 < i /\ i < maxHeight => PrevIsFound(i)'
      BY <1>1, <2>1, <2>7, HeightsAre
    <3>3. /\ put'.at = "find" /\ put'.level = l - 1 /\ put'.level < maxHeight'
          /\ Reached(put.node, put.level, put.key)'
      BY <1>1, <1>2, <1>4, <2>1, <2>2, <2>3, <2>8, <3>1 DEF Reached
    <3>4. WriterInv'
      BY <1>4, <3>2, <3>3 DEF WriterInv
    <3> QED BY <1>4, <2>3, <3>4, ListSame, ReadersSame, CallsUnchanged DEF ListInv
  <2>9. CASE l = 0
    <3>1. put'.at = "insert" /\ put'.node = put'.prev[0]
      BY <1>1, <2>2, <2>4, <2>9
    <3>2. \A i \in Heights : i < maxHeight => PrevIsFound(i)'
      BY <2>7, <2>9, HeightsAre
    <3>3. WriterInv'
      BY <1>4, <3>1, <3>2 DEF WriterInv
    <3> QED BY <1>4, <2>3, <3>3, ListSame, ReadersSame, CallsUnchanged DEF ListInv
  <2> QED BY <2>1, <2>8, <2>9
<1> QED BY <1>5, <1>6


-----------------------------------------------------------------------------
(* What a put takes from the arena. *)

LEMMA StoreSound ==
  ASSUME NEW a \in Arenas, Sound(a), NEW bytes \in Nat
  PROVE  /\ Store(a, bytes) \in Arenas /\ Sound(Store(a, bytes))
         /\ [ptr |-> Store(a, bytes).result, len |-> bytes] \in View
<1>1. Store(a, bytes) \in Arenas /\ Sound(Store(a, bytes))
  <2>1. CASE bytes = 0
    <3> DEFINE z == [a EXCEPT !.result = nullptr]
    <3>1. /\ z \in Arenas /\ z.blocks = a.blocks /\ z.block = a.block
          /\ z.offset = a.offset /\ z.remaining = a.remaining /\ z.chunks = a.chunks
      BY DEF Arenas
    <3> HIDE DEF z
    <3>2. Sound(z)
      BY <3>1 DEF Sound, FreeIsFree
    <3> QED BY <2>1, <3>1, <3>2 DEF Store, z
  <2>2. CASE bytes # 0
    BY <2>2, AllocateSound DEF Store
  <2> QED BY <2>1, <2>2
<1>2. Store(a, bytes).result \in Address \cup {nullptr}
  BY <1>1 DEF Arenas
<1> QED BY <1>1, <1>2 DEF View

LEMMA NewNodeSound ==
  ASSUME NEW a \in Arenas, Sound(a), NEW keyBytes \in Nat,
         NEW valueBytes \in Nat, NEW h \in 1..kMaxHeight
  PROVE  /\ NewNode(a, keyBytes, valueBytes, h) \in Arenas
         /\ Sound(NewNode(a, keyBytes, valueBytes, h))
         /\ NewView(a, keyBytes, valueBytes) \in View
<1>1. /\ Store(a, keyBytes) \in Arenas /\ Sound(Store(a, keyBytes))
  BY StoreSound
<1> DEFINE b == Store(a, keyBytes)
<1> HIDE DEF b
<1>2. /\ Store(b, valueBytes) \in Arenas /\ Sound(Store(b, valueBytes))
      /\ [ptr |-> Store(b, valueBytes).result, len |-> valueBytes] \in View
  BY <1>1, StoreSound DEF b
<1>3. NodeSize(h) \in Nat \ {0}
  BY DEF NodeSize, Pointer
<1>4. /\ AllocateAligned(Store(b, valueBytes), NodeSize(h)) \in Arenas
      /\ Sound(AllocateAligned(Store(b, valueBytes), NodeSize(h)))
  BY <1>2, <1>3, AllocateAlignedSound
<1> QED BY <1>2, <1>4 DEF NewNode, NewView, b

\* The arena and the value after a step of the writer.
LEMMA CopyValueSound ==
  ASSUME TypeOK, ArenaIsSound, CopyValue
  PROVE  arena' \in Arenas /\ Sound(arena') /\ put'.view \in View
<1>1. arena \in Arenas /\ Sound(arena) /\ put.size \in Nat /\ put \in Writing
  BY DEF TypeOK, Writing, ArenaIsSound
<1>2. /\ arena' = Store(arena, put.size)
      /\ put' = [put EXCEPT !.at = "first",
                            !.view = [ptr |-> arena'.result, len |-> put.size]]
  BY DEF CopyValue
<1> QED BY <1>1, <1>2, StoreSound DEF Writing

LEMMA PlaceNodeSound ==
  ASSUME TypeOK, ArenaIsSound, NEW h \in RandomHeight, put.key \in Key
  PROVE  /\ NewNode(arena, KeySize[put.key], put.size, h) \in Arenas
         /\ Sound(NewNode(arena, KeySize[put.key], put.size, h))
         /\ NewView(arena, KeySize[put.key], put.size) \in View
<1>1. arena \in Arenas /\ Sound(arena) /\ put.size \in Nat
  BY DEF TypeOK, Writing, ArenaIsSound
<1>2. KeySize[put.key] \in Nat
  BY MemTableAssumption
<1> QED BY <1>1, <1>2, NewNodeSound DEF RandomHeight

-----------------------------------------------------------------------------
(* The rest of the writer's steps and the list. *)

\* A step of the writer outside of the list.
LEMMA ListOutside ==
  ASSUME TypeOK, ListInv, UNCHANGED <<next, height, maxHeight>>,
         put.at \notin {"point", "link"},
         put'.at \notin {"find", "insert", "point", "link"},
         put'.at = "idle" \/ put'.view \in View,
         \A r \in Reader : SameCall(r)
  PROVE  ListInv'
<1>1. \A i : Linked(i)' = Linked(i)
  BY LinkedSame
<1> QED BY <1>1, WriterDone, ListSame, ReadersSame DEF ListInv

LEMMA WitnessSame ==
  ASSUME NEW k, NEW v, Witness(k, v), TypeOK
  PROVE  \A r \in Reader : SameCall(r)
<1> SUFFICES ASSUME NEW r \in Reader PROVE SameCall(r)
  OBVIOUS
<1>1. call[r] \in Reading
  BY DEF TypeOK
<1>2. \/ call'[r] = [call[r] EXCEPT !.allowed[k] = @ \cup {v}]
      \/ call'[r] = call[r]
  BY DEF Witness
<1> QED BY <1>1, <1>2 DEF SameCall, Reading

LEMMA ListCopyValue ==
  ASSUME TypeOK, ArenaIsSound, ListInv, CopyValue
  PROVE  ListInv'
<1>1. put.at = "insert" /\ put'.at = "first" /\ UNCHANGED <<next, height, maxHeight>>
  BY DEF CopyValue, listVars, TypeOK, Writing
<1>2. \A r \in Reader : SameCall(r)
  BY WitnessSame DEF CopyValue
<1>3. put'.view \in View
  BY CopyValueSound
<1> QED BY <1>1, <1>2, <1>3, ListOutside

LEMMA ListStoreWord ==
  ASSUME TypeOK, ListInv, NEW w \in Words, StoreWord(w)
  PROVE  ListInv'
<1>1. /\ put.at \in {"first", "second"} /\ put'.at \in {"second", "range"}
      /\ put'.view = put.view /\ UNCHANGED <<next, height, maxHeight>>
  BY DEF StoreWord, TypeOK, Writing
<1>2. put.view \in View
  BY <1>1 DEF ListInv, WriterInv
<1>3. ASSUME NEW r \in Reader PROVE SameCall(r)
  <2>1. call[r] \in Reading
    BY DEF TypeOK
  <2>2. call'[r] = [call[r] EXCEPT !.torn = TRUE] \/ call'[r] = call[r]
    BY DEF StoreWord
  <2> QED BY <2>1, <2>2 DEF SameCall, Reading
<1> QED BY <1>1, <1>2, <1>3, ListOutside

LEMMA ListRange ==
  ASSUME TypeOK, ListInv, UpdateRange \/ AssignMin \/ AssignMax
  PROVE  ListInv'
<1>1. /\ put.at \in {"range", "min", "max"} /\ UNCHANGED <<next, height, maxHeight, call>>
  BY DEF UpdateRange, AssignMin, AssignMax, listVars
<1>2. put.view \in View
  BY <1>1 DEF ListInv, WriterInv
<1>3. \/ put'.at = "idle"
      \/ put'.at \in {"min", "max"} /\ put'.view = put.view
  BY DEF UpdateRange, AssignMin, AssignMax, FinishPut, IdlePut, TypeOK, Writing
<1> QED BY <1>1, <1>2, <1>3, ListOutside, CallsUnchanged


\* A new key is not in the list yet.
LEMMA NotFoundIsNew ==
  ASSUME TypeOK, ListInv, put.at = "insert", ~Found
  PROVE  put.key \in Key /\ height[put.key] = 0
<1>1. /\ put.key \in Key /\ put.key \in Nat /\ 0 \in Heights
      /\ 0 < maxHeight /\ put.node = put.prev[0]
  <2>1. put.key \in Key /\ maxHeight \in 1..kMaxHeight
    BY DEF TypeOK
  <2>2. put.key \in Nat /\ kMaxHeight \in Nat
    BY <2>1, MemTableAssumption
  <2>3. 0 < maxHeight
    BY <2>1, <2>2
  <2>4. put.node = put.prev[0]
    BY DEF ListInv, WriterInv
  <2> QED BY <2>1, <2>2, <2>3, <2>4, HeightsAre
<1>2. PrevIsFound(0)
  BY <1>1 DEF ListInv, WriterInv
<1>3. ASSUME height[put.key] # 0 PROVE FALSE
  <2>1. put.key \in Linked(0)
    BY <1>1, <1>3 DEF Linked, TypeOK
  <2>2. Reached(put.node, 0, put.key)
    BY <1>1, <1>2 DEF PrevIsFound
  <2>3. next[put.node][0] # Nil /\ next[put.node][0] <= put.key
    BY <1>1, <2>1, <2>2, NextIsLeast DEF Reached, ListInv
  <2>4. next[put.node][0] >= put.key /\ next[put.node][0] \in Nat
    BY <1>1, <1>2, <2>2, <2>3, NextIsLinked DEF PrevIsFound, Reached, ListInv
  <2> QED BY <1>1, <2>3, <2>4 DEF Found
<1> QED BY <1>1, <1>3

LEMMA ListPlaceNode ==
  ASSUME TypeOK, ArenaIsSound, ListInv, PlaceNode
  PROVE  ListInv'
<1>1. put.at = "insert" /\ put.key \in Key /\ height[put.key] = 0
  BY NotFoundIsNew DEF PlaceNode
<1>2. PICK k \in Key : k = put.key /\ k \in Nat /\ k # head /\ k # Nil
  BY <1>1, MemTableAssumption
<1>3. PICK h \in RandomHeight :
        /\ height' = [height EXCEPT ![k] = h]
        /\ maxHeight' = IF h > maxHeight THEN h ELSE maxHeight
        /\ next' = [next EXCEPT ![k] =
                      [i \in Heights |-> IF i = 0 THEN Nil ELSE Uninit]]
        /\ put' = [put EXCEPT !.at = "point", !.level = 0, !.prev = Prev(h),
                      !.view = NewView(arena, KeySize[k], put.size)]
  BY <1>2 DEF PlaceNode
<1>4. h \in Nat /\ h > 0 /\ maxHeight \in Nat /\ Heights \subseteq Nat
  BY HeightsAre, MemTableAssumption DEF RandomHeight, TypeOK
<1>5. /\ put'.at = "point" /\ put'.key = k /\ put'.level = 0
      /\ put'.prev = Prev(h) /\ put'.view \in View
  BY <1>1, <1>2, <1>3, PlaceNodeSound DEF TypeOK, Writing
<1>6. /\ \A j \in Key : height[j] \in Nat /\ (j # k => height'[j] = height[j])
      /\ height'[k] = h /\ height[k] = 0
  BY <1>1, <1>2, <1>3 DEF TypeOK
<1>7. \A i \in Heights : Linked(i)' = Linked(i) /\ k \notin Linked(i)
  <2> SUFFICES ASSUME NEW i \in Heights, NEW j \in Key
               PROVE  /\ j \in Linked(i)' <=> j \in Linked(i)
                      /\ k \notin Linked(i)
    BY DEF Linked
  <2>1. i \in Nat
    BY <1>4
  <2>2. CASE j = k
    BY <1>5, <1>6, <2>1, <2>2 DEF Linked
  <2>3. CASE j # k
    BY <1>1, <1>2, <1>5, <1>6, <2>1, <2>3 DEF Linked
  <2> QED BY <2>2, <2>3
<1>8. \A n \in Node : n # k => next'[n] = next[n]
  BY <1>3 DEF TypeOK
<1>9. LevelsAreSorted'
  <2>1. ASSUME NEW i \in Heights, NEW n \in {head} \cup Linked(i)
        PROVE  IsNext(n, next'[n][i], Linked(i))
    <3>1. n \in Node /\ n # k
      BY <1>2, <1>7 DEF Node, Linked
    <3> QED BY <1>8, <3>1 DEF ListInv, LevelsAreSorted
  <2> QED BY <1>7, <2>1 DEF LevelsAreSorted, IsNext
<1>10. HeightsFit'
  BY <1>3, <1>4, <1>6 DEF HeightsFit, ListInv
<1>11. ASSUME NEW i \in Heights, i < h PROVE PrevIsFound(i)'
  <2>1. CASE i < maxHeight
    <3>1. PrevIsFound(i) /\ put'.prev[i] = put.prev[i]
      BY <1>1, <1>4, <1>5, <2>1 DEF ListInv, WriterInv, Prev
    <3>2. put.prev[i] \in Node /\ put.prev[i] # k
      BY <1>2, <1>7, <3>1 DEF PrevIsFound, Reached, Node, Linked
    <3>3. next'[put.prev[i]] = next[put.prev[i]]
      BY <1>8, <3>2
    <3> QED BY <1>2, <1>5, <1>7, <3>1, <3>3 DEF PrevIsFound, Reached
  <2>2. CASE i >= maxHeight
    <3>1. put'.prev[i] = head
      BY <1>4, <1>5, <1>11, <2>2 DEF Prev
    <3>2. Linked(i) = {}
      BY <1>4, <2>2 DEF Linked, ListInv, HeightsFit, TypeOK
    <3>3. next[head][i] = Nil
      BY <3>2, NextIsLinked DEF ListInv
    <3>4. next'[head] = next[head]
      BY <1>2, <1>8 DEF Node
    <3> QED BY <1>5, <3>1, <3>3, <3>4 DEF PrevIsFound, Reached
  <2> QED BY <1>4, <2>1, <2>2
<1>12. WriterInv'
  BY <1>4, <1>5, <1>6, <1>11 DEF WriterInv
<1>13. \A r \in Reader : SameCall(r)
  BY WitnessSame DEF PlaceNode
<1> QED BY <1>7, <1>9, <1>10, <1>12, <1>13, ReadersSame DEF ListInv

\* The store of the new node's own pointer: nobody can see it yet.
LEMMA ListPoint ==
  ASSUME TypeOK, ListInv, SetNext, put.at = "point"
  PROVE  ListInv'
<1>1. PICK k \in Key : k = put.key /\ k \in Nat /\ k # head
  BY MemTableAssumption DEF TypeOK
<1>2. PICK l \in Heights : l = put.level /\ l \in Nat
  BY HeightsAre DEF TypeOK, Writing
<1>3. /\ next' = [next EXCEPT ![k][l] = next[put.prev[l]][l]]
      /\ put' = [put EXCEPT !.at = "link"]
      /\ UNCHANGED <<height, maxHeight, call>>
  BY <1>1, <1>2 DEF SetNext
<1>4. /\ put'.at = "link" /\ put'.key = k /\ put'.level = l
      /\ put'.prev = put.prev /\ put'.view = put.view
  BY <1>1, <1>2, <1>3 DEF TypeOK, Writing
<1>5. \A i : Linked(i)' = Linked(i)
  BY <1>1, <1>2, <1>3, <1>4, LinkedSame
<1>6. /\ \A i \in Heights : i >= l => k \notin Linked(i)
      /\ put.view \in View /\ l < height[k]
      /\ \A i \in Heights : l <= i /\ i < height[k] => PrevIsFound(i)
  <2>1. \A i \in Heights : i >= l => k \notin Linked(i)
    BY <1>1, <1>2, HeightsAre DEF Linked
  <2>2. WriterInv
    BY DEF ListInv
  <2> QED BY <1>1, <1>2, <2>1, <2>2 DEF WriterInv
<1>7. /\ \A n \in Node, i \in Heights : n # k \/ i # l => next'[n][i] = next[n][i]
      /\ next'[k][l] = next[put.prev[l]][l]
  BY <1>1, <1>2, <1>3 DEF TypeOK, Node
<1>8. LevelsAreSorted'
  <2>1. ASSUME NEW i \in Heights, NEW n \in {head} \cup Linked(i)
        PROVE  IsNext(n, next'[n][i], Linked(i))
    <3>1. n \in Node /\ (n # k \/ i # l)
      BY <1>1, <1>2, <1>6 DEF Node, Linked
    <3> QED BY <1>7, <3>1 DEF ListInv, LevelsAreSorted
  <2> QED BY <1>5, <2>1 DEF LevelsAreSorted, IsNext
<1>9. ASSUME NEW i \in Heights, l <= i, i < height[k]
      PROVE  /\ PrevIsFound(i)'
             /\ next'[put.prev[i]][i] = next[put.prev[i]][i]
  <2>1. PrevIsFound(i) /\ put.prev[i] \in Node /\ put.prev[i] # k
    BY <1>1, <1>2, <1>6, <1>9, HeightsAre DEF PrevIsFound, Reached, Node, Linked
  <2>2. next'[put.prev[i]][i] = next[put.prev[i]][i]
    BY <1>7, <2>1
  <2> QED BY <1>1, <1>4, <1>5, <2>1, <2>2 DEF PrevIsFound, Reached
<1>10. next'[put.prev[l]][l] = next[put.prev[l]][l]
  BY <1>2, <1>6, <1>9
<1>11. WriterInv'
  BY <1>3, <1>4, <1>6, <1>7, <1>9, <1>10 DEF WriterInv
<1> QED BY <1>3, <1>5, <1>8, <1>11, ListSame, ReadersSame, CallsUnchanged
        DEF ListInv, HeightsFit


\* n comes before j in a list.
Before(n, j) == n = head \/ n < j

LEMMA IsNextIs ==
  ASSUME NEW n, NEW b, NEW S
  PROVE  IsNext(n, b, S) <=>
           \/ b = Nil /\ \A j \in S : ~Before(n, j)
           \/ /\ b \in S /\ Before(n, b)
              /\ \A j \in S : Before(n, j) => b <= j
<1> DEFINE above == {j \in S : n = head \/ n < j}
<1>1. \A j : j \in above <=> j \in S /\ Before(n, j)
  BY DEF Before
<1>2. IsNext(n, b, S) <=>
        IF above = {} THEN b = Nil
        ELSE b \in above /\ \A j \in above : b <= j
  BY DEF IsNext
<1> HIDE DEF above
<1>3. CASE above = {}
  BY <1>1, <1>2, <1>3
<1>4. CASE above # {}
  BY <1>1, <1>2, <1>4
<1> QED BY <1>3, <1>4

\* One key more between a node and its successor.
LEMMA SortedInsert ==
  ASSUME NEW S \in SUBSET Key, NEW next1, NEW next2, NEW k \in Key \ S,
         NEW p \in {head} \cup S, p = head \/ p < k,
         \A n \in {head} \cup S : IsNext(n, next1[n], S),
         next1[p] = Nil \/ next1[p] >= k,
         next2[p] = k, next2[k] = next1[p],
         \A n \in ({head} \cup S) \ {p} : next2[n] = next1[n]
  PROVE  \A n \in {head} \cup S \cup {k} : IsNext(n, next2[n], S \cup {k})
<1> DEFINE b == next1[p]
<1>1. /\ k \in Nat /\ \A j \in S : j \in Nat /\ j # k /\ j # head /\ j # Nil
      /\ k # head
  BY MemTableAssumption
<1>2. Before(p, k) /\ \A j \in S \cup {k} : Before(head, j)
  BY DEF Before
<1>3. \/ b = Nil /\ \A j \in S : ~Before(p, j)
      \/ /\ b \in S /\ Before(p, b)
         /\ \A j \in S : Before(p, j) => b <= j
  <2>1. IsNext(p, b, S)
    OBVIOUS
  <2> QED BY <2>1, IsNextIs
<1>4. ASSUME b \in S PROVE b > k
  <2>1. b \in Nat /\ b # k /\ b # Nil
    BY <1>1, <1>4
  <2>2. b = Nil \/ b >= k
    OBVIOUS
  <2> QED BY ONLY <1>1, <2>1, <2>2
<1>5. \A j \in S : Before(p, j) <=> j > k
  <2> TAKE j \in S
  <2>1. j \in Nat /\ k \in Nat /\ (p = head \/ (p \in Nat /\ p < k))
    BY <1>1
  <2>2. ASSUME Before(p, j) PROVE j > k
    <3>1. b \in S /\ b <= j
      BY <1>3, <2>2
    <3>2. b > k /\ b \in Nat
      BY <1>1, <1>4, <3>1
    <3> QED BY ONLY <2>1, <3>1, <3>2
  <2>3. ASSUME j > k PROVE Before(p, j)
    BY ONLY <2>1, <2>3 DEF Before
  <2> QED BY <2>2, <2>3
<1>6. IsNext(p, next2[p], S \cup {k})
  <2>1. \A j \in S \cup {k} : Before(p, j) => k <= j
    BY <1>1, <1>5
  <2> QED BY <1>2, <2>1, IsNextIs
<1>7. IsNext(k, next2[k], S \cup {k})
  <2>1. \A j \in S \cup {k} : Before(k, j) <=> j \in S /\ Before(p, j)
    BY <1>1, <1>5 DEF Before
  <2>2. \/ b = Nil /\ \A j \in S \cup {k} : ~Before(k, j)
        \/ /\ b \in S \cup {k} /\ Before(k, b)
           /\ \A j \in S \cup {k} : Before(k, j) => b <= j
    BY <1>3, <2>1
  <2> QED BY <2>2, IsNextIs
<1>8. ASSUME NEW n \in ({head} \cup S) \ {p}
      PROVE  IsNext(n, next2[n], S \cup {k})
  <2> DEFINE c == next1[n]
  <2>1. \/ c = Nil /\ \A j \in S : ~Before(n, j)
        \/ /\ c \in S /\ Before(n, c)
           /\ \A j \in S : Before(n, j) => c <= j
    <3>1. IsNext(n, c, S)
      OBVIOUS
    <3> QED BY <3>1, IsNextIs
  <2>2. next2[n] = c
    OBVIOUS
  <2> HIDE DEF c
  <2>3. CASE Before(n, k)
    <3>1. p \in S /\ Before(n, p) /\ p < k
      <4>1. CASE n = head
        <5>1. p \in S /\ p < k
          BY <4>1
        <5> QED BY <4>1, <5>1 DEF Before
      <4>2. CASE n \in S /\ n < k
        <5>1. ~Before(p, n)
          BY <1>1, <1>5, <4>2
        <5>2. p # head /\ ~(p < n)
          BY <5>1 DEF Before
        <5> QED BY <1>1, <4>2, <5>2 DEF Before
      <4> QED BY <1>1, <2>3, <4>1, <4>2 DEF Before
    <3>2. c \in S /\ Before(n, c) /\ c <= p
      BY <2>1, <3>1
    <3>3. c <= k
      BY <1>1, <3>1, <3>2
    <3>4. /\ c \in S \cup {k}
          /\ \A j \in S \cup {k} : Before(n, j) => c <= j
      BY <1>1, <2>1, <3>2, <3>3
    <3> QED BY <2>2, <3>2, <3>4, IsNextIs
  <2>4. CASE ~Before(n, k)
    <3>1. \/ c = Nil /\ \A j \in S \cup {k} : ~Before(n, j)
          \/ /\ c \in S \cup {k} /\ Before(n, c)
             /\ \A j \in S \cup {k} : Before(n, j) => c <= j
      BY <2>1, <2>4
    <3> QED BY <2>2, <3>1, IsNextIs
  <2> QED BY <2>3, <2>4
<1> QED BY <1>6, <1>7, <1>8

\* The store that makes the new node seen in a level.
LEMMA ListLink ==
  ASSUME TypeOK, ListInv, SetNext, put.at = "link"
  PROVE  ListInv'
<1>1. PICK k \in Key : k = put.key /\ k \in Nat /\ k # head
  BY MemTableAssumption DEF TypeOK
<1>2. PICK l \in Heights : l = put.level /\ l \in Nat
  BY HeightsAre DEF TypeOK, Writing
<1>3. /\ put.view \in View /\ l < height[k] /\ height[k] \in Nat
      /\ \A i \in Heights : l <= i /\ i < height[k] => PrevIsFound(i)
      /\ next[k][l] = next[put.prev[l]][l]
  BY <1>1, <1>2 DEF ListInv, WriterInv, TypeOK
<1>4. PICK p \in {head} \cup Linked(l) :
        /\ p = put.prev[l] /\ p \in Node /\ p # k
        /\ p = head \/ p < k
        /\ next[p][l] = Nil \/ next[p][l] >= k
  BY <1>1, <1>2, <1>3 DEF PrevIsFound, Reached, Node, Linked
<1>5. /\ next' = [next EXCEPT ![p][l] = k]
      /\ put' = IF l + 1 < height[k] THEN [put EXCEPT !.at = "point", !.level = @ + 1]
                                     ELSE [put EXCEPT !.at = "range"]
      /\ UNCHANGED <<height, maxHeight, call>>
  BY <1>1, <1>2, <1>4 DEF SetNext
<1>6. /\ put'.key = k /\ put'.prev = put.prev /\ put'.view = put.view
      /\ \/ put'.at = "point" /\ put'.level = l + 1 /\ l + 1 < height[k]
         \/ put'.at = "range" /\ l + 1 = height[k]
  BY <1>1, <1>2, <1>3, <1>5 DEF TypeOK, Writing
<1>7. /\ \A i \in Heights : i # l => Linked(i)' = Linked(i)
      /\ Linked(l)' = Linked(l) \cup {k} /\ k \notin Linked(l)
  <2>1. ASSUME NEW i \in Heights, NEW j \in Key
        PROVE  j \in Linked(i)' <=> j \in Linked(i) \/ (j = k /\ i = l)
    BY <1>1, <1>2, <1>3, <1>5, <1>6, HeightsAre DEF Linked
  <2>2. k \notin Linked(l)
    BY <1>1, <1>2 DEF Linked
  <2>3. \A i \in Heights : Linked(i) \subseteq Key /\ Linked(i)' \subseteq Key
    BY DEF Linked
  <2> QED BY <2>1, <2>2, <2>3
<1>8. /\ \A n \in Node, i \in Heights : n # p \/ i # l => next'[n][i] = next[n][i]
      /\ next'[p][l] = k
  BY <1>4, <1>5 DEF TypeOK
<1>9. LevelsAreSorted'
  <2>1. ASSUME NEW i \in Heights, i # l, NEW n \in {head} \cup Linked(i)
        PROVE  IsNext(n, next'[n][i], Linked(i)')
    <3>1. n \in Node
      BY DEF Node, Linked
    <3>2. next'[n][i] = next[n][i] /\ Linked(i)' = Linked(i)
      BY <1>7, <1>8, <2>1, <3>1
    <3> QED BY <3>2 DEF ListInv, LevelsAreSorted
  <2>2. \A n \in {head} \cup Linked(l)' : IsNext(n, next'[n][l], Linked(l)')
    <3> DEFINE next1 == [n \in Node |-> next[n][l]]
               next2 == [n \in Node |-> next'[n][l]]
               S     == Linked(l)
    <3>1. S \in SUBSET Key /\ k \in Key \ S /\ p \in {head} \cup S
      BY <1>1, <1>4, <1>7 DEF Linked
    <3>2. \A n \in {head} \cup S : IsNext(n, next1[n], S)
      BY DEF ListInv, LevelsAreSorted, Node, Linked
    <3>3. next1[p] = Nil \/ next1[p] >= k
      BY <1>4
    <3>4. /\ next2[p] = k /\ next2[k] = next1[p]
          /\ \A n \in ({head} \cup S) \ {p} : next2[n] = next1[n]
      BY <1>1, <1>3, <1>4, <1>8 DEF Node, Linked
    <3> HIDE DEF next1, next2, S
    <3>5. \A n \in {head} \cup S \cup {k} : IsNext(n, next2[n], S \cup {k})
      BY ONLY <1>4, <3>1, <3>2, <3>3, <3>4, SortedInsert
    <3>6. \A n \in {head} \cup S \cup {k} : next2[n] = next'[n][l]
      BY <1>1 DEF S, next2, Node, Linked
    <3> QED BY <1>7, <3>5, <3>6 DEF S
  <2> QED BY <1>7, <2>1, <2>2 DEF LevelsAreSorted, IsNext
<1>10. ASSUME NEW i \in Heights, l + 1 <= i, i < height[k]
       PROVE  PrevIsFound(i)'
  <2>1. i # l /\ l <= i
    BY <1>2, <1>10, HeightsAre
  <2>2. PrevIsFound(i) /\ put.prev[i] \in Node
    BY <1>3, <1>10, <2>1 DEF PrevIsFound, Reached, Node, Linked
  <2>3. next'[put.prev[i]][i] = next[put.prev[i]][i]
    BY <1>8, <2>1, <2>2
  <2> QED BY <1>1, <1>6, <1>7, <2>1, <2>2, <2>3 DEF PrevIsFound, Reached
<1>11. WriterInv'
  BY <1>3, <1>5, <1>6, <1>10 DEF WriterInv
<1>12. \A i \in Heights : Linked(i) \subseteq Linked(i)'
  BY <1>7
<1>13. HeightsFit'
  BY <1>5 DEF HeightsFit, ListInv
<1> QED BY <1>5, <1>9, <1>11, <1>12, <1>13, ReadersSame, CallsUnchanged DEF ListInv


-----------------------------------------------------------------------------
(* The readers and the list. *)

\* A call that stands at c is where a reader may be.
Placed(c) ==
  /\ c.at \in {"min", "max", "start"} => c.node = head
  /\ c.at = "find" => Reached(c.node, c.level, c.from)
  /\ c.at \in {"copy", "next"} => c.node \in Linked(0)

LEMMA ListCall ==
  ASSUME TypeOK, ListInv, NEW r \in Reader, NEW c, Placed(c),
         call' = [call EXCEPT ![r] = c], UNCHANGED readUnchanged
  PROVE  ListInv'
<1>1. UNCHANGED <<next, height, maxHeight, put>>
  BY DEF readUnchanged, listVars
<1>2. \A i : Linked(i)' = Linked(i)
  BY <1>1, LinkedSame
<1>3. LevelsAreSorted' /\ HeightsFit'
  BY <1>1, <1>2, ListSame DEF ListInv
<1>4. WriterInv'
  <2>1. WriterInv
    BY DEF ListInv
  <2> QED BY <1>1, <2>1 DEF WriterInv, PrevIsFound, Reached, Linked
<1>5. ReaderInv'
  <2> SUFFICES ASSUME NEW q \in Reader PROVE Placed(call[q])'
    BY DEF ReaderInv, Placed
  <2>1. Placed(call[q])
    BY DEF ListInv, ReaderInv, Placed
  <2>2. call'[q] = IF q = r THEN c ELSE call[q]
    BY DEF TypeOK
  <2>3. CASE q = r
    BY <1>1, <2>2, <2>3 DEF Placed, Reached, Linked
  <2>4. CASE q # r
    BY <1>1, <2>1, <2>2, <2>4 DEF Placed, Reached, Linked
  <2> QED BY <2>3, <2>4
<1> QED BY <1>3, <1>4, <1>5 DEF ListInv

LEMMA PlacedCall ==
  ASSUME TypeOK, ListInv, NEW r \in Reader
  PROVE  Placed(call[r]) /\ call[r] \in Reading
BY DEF ListInv, ReaderInv, Placed, TypeOK

\* Where a search or a scan goes from a node of level 0.
LEMMA VisitPlaced ==
  ASSUME NEW c \in Reading, NEW n \in Linked(0) \cup {Nil}
  PROVE  /\ Placed(Visit(c, n))
         /\ Visit(c, n) \in Reading
         /\ Visit(c, n).at \in {"copy", "done"} /\ Visit(c, n).from = c.from
<1>1. CASE n # Nil /\ n <= c.to
  <2>1. Visit(c, n) = [c EXCEPT !.at = "copy", !.node = n, !.torn = FALSE]
    BY <1>1 DEF Visit
  <2>2. n \in Linked(0) /\ n \in Node
    BY <1>1 DEF Linked, Node
  <2> QED BY <2>1, <2>2 DEF Placed, Reading
<1>2. CASE ~(n # Nil /\ n <= c.to)
  BY <1>2 DEF Visit, Placed, Reading
<1> QED BY <1>1, <1>2

\* Search gives a call that is placed again.
LEMMA SearchPlaced ==
  ASSUME TypeOK, ListInv, NEW r \in Reader, Search(r)
  PROVE  \E c \in Reading : /\ call' = [call EXCEPT ![r] = c] /\ Placed(c)
                            /\ c.at # "idle" /\ c.from = call[r].from
<1> DEFINE c == call[r]
           n == next[c.node][c.level]
<1>1. c \in Reading /\ c.at = "find" /\ c.from \in Key /\ c.from \in Nat
  BY MemTableAssumption DEF Search, TypeOK
<1>2. Reached(c.node, c.level, c.from) /\ c.level \in Heights /\ c.level \in Nat
  BY <1>1, PlacedCall, HeightsAre DEF Placed, Reading
<1>3. n \in Linked(c.level) \cup {Nil} /\ (n # Nil => n \in Node)
  <2>1. n \in Linked(c.level) \cup {Nil}
    BY <1>2, NextIsLinked DEF ListInv, Reached
  <2> QED BY <2>1 DEF Linked, Node
<1>4. call' = [call EXCEPT ![r] =
                IF KeyIsAfterNode(c.from, n) THEN [c EXCEPT !.node = n]
                ELSE IF c.level > 0 THEN [c EXCEPT !.level = @ - 1]
                ELSE Visit(c, n)]
  BY DEF Search
<1> HIDE DEF n, c
<1>5. CASE KeyIsAfterNode(c.from, n)
  <2> DEFINE d == [c EXCEPT !.node = n]
  <2>1. d \in Reading /\ d.at = "find" /\ d.node = n /\ d.level = c.level /\ d.from = c.from
    BY <1>1, <1>3, <1>5 DEF Reading, KeyIsAfterNode
  <2>2. Placed(d)
    BY <1>3, <1>5, <2>1 DEF Placed, Reached, KeyIsAfterNode
  <2>3. call' = [call EXCEPT ![r] = d]
    BY <1>4, <1>5
  <2> HIDE DEF d
  <2> QED BY <2>1, <2>2, <2>3 DEF c
<1>6. CASE ~KeyIsAfterNode(c.from, n) /\ c.level > 0
  <2> DEFINE d == [c EXCEPT !.level = @ - 1]
  <2>1. c.level - 1 \in Heights /\ Linked(c.level) \subseteq Linked(c.level - 1)
    BY <1>2, <1>6, LinkedBelow
  <2>2. /\ d \in Reading /\ d.at = "find" /\ d.node = c.node
        /\ d.level = c.level - 1 /\ d.from = c.from
    BY <1>1, <2>1 DEF Reading
  <2>3. Placed(d)
    BY <1>2, <2>1, <2>2 DEF Placed, Reached
  <2>4. call' = [call EXCEPT ![r] = d]
    BY <1>4, <1>6
  <2> HIDE DEF d
  <2> QED BY <2>2, <2>3, <2>4 DEF c
<1>7. CASE ~KeyIsAfterNode(c.from, n) /\ ~(c.level > 0)
  <2>1. c.level = 0 /\ n \in Linked(0) \cup {Nil}
    BY <1>2, <1>3, <1>7
  <2>2. /\ Placed(Visit(c, n)) /\ Visit(c, n) \in Reading
        /\ Visit(c, n).at \in {"copy", "done"} /\ Visit(c, n).from = c.from
    BY <1>1, <2>1, VisitPlaced
  <2>3. call' = [call EXCEPT ![r] = Visit(c, n)]
    BY <1>4, <1>7
  <2> QED BY <2>2, <2>3 DEF c
<1> QED BY <1>5, <1>6, <1>7


\* Every step of a reader gives a call that is well-formed and placed.
Moved(r) ==
  \E c \in Reading : /\ call' = [call EXCEPT ![r] = c] /\ Placed(c)
                     /\ c.at # "idle" => c.from \in Key

LEMMA IdleCallType == IdleCall \in Reading /\ Placed(IdleCall) /\ IdleCall.at = "idle"
<1>1. 0 \in Heights /\ EmptyView \in View
  BY HeightsAre DEF EmptyView, View
<1>2. <<>> \in Seq([key : Key, view : View, torn : BOOLEAN])
  OBVIOUS
<1>3. [k \in Key |-> {}] \in [Key -> SUBSET (View \cup {NoView})]
  OBVIOUS
<1> QED BY <1>1, <1>2, <1>3 DEF IdleCall, Reading, Placed, Node

LEMMA BeginMoved ==
  ASSUME TypeOK, NEW r \in Reader, NEW op \in {"get", "scan"},
         NEW at \in {"min", "done", "start"}, NEW from \in Key, NEW to \in Key,
         Begin(r, op, at, from, to)
  PROVE  Moved(r)
<1> DEFINE seen == [k \in Key |->
                     IF k \notin from..to THEN {}
                     ELSE {last[k]} \cup (IF put.key = k THEN {put.view} \ {NoView}
                                                         ELSE {})]
           c == [IdleCall EXCEPT !.at = at, !.op = op, !.from = from, !.to = to,
                                 !.allowed = seen]
<1>1. seen \in [Key -> SUBSET (View \cup {NoView})]
  BY DEF TypeOK, Writing
<1>2. call' = [call EXCEPT ![r] = c]
  BY DEF Begin
<1> HIDE DEF seen
<1>3. c \in Reading /\ c.at = at /\ c.from = from /\ c.node = head
  BY <1>1, IdleCallType DEF Reading, IdleCall
<1>4. Placed(c)
  BY <1>3 DEF Placed
<1> QED BY <1>2, <1>3, <1>4 DEF Moved

LEMMA GetMoved ==
  ASSUME TypeOK, NEW r \in Reader, NEW k \in Key, BeginGet(r, k)
  PROVE  Moved(r)
BY BeginMoved DEF BeginGet

LEMMA ScanMoved ==
  ASSUME TypeOK, NEW r \in Reader, BeginScan(r)
  PROVE  Moved(r)
<1>1. PICK range \in Ranges : Begin(r, "scan", "start", range[1], range[2])
  BY DEF BeginScan
<1>2. range[1] \in Key /\ range[2] \in Key
  BY MemTableAssumption
<1> QED BY <1>1, <1>2, BeginMoved

LEMMA CheckRangeMoved ==
  ASSUME TypeOK, ListInv, NEW r \in Reader, CheckRange(r)
  PROVE  Moved(r)
<1> DEFINE c == call[r]
<1>1. c \in Reading /\ Placed(c) /\ c.at \in {"min", "max"} /\ c.from \in Key
  BY PlacedCall DEF CheckRange, TypeOK
<1>2. PICK at \in {"done", "max", "start"}, unsure \in BOOLEAN :
        call' = [call EXCEPT ![r] = [c EXCEPT !.at = at, !.unsure = unsure]]
  <2>1. PICK inside :
          call' = [call EXCEPT
             ![r].at = IF ~inside THEN "done"
                       ELSE IF c.at = "min" THEN "max" ELSE "start",
             ![r].unsure = @ \/ put.at = c.at]
    BY DEF CheckRange
  <2> DEFINE at == IF ~inside THEN "done"
                   ELSE IF c.at = "min" THEN "max" ELSE "start"
             unsure == c.unsure \/ put.at = c.at
  <2>2. call' = [call EXCEPT ![r] = [c EXCEPT !.at = at, !.unsure = unsure]]
    BY <2>1 DEF TypeOK
  <2>3. at \in {"done", "max", "start"} /\ unsure \in BOOLEAN
    BY <1>1 DEF Reading
  <2> HIDE DEF at, unsure
  <2> QED BY <2>2, <2>3
<1> DEFINE d == [c EXCEPT !.at = at, !.unsure = unsure]
<1>3. d \in Reading /\ d.at = at /\ d.from = c.from /\ d.node = c.node
  BY <1>1 DEF Reading
<1>4. Placed(d)
  BY <1>1, <1>3 DEF Placed
<1> QED BY <1>1, <1>2, <1>3, <1>4 DEF Moved

LEMMA StartSearchMoved ==
  ASSUME TypeOK, ListInv, NEW r \in Reader, StartSearch(r)
  PROVE  Moved(r)
<1> DEFINE c == call[r]
<1>1. c \in Reading /\ Placed(c) /\ c.at = "start" /\ c.from \in Key /\ c.node = head
  BY PlacedCall DEF StartSearch, TypeOK, Placed
<1>2. PICK h \in 1..maxHeight :
        call' = [call EXCEPT ![r].at = "find", ![r].level = h - 1]
  BY DEF StartSearch
<1> DEFINE d == [c EXCEPT !.at = "find", !.level = h - 1]
<1>3. h - 1 \in Heights
  BY MemTableAssumption DEF TypeOK, Heights
<1>4. d \in Reading /\ d.at = "find" /\ d.from = c.from /\ d.node = head
  BY <1>1, <1>3 DEF Reading
<1>5. Placed(d)
  BY <1>4 DEF Placed, Reached
<1>6. call' = [call EXCEPT ![r] = d]
  BY <1>2 DEF TypeOK
<1> QED BY <1>1, <1>4, <1>5, <1>6 DEF Moved

LEMMA SearchMoved ==
  ASSUME TypeOK, ListInv, NEW r \in Reader, Search(r)
  PROVE  Moved(r)
BY SearchPlaced DEF Moved, TypeOK, Search

LEMMA NextNodeMoved ==
  ASSUME TypeOK, ListInv, NEW r \in Reader, NextNode(r)
  PROVE  Moved(r)
<1> DEFINE c == call[r]
           n == next[c.node][0]
<1>1. c \in Reading /\ Placed(c) /\ c.at = "next" /\ c.from \in Key
  BY PlacedCall DEF NextNode, TypeOK
<1>2. n \in Linked(0) \cup {Nil}
  BY <1>1, HeightsAre, NextIsLinked DEF Placed, ListInv
<1>3. /\ Placed(Visit(c, n)) /\ Visit(c, n) \in Reading
      /\ Visit(c, n).from = c.from
  BY <1>1, <1>2, VisitPlaced
<1>4. call' = [call EXCEPT ![r] = Visit(c, n)]
  BY DEF NextNode
<1> HIDE DEF c, n
<1> QED BY <1>1, <1>3, <1>4 DEF Moved

LEMMA ReturnMoved ==
  ASSUME TypeOK, NEW r \in Reader, Return(r)
  PROVE  Moved(r)
BY IdleCallType DEF Return, Moved

LEMMA CopyWordMoved ==
  ASSUME TypeOK, ListInv, NEW r \in Reader, NEW w \in Words, CopyWord(r, w)
  PROVE  Moved(r)
<1> DEFINE c == call[r]
           v == [c.view EXCEPT ![w] = view[c.node][w]]
           t == c.torn \/ (put.at = "second" /\ put.key = c.node)
<1>1. /\ c \in Reading /\ Placed(c) /\ c.at = "copy" /\ c.from \in Key
      /\ c.node \in Linked(0) /\ c.node \in Key
  BY PlacedCall DEF CopyWord, TypeOK, Placed, Linked
<1>2. t \in BOOLEAN
  BY <1>1 DEF Reading
<1>3. v \in View
  <2>1. c.view \in View /\ view[c.node] \in View
    BY <1>1 DEF Reading, TypeOK
  <2>2. CASE w = "ptr"
    BY <2>1, <2>2 DEF View
  <2>3. CASE w = "len"
    BY <2>1, <2>3 DEF View
  <2> QED BY <2>2, <2>3 DEF Words
<1>4. call' = [call EXCEPT ![r] =
           IF c.copied = {}
           THEN [c EXCEPT !.copied = {w}, !.view = v, !.torn = t]
           ELSE [c EXCEPT !.copied = {}, !.view = EmptyView,
                          !.at = IF c.op = "get" THEN "done" ELSE "next",
                          !.rows = Append(@, [key |-> c.node, view |-> v,
                                              torn |-> t])]]
  BY DEF CopyWord
<1> HIDE DEF v, t
<1>5. CASE c.copied = {}
  <2> DEFINE d == [c EXCEPT !.copied = {w}, !.view = v, !.torn = t]
  <2>1. d \in Reading /\ d.at = "copy" /\ d.node = c.node /\ d.from = c.from
    BY <1>1, <1>2, <1>3 DEF Reading
  <2>2. Placed(d)
    BY <1>1, <2>1 DEF Placed
  <2>3. call' = [call EXCEPT ![r] = d]
    BY <1>4, <1>5
  <2> QED BY <1>1, <2>1, <2>2, <2>3 DEF Moved
<1>6. CASE c.copied # {}
  <2> DEFINE row == [key |-> c.node, view |-> v, torn |-> t]
             d == [c EXCEPT !.copied = {}, !.view = EmptyView,
                            !.at = IF c.op = "get" THEN "done" ELSE "next",
                            !.rows = Append(@, row)]
  <2>1. Append(c.rows, row) \in Seq([key : Key, view : View, torn : BOOLEAN])
    BY <1>1, <1>2, <1>3 DEF Reading
  <2>2. EmptyView \in View
    BY DEF EmptyView, View
  <2>3. call' = [call EXCEPT ![r] = d]
    BY <1>4, <1>6
  <2> HIDE DEF row
  <2>4. d \in Reading /\ d.at \in {"done", "next"} /\ d.node = c.node /\ d.from = c.from
    BY <1>1, <2>1, <2>2 DEF Reading
  <2>5. Placed(d)
    BY <1>1, <2>4 DEF Placed
  <2> QED BY <1>1, <2>3, <2>4, <2>5 DEF Moved
<1> QED BY <1>5, <1>6

LEMMA ReadMoved ==
  ASSUME TypeOK, ListInv, NEW r \in Reader, Read(r)
  PROVE  Moved(r) /\ UNCHANGED readUnchanged
<1>1. Moved(r)
  BY GetMoved, ScanMoved, CheckRangeMoved, StartSearchMoved, SearchMoved,
     CopyWordMoved, NextNodeMoved, ReturnMoved DEF Read, ReadOn
<1>2. UNCHANGED readUnchanged
  BY DEF Read, ReadOn, BeginGet, BeginScan, CheckRange, StartSearch, Search,
         CopyWord, NextNode, Return
<1> QED BY <1>1, <1>2


-----------------------------------------------------------------------------
(* Type correctness. *)

LEMMA TypeRead ==
  ASSUME TypeOK, NEW r \in Reader, Moved(r), UNCHANGED readUnchanged
  PROVE  TypeOK'
<1>1. PICK c \in Reading : /\ call' = [call EXCEPT ![r] = c]
                           /\ c.at # "idle" => c.from \in Key
  BY DEF Moved
<1>2. /\ call' \in [Reader -> Reading]
      /\ \A q \in Reader : call'[q].at # "idle" => call'[q].from \in Key
  BY <1>1 DEF TypeOK
<1> QED BY <1>2 DEF TypeOK, readUnchanged, listVars, rangeVars, histVars

LEMMA WitnessType ==
  ASSUME TypeOK, NEW k \in Key, NEW v \in View, Witness(k, v)
  PROVE  /\ call' \in [Reader -> Reading]
         /\ \A r \in Reader : call'[r].at # "idle" => call'[r].from \in Key
<1>1. ASSUME NEW r \in Reader
      PROVE  call'[r] \in Reading /\ (call'[r].at # "idle" => call'[r].from \in Key)
  <2>1. call[r] \in Reading /\ (call[r].at # "idle" => call[r].from \in Key)
    BY DEF TypeOK
  <2>2. \/ call'[r] = [call[r] EXCEPT !.allowed[k] = @ \cup {v}]
        \/ call'[r] = call[r]
    BY DEF Witness
  <2>3. [call[r].allowed EXCEPT ![k] = @ \cup {v}]
          \in [Key -> SUBSET (View \cup {NoView})]
    BY <2>1 DEF Reading
  <2>4. [call[r] EXCEPT !.allowed[k] = @ \cup {v}]
          = [call[r] EXCEPT !.allowed = [call[r].allowed EXCEPT ![k] = @ \cup {v}]]
    BY <2>1 DEF Reading
  <2> QED BY <2>1, <2>2, <2>3, <2>4 DEF Reading
<1>2. call' = [r \in Reader |-> call'[r]]
  BY DEF Witness
<1> QED BY <1>1, <1>2

\* The put of a writer that is idle.
LEMMA IdlePutType == IdlePut \in Writing /\ IdlePut.at = "idle"
<1>1. [i \in Heights |-> Uninit] \in [Heights -> Node \cup {Uninit}] /\ 0 \in Heights
  BY HeightsAre
<1> QED BY <1>1 DEF IdlePut, Writing, Node

LEMMA TypePut ==
  ASSUME TypeOK, NEW k \in Key, NEW size \in ValueSizes[k], Put(k, size)
  PROVE  TypeOK'
<1>1. size \in Nat /\ maxHeight - 1 \in Heights
  BY MemTableAssumption DEF TypeOK, Heights
<1>2. put' = [IdlePut EXCEPT !.at = "find", !.key = k, !.size = size,
                             !.level = maxHeight - 1]
  BY DEF Put
<1>3. put' \in Writing /\ put'.key \in Key
  BY <1>1, <1>2, IdlePutType DEF Writing
<1> QED BY <1>3 DEF TypeOK, Put, listVars, rangeVars

LEMMA TypePutFind ==
  ASSUME TypeOK, ListInv, PutFind
  PROVE  TypeOK'
<1> DEFINE n == next[put.node][put.level]
<1>1. /\ put \in Writing /\ put.key \in Key /\ put.level \in Heights
      /\ put.level \in Nat /\ put.node \in Node
  BY HeightsAre DEF PutFind, TypeOK, Writing
<1>2. n \in Node \cup {Nil}
  <2>1. Reached(put.node, put.level, put.key)
    BY DEF ListInv, WriterInv, PutFind
  <2>2. n \in Linked(put.level) \cup {Nil}
    BY <1>1, <2>1, NextIsLinked DEF ListInv, Reached
  <2> QED BY <2>2 DEF Linked, Node
<1> HIDE DEF n
<1>3. CASE KeyIsAfterNode(put.key, n)
  <2>1. put' = [put EXCEPT !.node = n] /\ n \in Node
    BY <1>2, <1>3 DEF PutFind, n, KeyIsAfterNode
  <2>2. put' \in Writing /\ put'.key \in Key
    BY <1>1, <2>1 DEF Writing
  <2> QED BY <2>2 DEF TypeOK, PutFind, listVars, rangeVars, histVars
<1>4. CASE ~KeyIsAfterNode(put.key, n)
  <2> DEFINE level == IF put.level > 0 THEN put.level - 1 ELSE 0
             at    == IF put.level > 0 THEN "find" ELSE "insert"
             prev  == [put.prev EXCEPT ![put.level] = put.node]
  <2>1. level \in Heights /\ at \in {"find", "insert"}
    BY <1>1, HeightsAre, MemTableAssumption DEF Heights
  <2>2. prev \in [Heights -> Node \cup {Uninit}]
    BY <1>1 DEF Writing
  <2>3. put' = [put EXCEPT !.prev = prev, !.level = level, !.at = at]
    BY <1>1, <1>4 DEF PutFind, n, Writing
  <2> HIDE DEF level, at, prev
  <2>4. put' \in Writing /\ put'.key \in Key
    BY <1>1, <2>1, <2>2, <2>3 DEF Writing
  <2> QED BY <2>4 DEF TypeOK, PutFind, listVars, rangeVars, histVars
<1> QED BY <1>3, <1>4

LEMMA TypeCopyValue ==
  ASSUME TypeOK, ArenaIsSound, CopyValue
  PROVE  TypeOK'
<1>1. arena' \in Arenas /\ put'.view \in View
  BY CopyValueSound
<1>2. put \in Writing /\ put.key \in Key
  BY DEF CopyValue, TypeOK
<1>3. PICK v : put' = [put EXCEPT !.at = "first", !.view = v] /\ Witness(put.key, v)
  BY DEF CopyValue
<1>4. v \in View
  BY <1>1, <1>2, <1>3 DEF Writing
<1>5. put' \in Writing /\ put'.key \in Key
  BY <1>2, <1>3, <1>4 DEF Writing
<1>6. /\ call' \in [Reader -> Reading]
      /\ \A r \in Reader : call'[r].at # "idle" => call'[r].from \in Key
  BY <1>2, <1>3, <1>4, WitnessType
<1> QED BY <1>1, <1>5, <1>6 DEF TypeOK, CopyValue, listVars, rangeVars, histVars

LEMMA TypePlaceNode ==
  ASSUME TypeOK, ArenaIsSound, ListInv, PlaceNode
  PROVE  TypeOK'
<1>1. PICK k \in Key : k = put.key
  BY DEF PlaceNode, TypeOK
<1>2. PICK h \in RandomHeight :
        /\ arena' = NewNode(arena, KeySize[k], put.size, h)
        /\ height' = [height EXCEPT ![k] = h]
        /\ maxHeight' = IF h > maxHeight THEN h ELSE maxHeight
        /\ view' = [view EXCEPT ![k] = NewView(arena, KeySize[k], put.size)]
        /\ next' = [next EXCEPT ![k] =
                      [i \in Heights |-> IF i = 0 THEN Nil ELSE Uninit]]
        /\ put' = [put EXCEPT !.at = "point", !.level = 0, !.prev = Prev(h),
                      !.view = NewView(arena, KeySize[k], put.size)]
        /\ Witness(k, NewView(arena, KeySize[k], put.size))
  BY <1>1 DEF PlaceNode
<1> DEFINE v == NewView(arena, KeySize[k], put.size)
<1>3. arena' \in Arenas /\ v \in View
  BY <1>1, <1>2, PlaceNodeSound
<1> HIDE DEF v
<1>4. /\ height' \in [Key -> 0..kMaxHeight] /\ maxHeight' \in 1..kMaxHeight
  BY <1>2, MemTableAssumption DEF TypeOK, RandomHeight
<1>5. /\ view' \in [Key -> View]
      /\ next' \in [Node -> [Heights -> Link]]
  BY <1>2, <1>3 DEF TypeOK, Link, Node, v
<1>6. Prev(h) \in [Heights -> Node \cup {Uninit}] /\ 0 \in Heights
  BY HeightsAre DEF Prev, TypeOK, Writing, Node
<1>7. put' \in Writing /\ put'.key \in Key
  BY <1>1, <1>2, <1>3, <1>6 DEF TypeOK, Writing, v
<1>8. /\ call' \in [Reader -> Reading]
      /\ \A r \in Reader : call'[r].at # "idle" => call'[r].from \in Key
  BY <1>2, <1>3, WitnessType DEF v
<1> QED BY <1>3, <1>4, <1>5, <1>7, <1>8 DEF TypeOK, PlaceNode, rangeVars, histVars

LEMMA TypeSetNext ==
  ASSUME TypeOK, ListInv, SetNext
  PROVE  TypeOK'
<1>1. put \in Writing /\ put.key \in Key /\ put.level \in Heights /\ put.key \in Node
  BY DEF SetNext, TypeOK, Writing, Node
<1>2. put.level < height[put.key] /\ put.prev[put.level] \in Node
  BY <1>1, HeightsAre DEF SetNext, ListInv, WriterInv, PrevIsFound, Reached, Linked, Node
<1>3. next' \in [Node -> [Heights -> Link]]
  <2>1. ASSUME NEW n \in Node, NEW b \in Link, next' = [next EXCEPT ![n][put.level] = b]
        PROVE  next' \in [Node -> [Heights -> Link]]
    BY <1>1, <2>1 DEF TypeOK
  <2>2. next[put.prev[put.level]][put.level] \in Link /\ put.key \in Link
    BY <1>1, <1>2 DEF TypeOK, Link
  <2>3. \/ next' = [next EXCEPT ![put.key][put.level] =
                      next[put.prev[put.level]][put.level]]
        \/ next' = [next EXCEPT ![put.prev[put.level]][put.level] = put.key]
    BY DEF SetNext
  <2> QED BY <1>1, <1>2, <2>1, <2>2, <2>3
<1>4. put' \in Writing /\ put'.key \in Key
  <2>1. CASE put' = [put EXCEPT !.at = "link"] \/ put' = [put EXCEPT !.at = "range"]
    BY <1>1, <2>1 DEF Writing
  <2>2. CASE /\ put.level + 1 < height[put.key]
             /\ put' = [put EXCEPT !.at = "point", !.level = @ + 1]
    <3>1. put.level + 1 \in Heights
      BY <1>1, <2>2, MemTableAssumption DEF TypeOK, Heights
    <3> QED BY <1>1, <2>2, <3>1 DEF Writing
  <2> QED BY <2>1, <2>2 DEF SetNext
<1> QED BY <1>3, <1>4 DEF TypeOK, SetNext, rangeVars, histVars

LEMMA TypeStoreWord ==
  ASSUME TypeOK, ListInv, NEW w \in Words, StoreWord(w)
  PROVE  TypeOK'
<1>1. put \in Writing /\ put.key \in Key /\ put.view \in View
  BY DEF StoreWord, TypeOK, ListInv, WriterInv
<1>2. put' \in Writing /\ put'.key \in Key
  BY <1>1 DEF StoreWord, Writing
<1>3. view' \in [Key -> View]
  <2>1. view[put.key] \in View /\ view' = [view EXCEPT ![put.key][w] = put.view[w]]
    BY <1>1 DEF TypeOK, StoreWord, Stored
  <2>2. [view[put.key] EXCEPT ![w] = put.view[w]] \in View
    <3>1. CASE w = "ptr"
      BY <1>1, <2>1, <3>1 DEF View
    <3>2. CASE w = "len"
      BY <1>1, <2>1, <3>2 DEF View
    <3> QED BY <3>1, <3>2 DEF Words
  <2> QED BY <1>1, <2>1, <2>2 DEF TypeOK
<1>4. /\ call' \in [Reader -> Reading]
      /\ \A r \in Reader : call'[r].at # "idle" => call'[r].from \in Key
  <2>1. ASSUME NEW r \in Reader
        PROVE  call'[r] \in Reading /\ (call'[r].at # "idle" => call'[r].from \in Key)
    <3>1. call[r] \in Reading /\ (call[r].at # "idle" => call[r].from \in Key)
      BY DEF TypeOK
    <3>2. call'[r] = [call[r] EXCEPT !.torn = TRUE] \/ call'[r] = call[r]
      BY DEF StoreWord
    <3> QED BY <3>1, <3>2 DEF Reading
  <2>2. call' = [r \in Reader |-> call'[r]]
    BY DEF StoreWord
  <2> QED BY <2>1, <2>2
<1> QED BY <1>2, <1>3, <1>4 DEF TypeOK, StoreWord, rangeVars, histVars

LEMMA TypeRange ==
  ASSUME TypeOK, UpdateRange \/ AssignMin \/ AssignMax
  PROVE  TypeOK'
<1>1. put \in Writing /\ put.key \in Key /\ put.view \in View \cup {NoView}
  BY DEF UpdateRange, AssignMin, AssignMax, TypeOK, Writing
<1>2. \/ put' = IdlePut
      \/ put' = [put EXCEPT !.at = "min"] \/ put' = [put EXCEPT !.at = "max"]
  BY DEF UpdateRange, AssignMin, AssignMax, FinishPut
<1>3. put' \in Writing /\ (put'.at # "idle" => put'.key \in Key)
  BY <1>1, <1>2, IdlePutType DEF Writing
<1>4. last' \in [Key -> View \cup {NoView}]
  BY <1>1 DEF UpdateRange, AssignMin, AssignMax, FinishPut, TypeOK
<1>5. /\ hasRange' \in BOOLEAN /\ minKey' \in Key \cup {0} /\ maxKey' \in Key \cup {0}
  BY <1>1 DEF UpdateRange, AssignMin, AssignMax, TypeOK, rangeVars
<1> QED BY <1>3, <1>4, <1>5
        DEF TypeOK, UpdateRange, AssignMin, AssignMax, listVars


-----------------------------------------------------------------------------
(* The arena and the invariant together. *)

LEMMA ArenaStep ==
  ASSUME TypeOK, ArenaIsSound, [Next]_vars
  PROVE  ArenaIsSound'
<1>1. CASE CopyValue
  BY <1>1, CopyValueSound DEF ArenaIsSound
<1>2. CASE PlaceNode
  <2>1. put.key \in Key
    BY <1>2 DEF PlaceNode, TypeOK
  <2>2. PICK h \in RandomHeight : arena' = NewNode(arena, KeySize[put.key], put.size, h)
    BY <1>2 DEF PlaceNode
  <2> QED BY <2>1, <2>2, PlaceNodeSound DEF ArenaIsSound
<1>3. CASE UNCHANGED arena
  BY <1>3 DEF ArenaIsSound
<1>4. ASSUME NEW r \in Reader, Read(r) PROVE UNCHANGED arena
  BY <1>4 DEF Read, ReadOn, BeginGet, BeginScan, CheckRange, StartSearch, Search,
              CopyWord, NextNode, Return, readUnchanged
<1>5. Writer => UNCHANGED arena \/ CopyValue \/ PlaceNode
  BY DEF Writer, Put, PutFind, SetNext, StoreWord, UpdateRange, AssignMin, AssignMax
<1> QED BY <1>1, <1>2, <1>3, <1>4, <1>5 DEF Next, vars

\* Everything the proofs keep.
IInv == TypeOK /\ ArenaIsSound /\ ListInv

LEMMA InitIInv == Init => IInv
<1> SUFFICES ASSUME Init PROVE IInv
  OBVIOUS
<1>1. arena \in Arenas /\ ArenaIsSound
  <2>1. kMaxHeight \in 1..kMaxHeight
    BY MemTableAssumption
  <2> QED BY <2>1, NewArenaSound, NewNodeSound DEF Init, ArenaIsSound
<1>2. /\ next = [n \in Node |-> [i \in Heights |-> IF n = head THEN Nil ELSE Uninit]]
      /\ height = [k \in Key |-> 0] /\ view = [k \in Key |-> EmptyView]
      /\ maxHeight = 1 /\ put = IdlePut /\ call = [r \in Reader |-> IdleCall]
      /\ last = [k \in Key |-> NoView] /\ puts = 0
      /\ hasRange = FALSE /\ minKey = 0 /\ maxKey = 0
  BY DEF Init
<1>3. TypeOK
  <2>1. next \in [Node -> [Heights -> Link]]
    BY <1>2 DEF Link
  <2>2. EmptyView \in View
    BY DEF EmptyView, View
  <2>3. maxHeight \in 1..kMaxHeight /\ 0 \in 0..kMaxHeight
    BY <1>2, MemTableAssumption
  <2> QED BY <1>1, <1>2, <2>1, <2>2, <2>3, IdlePutType, IdleCallType DEF TypeOK
<1>4. \A i : Linked(i) \subseteq Key /\ \A k \in Linked(i) : i < 0
  BY <1>2 DEF Linked
<1>5. \A i \in Heights : Linked(i) = {}
  BY <1>4, HeightsAre
<1>6. LevelsAreSorted
  BY <1>2, <1>5 DEF LevelsAreSorted, IsNext, Node
<1>7. HeightsFit
  BY <1>2 DEF HeightsFit
<1>8. WriterInv
  BY <1>2, IdlePutType DEF WriterInv
<1>9. ReaderInv
  BY <1>2, IdleCallType DEF ReaderInv
<1> QED BY <1>1, <1>3, <1>6, <1>7, <1>8, <1>9 DEF IInv, ListInv

LEMMA StepIInv == IInv /\ [Next]_vars => IInv'
<1> SUFFICES ASSUME TypeOK, ArenaIsSound, ListInv, [Next]_vars
             PROVE  TypeOK' /\ ListInv'
  BY ArenaStep DEF IInv
<1>1. ASSUME NEW k \in Key, NEW size \in ValueSizes[k], Put(k, size)
      PROVE  TypeOK' /\ ListInv'
  BY <1>1, TypePut, ListPut
<1>2. CASE PutFind
  BY <1>2, TypePutFind, ListPutFind
<1>3. CASE CopyValue
  BY <1>3, TypeCopyValue, ListCopyValue
<1>4. CASE PlaceNode
  BY <1>4, TypePlaceNode, ListPlaceNode
<1>5. CASE SetNext
  <2>1. put.at = "point" \/ put.at = "link"
    BY <1>5 DEF SetNext
  <2> QED BY <1>5, <2>1, TypeSetNext, ListPoint, ListLink
<1>6. ASSUME NEW w \in Words, StoreWord(w)
      PROVE  TypeOK' /\ ListInv'
  BY <1>6, TypeStoreWord, ListStoreWord
<1>7. CASE UpdateRange \/ AssignMin \/ AssignMax
  BY <1>7, TypeRange, ListRange
<1>8. ASSUME NEW r \in Reader, Read(r)
      PROVE  TypeOK' /\ ListInv'
  <2>1. Moved(r) /\ UNCHANGED readUnchanged
    BY <1>8, ReadMoved
  <2>2. TypeOK'
    BY <2>1, TypeRead
  <2>3. ListInv'
    BY <2>1, ListCall DEF Moved
  <2> QED BY <2>2, <2>3
<1>9. CASE UNCHANGED vars
  <2>1. TypeOK'
    BY <1>9 DEF TypeOK, vars, listVars, rangeVars, histVars
  <2>2. LevelsAreSorted' /\ HeightsFit' /\ WriterInv' /\ ReaderInv'
    <3>1. UNCHANGED <<next, height, maxHeight, put, call>>
      BY <1>9 DEF vars, listVars
    <3> QED BY <3>1 DEF ListInv, LevelsAreSorted, HeightsFit, WriterInv, ReaderInv,
                        PrevIsFound, Reached, IsNext, Linked
  <2> QED BY <2>1, <2>2 DEF ListInv
<1> QED BY <1>1, <1>2, <1>3, <1>4, <1>5, <1>6, <1>7, <1>8, <1>9
        DEF Next, Writer

LEMMA AlwaysIInv == Spec => []IInv
BY InitIInv, StepIInv, PTL DEF Spec

-----------------------------------------------------------------------------
(* The theorems. *)

\* Every variable of the memtable stays in its range: the arena's offsets and
\* counts never wrap below zero, and the writer only ever stores through
\* pointers it has set (src/arena.h, src/skiplist.h).
THEOREM MemTableTypeCorrect == Spec => []TypeOK
<1>1. IInv => TypeOK
  BY DEF IInv
<1> QED BY <1>1, AlwaysIInv, PTL

\* The pieces that Allocate and AllocateAligned hand out never overlap, stay
\* inside their block, and are aligned when they were asked to be.
THEOREM ArenaAlwaysSound == Spec => []ArenaIsSound
<1>1. IInv => ArenaIsSound
  BY DEF IInv
<1> QED BY <1>1, AlwaysIInv, PTL

\* At every store of an Insert, each level of the skip list is the sorted
\* list of the nodes linked in it: a reader that walks it while the writer
\* links misses nobody and meets the keys in order.
THEOREM LevelsAlwaysSorted == Spec => []LevelsAreSorted
<1>1. IInv => LevelsAreSorted
  BY DEF IInv, ListInv
<1> QED BY <1>1, AlwaysIInv, PTL

\* A lock-free reader never loads a next pointer that was not set, whatever
\* level it started from and wherever the writer stands.
THEOREM NeverWildPointer == Spec => []NoWildPointer
<1>1. IInv => NoWildPointer
  <2> SUFFICES ASSUME IInv, NEW r \in Reader
               PROVE  /\ call[r].at = "find" => next[call[r].node][call[r].level] # Uninit
                      /\ call[r].at \in {"copy", "next"} => next[call[r].node][0] # Uninit
    BY DEF NoWildPointer
  <2>1. call[r].level \in Heights /\ 0 \in Heights
    BY HeightsAre DEF IInv, TypeOK, Reading
  <2>2. /\ call[r].at = "find" => call[r].node \in {head} \cup Linked(call[r].level)
        /\ call[r].at \in {"copy", "next"} => call[r].node \in Linked(0)
    BY DEF IInv, ListInv, ReaderInv, Reached
  <2>3. \A i \in Heights : \A n \in {head} \cup Linked(i) : next[n][i] # Uninit
    BY NextIsLinked DEF IInv, ListInv
  <2> QED BY <2>1, <2>2, <2>3
<1> QED BY <1>1, AlwaysIInv, PTL

=============================================================================
