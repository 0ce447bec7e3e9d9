------------------------- MODULE MemTableReadProofs -------------------------
(***************************************************************************)
(* Reads without a lock are regular, and a flush writes what was put:      *)
(* theorems about the gets and scans of MemTable and about the walks over  *)
(* its list that the writer makes between puts.                            *)
(***************************************************************************)
EXTENDS MemTableProofs, LeastNumber

-----------------------------------------------------------------------------
(* The inductive invariant. *)

Assigned == {"range", "min", "max"}

\* A key that has been put is in the list, and its node holds the last value
\* but for the words that the put under way has stored.
DataInv ==
  /\ put.at = "idle" => put = IdlePut
  /\ put.at \in {"find", "insert"} => put.view = NoView
  /\ put.at \in {"find", "insert", "first"} => put.word = "none"
  /\ put.at = "second" => put.word \in Words
  /\ put.at \in {"first", "second"} \cup Assigned => put.key \in Linked(0)
  /\ \A k \in Key : last[k] # NoView => k \in Linked(0)
  /\ \A k \in Linked(0) :
       put.key # k \/ put.at \in {"find", "insert", "first"} => view[k] = last[k]
  /\ put.at = "second" =>
       /\ last[put.key] \in View
       /\ \A w \in Words :
            view[put.key][w] = IF w = put.word THEN put.view[w] ELSE last[put.key][w]
  /\ put.at \in {"point", "link"} \cup Assigned => view[put.key] = put.view

\* The range covers every key that has been put.
RangeInv ==
  /\ \A k \in Key : last[k] # NoView => hasRange /\ minKey <= k /\ k <= maxKey
  /\ hasRange => minKey <= maxKey
  /\ put.at = "min" => ~hasRange \/ put.key < minKey
  /\ put.at = "max" => IF hasRange THEN put.key > maxKey ELSE minKey = put.key

\* The keys that a call is about.
Asked(c) == Key \cap (c.from..c.to)

\* How a call gets on.
Shape(c) ==
  /\ c.from \in Key /\ c.to \in Key /\ c.op \in {"get", "scan"}
  /\ c.op = "get" => c.from = c.to /\ c.at # "next" /\ Len(c.rows) <= 1
  /\ c.op = "scan" => c.unsure = FALSE /\ c.at \notin {"min", "max"}
  /\ c.at \in {"copy", "next"} => c.node \in Asked(c)
  /\ c.at \in {"min", "max", "start", "find"} => c.rows = <<>>
  /\ c.at = "copy" /\ c.op = "get" => c.rows = <<>>
  /\ c.at # "copy" => c.copied = {}

\* The call is done with key k.
Passed(c, k) ==
  \/ c.at = "done"
  \/ c.at = "copy" /\ k < c.node
  \/ c.at = "next" /\ k <= c.node

\* The call need not find key k, or has it.
Answered(c, k) ==
  NoView \in c.allowed[k] \/ c.unsure \/ \E i \in DOMAIN c.rows : c.rows[i].key = k

\* The rows so far.
Rows(c) ==
  /\ \A i \in DOMAIN c.rows :
       /\ c.rows[i].key \in Asked(c)
       /\ RowIsRegular(c, c.rows[i])
       /\ c.at = "copy" => c.rows[i].key < c.node
       /\ c.at = "next" => c.rows[i].key <= c.node
  /\ \A i, j \in DOMAIN c.rows : i < j => c.rows[i].key < c.rows[j].key
  /\ \A k \in Asked(c) : Passed(c, k) => Answered(c, k)

\* Whatever is current may be returned.
Seen(c) ==
  \A k \in Asked(c) :
    /\ last[k] \in c.allowed[k]
    /\ put.key = k /\ put.view # NoView => put.view \in c.allowed[k]

\* The word that has been copied, and that the view is still the same unless
\* the read is torn.
Half(c) ==
  c.copied # {} =>
    \E w \in Words :
      /\ c.copied = {w}
      /\ \E v \in c.allowed[c.node] \ {NoView} : c.view[w] = v[w]
      /\ c.torn = FALSE => /\ c.view[w] = view[c.node][w]
                           /\ ~(put.at = "second" /\ put.key = c.node)

CallSound(c) == c.at # "idle" => Shape(c) /\ Rows(c) /\ Seen(c) /\ Half(c)

CallsInv == \A r \in Reader : CallSound(call[r])

-----------------------------------------------------------------------------
(* The writer and the data. *)

LEMMA KeysAre == \A k \in Key : k \in Nat /\ k # 0 /\ k # head /\ k # Nil
BY MemTableAssumption

\* The fields of a put that steps from one place to another.
LEMMA PutFields ==
  ASSUME TypeOK, put.at # "idle"
  PROVE  /\ put.key \in Key /\ put.key \in Nat /\ put.key # 0
         /\ put \in Writing
BY KeysAre DEF TypeOK

LEMMA DataPut ==
  ASSUME TypeOK, DataInv, RangeInv, NEW k \in Key, NEW size \in ValueSizes[k],
         Put(k, size)
  PROVE  DataInv' /\ RangeInv'
<1>1. /\ put.at = "idle" /\ put'.at = "find" /\ put'.view = NoView /\ put'.word = "none"
      /\ UNCHANGED <<next, height, view, maxHeight, hasRange, minKey, maxKey, last>>
  BY DEF Put, IdlePut, listVars, rangeVars
<1>2. put.key = 0
  BY <1>1 DEF DataInv, IdlePut
<1>3. Linked(0)' = Linked(0) /\ Linked(0) \subseteq Key
  BY <1>1 DEF Linked
<1>4. DataInv'
  BY <1>1, <1>2, <1>3, KeysAre DEF DataInv, Assigned
<1>5. RangeInv'
  BY <1>1 DEF RangeInv
<1> QED BY <1>4, <1>5

LEMMA DataPutFind ==
  ASSUME TypeOK, DataInv, RangeInv, PutFind
  PROVE  DataInv' /\ RangeInv'
<1>1. /\ put.at = "find" /\ put'.at \in {"find", "insert"} /\ put'.view = put.view
      /\ put'.key = put.key /\ put'.word = put.word
      /\ UNCHANGED <<next, height, view, maxHeight, hasRange, minKey, maxKey, last>>
  BY PutFields DEF PutFind, listVars, rangeVars, histVars, Writing
<1>2. Linked(0)' = Linked(0)
  BY <1>1 DEF Linked
<1>3. DataInv'
  BY <1>1, <1>2 DEF DataInv, Assigned
<1>4. RangeInv'
  BY <1>1 DEF RangeInv
<1> QED BY <1>3, <1>4

LEMMA DataCopyValue ==
  ASSUME TypeOK, ListInv, DataInv, RangeInv, CopyValue
  PROVE  DataInv' /\ RangeInv'
<1>1. /\ put.at = "insert" /\ put'.at = "first" /\ put'.key = put.key
      /\ put'.word = put.word
      /\ UNCHANGED <<next, height, view, maxHeight, hasRange, minKey, maxKey, last>>
  BY PutFields DEF CopyValue, listVars, rangeVars, histVars, Writing
<1>2. Linked(0)' = Linked(0)
  BY <1>1 DEF Linked
<1>3. put.key \in Linked(0)
  <2>1. put.node \in {head} \cup Linked(0)
    <3>1. PrevIsFound(0) /\ put.node = put.prev[0]
      BY <1>1, HeightsAre DEF ListInv, WriterInv, TypeOK
    <3> QED BY <3>1 DEF PrevIsFound, Reached
  <2>2. next[put.node][0] \in Linked(0) \cup {Nil}
    BY <2>1, HeightsAre, NextIsLinked DEF ListInv
  <2> QED BY <1>1, <2>2, PutFields, KeysAre DEF CopyValue, Found
<1>4. put.word = "none"
  BY <1>1 DEF DataInv
<1>5. DataInv'
  BY <1>1, <1>2, <1>3, <1>4 DEF DataInv, Assigned
<1>6. RangeInv'
  BY <1>1 DEF RangeInv
<1> QED BY <1>5, <1>6

LEMMA DataPlaceNode ==
  ASSUME TypeOK, ArenaIsSound, ListInv, DataInv, RangeInv, PlaceNode
  PROVE  /\ DataInv' /\ RangeInv'
         /\ put.key \notin Linked(0) /\ \A k \in Key : k # put.key => view'[k] = view[k]
<1>1. put.at = "insert" /\ put.key \in Key /\ height[put.key] = 0
  BY NotFoundIsNew DEF PlaceNode
<1>2. PICK k \in Key : k = put.key
  BY <1>1
<1>3. PICK h \in RandomHeight :
        /\ height' = [height EXCEPT ![k] = h]
        /\ view' = [view EXCEPT ![k] = NewView(arena, KeySize[k], put.size)]
        /\ put' = [put EXCEPT !.at = "point", !.level = 0, !.prev = Prev(h),
                      !.view = NewView(arena, KeySize[k], put.size)]
  BY <1>2 DEF PlaceNode
<1>4. /\ put'.at = "point" /\ put'.key = k /\ put'.level = 0
      /\ put'.view = NewView(arena, KeySize[k], put.size)
  BY <1>1, <1>2, <1>3 DEF TypeOK, Writing
<1>5. /\ view'[k] = put'.view
      /\ \A j \in Key : j # k => view'[j] = view[j] /\ height'[j] = height[j]
  BY <1>2, <1>3, <1>4 DEF TypeOK
<1>6. k \notin Linked(0) /\ k \notin Linked(0)'
  BY <1>1, <1>2, <1>4 DEF Linked
<1>7. Linked(0)' = Linked(0) /\ Linked(0) \subseteq Key
  <2>1. \A j \in Key : j # k => (j \in Linked(0)' <=> j \in Linked(0))
    BY <1>1, <1>4, <1>5 DEF Linked
  <2> QED BY <1>6, <2>1 DEF Linked
<1>8. last' = last
  BY DEF PlaceNode, histVars
<1>9. DataInv'
  <2>1. \A j \in Linked(0)' : view'[j] = last'[j]
    BY <1>1, <1>2, <1>5, <1>6, <1>7, <1>8 DEF DataInv
  <2> QED BY <1>4, <1>5, <1>7, <1>8, <2>1 DEF DataInv, Assigned
<1>10. RangeInv'
  BY <1>4, <1>8 DEF RangeInv, PlaceNode, rangeVars
<1> QED BY <1>2, <1>5, <1>6, <1>9, <1>10

LEMMA DataStoreWord ==
  ASSUME TypeOK, ListInv, DataInv, RangeInv, NEW w \in Words, StoreWord(w)
  PROVE  /\ DataInv' /\ RangeInv'
         /\ \A k \in Key : k # put.key => view'[k] = view[k]
<1>1. /\ put.at \in {"first", "second"} /\ w # put.word /\ put.key \in Linked(0)
      /\ put.key \in Key /\ put.view \in View /\ put \in Writing
  BY PutFields DEF StoreWord, DataInv, ListInv, WriterInv
<1>2. PICK k \in Key : k = put.key
  BY <1>1
<1>3. /\ put' = [put EXCEPT !.word = w,
                            !.at = IF put.at = "first" THEN "second" ELSE "range"]
      /\ view' = [view EXCEPT ![k][w] = put.view[w]]
      /\ UNCHANGED <<next, height, maxHeight, hasRange, minKey, maxKey, last>>
  BY <1>2 DEF StoreWord, Stored, rangeVars, histVars
<1>4. /\ put'.key = k /\ put'.view = put.view /\ put'.word = w
      /\ put'.at = IF put.at = "first" THEN "second" ELSE "range"
  BY <1>1, <1>2, <1>3 DEF Writing
<1>5. view[k] \in View /\ view'[k] \in View
  <2>1. view[k] \in View
    BY DEF TypeOK
  <2>2. view'[k] = [view[k] EXCEPT ![w] = put.view[w]]
    BY <1>2, <1>3 DEF TypeOK
  <2>3. CASE w = "ptr"
    BY <1>1, <2>1, <2>2, <2>3 DEF View
  <2>4. CASE w = "len"
    BY <1>1, <2>1, <2>2, <2>4 DEF View
  <2> QED BY <2>1, <2>3, <2>4 DEF Words
<1>6. /\ \A u \in Words : view'[k][u] = IF u = w THEN put.view[u] ELSE view[k][u]
      /\ \A j \in Key : j # k => view'[j] = view[j]
  <2>1. view'[k] = [view[k] EXCEPT ![w] = put.view[w]]
    BY <1>2, <1>3 DEF TypeOK
  <2>2. DOMAIN view[k] = Words
    BY <1>5 DEF View, Words
  <2> QED BY <1>3, <2>1, <2>2 DEF TypeOK
<1>7. Linked(0)' = Linked(0) /\ Linked(0) \subseteq Key
  BY <1>1, <1>3, <1>4 DEF Linked
<1>8. \A j \in Linked(0) : j # k => view'[j] = last[j]
  BY <1>2, <1>6, <1>7 DEF DataInv
<1>9. CASE put.at = "first"
  <2>1. view[k] = last[k]
    BY <1>1, <1>2, <1>9 DEF DataInv
  <2> QED BY <1>1, <1>2, <1>3, <1>4, <1>5, <1>6, <1>7, <1>8, <1>9, <2>1
          DEF DataInv, RangeInv, Assigned
<1>10. CASE put.at = "second"
  <2>1. put.word \in Words
    BY <1>10 DEF DataInv
  <2>2. \A u \in Words : view'[k][u] = put.view[u]
    BY <1>1, <1>2, <1>6, <1>10, <2>1 DEF DataInv, Words
  <2>3. view'[k] = put.view
    BY <1>1, <1>5, <2>2 DEF View, Words
  <2> QED BY <1>1, <1>2, <1>3, <1>4, <1>6, <1>7, <1>8, <1>10, <2>3
          DEF DataInv, RangeInv, Assigned
<1> QED BY <1>1, <1>9, <1>10

\* Linking makes nobody disappear from level 0, and only the new key appears.
LEMMA DataSetNext ==
  ASSUME TypeOK, ListInv, DataInv, RangeInv, SetNext
  PROVE  DataInv' /\ RangeInv' /\ Linked(0) \subseteq Linked(0)'
<1>1. /\ put.at \in {"point", "link"} /\ put.key \in Key /\ put \in Writing
      /\ put.level \in Nat /\ put.level < height[put.key] /\ height[put.key] \in Nat
      /\ height' = height /\ last' = last /\ view' = view
      /\ UNCHANGED <<hasRange, minKey, maxKey>>
  BY PutFields, HeightsAre
     DEF SetNext, ListInv, WriterInv, TypeOK, Writing, rangeVars, histVars
<1>2. PICK k \in Key : k = put.key
  BY <1>1
<1>3. /\ put'.key = k /\ put'.view = put.view
      /\ \/ put'.at = "link" /\ put'.level = put.level
         \/ put'.at = "point" /\ put'.level = put.level + 1
         \/ put'.at = "range"
  BY <1>1, <1>2 DEF SetNext, Writing
<1>4. Linked(0) \subseteq Linked(0)' /\ Linked(0)' \subseteq Linked(0) \cup {k}
  BY <1>1, <1>2, <1>3 DEF Linked
<1>5. put'.at = "range" => k \in Linked(0)'
  BY <1>1, <1>2, <1>3 DEF Linked
<1>6. view[k] = put.view /\ \A j \in Linked(0) : j # k => view[j] = last[j]
  BY <1>1, <1>2 DEF DataInv
<1>7. DataInv'
  BY <1>1, <1>2, <1>3, <1>4, <1>5, <1>6 DEF DataInv, Assigned
<1>8. RangeInv'
  BY <1>1, <1>3 DEF RangeInv
<1> QED BY <1>4, <1>7, <1>8

LEMMA DataRange ==
  ASSUME TypeOK, ListInv, DataInv, RangeInv, UpdateRange \/ AssignMin \/ AssignMax
  PROVE  DataInv' /\ RangeInv'
<1>1. /\ put.at \in Assigned /\ put.key \in Key /\ put \in Writing /\ put.view \in View
      /\ put.key \in Linked(0) /\ view[put.key] = put.view
      /\ UNCHANGED <<next, height, view, maxHeight>>
  BY PutFields DEF UpdateRange, AssignMin, AssignMax, Assigned, DataInv, ListInv,
                   WriterInv, listVars
<1>2. PICK k \in Key : k = put.key /\ k \in Nat
  BY <1>1, KeysAre
<1>3. Linked(0)' = Linked(0) /\ Linked(0) \subseteq Key
  <2>1. put'.at \notin {"point", "link"}
    BY <1>1 DEF UpdateRange, AssignMin, AssignMax, FinishPut, IdlePut, Writing
  <2> QED BY <1>1, <2>1 DEF Linked, Assigned
<1>4. \/ put'.at \in {"min", "max"} /\ put'.key = k /\ put'.view = put.view /\ last' = last
      \/ put' = IdlePut /\ last' = [last EXCEPT ![k] = put.view]
  BY <1>1, <1>2 DEF UpdateRange, AssignMin, AssignMax, FinishPut, Writing
<1>5. \A j \in Linked(0) : j # k => view[j] = last[j]
  BY <1>1, <1>2 DEF DataInv, Assigned
<1>6. DataInv'
  <2>1. CASE put'.at \in {"min", "max"} /\ put'.key = k /\ put'.view = put.view /\ last' = last
    BY <1>1, <1>2, <1>3, <1>5, <2>1 DEF DataInv, Assigned
  <2>2. CASE put' = IdlePut /\ last' = [last EXCEPT ![k] = put.view]
    <3>1. /\ put'.at = "idle" /\ last'[k] = put.view
          /\ \A j \in Key : j # k => last'[j] = last[j]
      BY <2>2 DEF IdlePut, TypeOK
    <3> QED BY <1>1, <1>2, <1>3, <1>5, <2>2, <3>1 DEF DataInv, Assigned
  <2> QED BY <1>4, <2>1, <2>2
<1>7. /\ minKey \in Nat /\ maxKey \in Nat /\ hasRange \in BOOLEAN
      /\ \A j \in Key : j \in Nat
  BY KeysAre DEF TypeOK
<1>8. RangeInv'
  <2>1. CASE UpdateRange
    <3>1. \/ put'.at = "min" /\ put'.key = k /\ (~hasRange \/ k < minKey) /\ last' = last
          \/ put'.at = "max" /\ put'.key = k /\ hasRange /\ k > maxKey /\ last' = last
          \/ /\ put'.at = "idle" /\ hasRange /\ ~(k < minKey) /\ ~(k > maxKey)
             /\ \A j \in Key : j # k => last'[j] = last[j]
      BY <1>1, <1>2, <2>1 DEF UpdateRange, FinishPut, IdlePut, Writing, TypeOK
    <3>2. UNCHANGED <<hasRange, minKey, maxKey>>
      BY <2>1 DEF UpdateRange, rangeVars
    <3> QED BY <1>2, <1>7, <3>1, <3>2 DEF RangeInv
  <2>2. CASE AssignMin
    <3>1. /\ put.at = "min" /\ minKey' = k /\ hasRange' = hasRange /\ maxKey' = maxKey
          /\ ~hasRange \/ k < minKey
          /\ \/ ~hasRange /\ put'.at = "max" /\ put'.key = k /\ last' = last
             \/ /\ hasRange /\ put'.at = "idle"
                /\ \A j \in Key : j # k => last'[j] = last[j]
      BY <1>1, <1>2, <2>2 DEF AssignMin, FinishPut, IdlePut, Writing, TypeOK, RangeInv
    <3> QED BY <1>2, <1>7, <3>1 DEF RangeInv
  <2>3. CASE AssignMax
    <3>1. /\ put.at = "max" /\ maxKey' = k /\ hasRange' = TRUE /\ minKey' = minKey
          /\ IF hasRange THEN k > maxKey ELSE minKey = k
          /\ put'.at = "idle" /\ \A j \in Key : j # k => last'[j] = last[j]
      BY <1>1, <1>2, <2>3 DEF AssignMax, FinishPut, IdlePut, Writing, TypeOK, RangeInv
    <3> QED BY <1>2, <1>7, <3>1 DEF RangeInv
  <2> QED BY <2>1, <2>2, <2>3
<1> QED BY <1>6, <1>8

-----------------------------------------------------------------------------
(* The writer and the calls. *)

\* Call d is call c but for the views it may return, and may be torn.
Grows(c, d) ==
  /\ d.at = c.at /\ d.op = c.op /\ d.from = c.from /\ d.to = c.to
  /\ d.node = c.node /\ d.copied = c.copied /\ d.view = c.view
  /\ d.unsure = c.unsure /\ d.rows = c.rows
  /\ d.torn = FALSE => c.torn = FALSE
  /\ \A k \in Key : c.allowed[k] \subseteq d.allowed[k]

LEMMA GrowsKeeps ==
  ASSUME NEW c, NEW d, Grows(c, d), Shape(c), Rows(c)
  PROVE  Shape(d) /\ Rows(d)
<1>1. Asked(d) = Asked(c) /\ Asked(c) \subseteq Key
  BY DEF Asked, Grows
<1>2. Shape(d)
  BY <1>1 DEF Shape, Grows
<1>3. \A k \in Asked(d) : Passed(d, k) => Answered(d, k)
  BY <1>1 DEF Passed, Answered, Grows, Rows
<1>4. ASSUME NEW i \in DOMAIN d.rows
      PROVE  RowIsRegular(d, d.rows[i])
  <2>1. d.rows = c.rows /\ c.rows[i].key \in Key /\ RowIsRegular(c, c.rows[i])
    BY <1>1 DEF Rows, Grows
  <2> QED BY <2>1 DEF RowIsRegular, Grows
<1>5. Rows(d)
  BY <1>1, <1>3, <1>4 DEF Rows, Grows
<1> QED BY <1>2, <1>5

\* What the writer may do to the values without the calls noticing: the last
\* value becomes the one that was under way, a new value is allowed at once.
ValuesKept(c, d) ==
  /\ \A k \in Asked(c) :
       last'[k] = last[k] \/ (last'[k] = put.view /\ put.key = k /\ put.view # NoView)
  /\ \A k \in Asked(c) :
       put'.key = k /\ put'.view # NoView =>
         \/ put'.key = put.key /\ put'.view = put.view
         \/ put'.view \in d.allowed[k]

\* What the writer may do to a view of which a call has copied one word.
ViewKept(c, d) ==
  c.copied # {} /\ d.torn = FALSE =>
    /\ view'[c.node] = view[c.node]
    /\ put'.at = "second" /\ put'.key = c.node =>
         put.at = "second" /\ put.key = c.node

LEMMA CallKept ==
  ASSUME NEW r \in Reader, CallSound(call[r]), Grows(call[r], call'[r]),
         ValuesKept(call[r], call'[r]), ViewKept(call[r], call'[r])
  PROVE  CallSound(call[r])'
<1> SUFFICES ASSUME call'[r].at # "idle"
             PROVE  Shape(call'[r]) /\ Rows(call'[r]) /\ Seen(call[r])' /\ Half(call[r])'
  BY DEF CallSound, Shape, Rows, Asked, Passed, Answered, RowIsRegular
<1> DEFINE c == call[r]
           d == call'[r]
<1>1. Shape(c) /\ Rows(c) /\ Seen(c) /\ Half(c)
  BY DEF CallSound, Grows
<1>2. Shape(d) /\ Rows(d)
  BY <1>1, GrowsKeeps
<1>3. Asked(d) = Asked(c) /\ Asked(c) \subseteq Key
  BY DEF Asked, Grows
<1>4. \A k \in Asked(d) :
        /\ last'[k] \in d.allowed[k]
        /\ put'.key = k /\ put'.view # NoView => put'.view \in d.allowed[k]
  BY <1>1, <1>3 DEF Seen, ValuesKept, Grows
<1>5. Seen(call[r])'
  BY <1>4 DEF Seen, Asked
<1>6. ASSUME d.copied # {}
      PROVE  \E w \in Words :
               /\ d.copied = {w}
               /\ \E v \in d.allowed[d.node] \ {NoView} : d.view[w] = v[w]
               /\ d.torn = FALSE => /\ d.view[w] = view'[d.node][w]
                                    /\ ~(put'.at = "second" /\ put'.key = d.node)
  <2>1. c.copied # {} /\ c.node \in Key
    BY <1>1, <1>3, <1>6 DEF Grows, Shape
  <2>2. PICK w \in Words :
          /\ c.copied = {w}
          /\ \E v \in c.allowed[c.node] \ {NoView} : c.view[w] = v[w]
          /\ c.torn = FALSE => /\ c.view[w] = view[c.node][w]
                               /\ ~(put.at = "second" /\ put.key = c.node)
    BY <1>1, <2>1 DEF Half
  <2> QED BY <2>1, <2>2 DEF Grows, ViewKept
<1>7. Half(call[r])'
  BY <1>6 DEF Half
<1> QED BY <1>2, <1>5, <1>7

LEMMA GrowsNot == \A c : Grows(c, c)
BY DEF Grows

\* A step of the writer that the calls do not see.
LEMMA CallsUnseen ==
  ASSUME CallsInv, call' = call, last' = last, view' = view,
         put'.view = NoView \/ (put'.view = put.view /\ put'.key = put.key),
         put'.at # "second"
  PROVE  CallsInv'
<1> SUFFICES ASSUME NEW r \in Reader PROVE CallSound(call[r])'
  BY DEF CallsInv
<1>1. CallSound(call[r]) /\ Grows(call[r], call'[r])
  BY GrowsNot DEF CallsInv
<1>2. ValuesKept(call[r], call'[r]) /\ ViewKept(call[r], call'[r])
  BY DEF ValuesKept, ViewKept
<1> QED BY <1>1, <1>2, CallKept

LEMMA CallsRange ==
  ASSUME TypeOK, ListInv, CallsInv, UpdateRange \/ AssignMin \/ AssignMax
  PROVE  CallsInv'
<1>1. /\ put.key \in Key /\ put \in Writing /\ put.view # NoView
      /\ call' = call /\ view' = view
  BY MemTableAssumption DEF UpdateRange, AssignMin, AssignMax, ListInv, WriterInv,
                            TypeOK, listVars, View
<1>2. PICK k \in Key : k = put.key
  BY <1>1
<1>3. \/ put'.at \in {"min", "max"} /\ put'.key = k /\ put'.view = put.view /\ last' = last
      \/ /\ put'.at = "idle" /\ put'.view = NoView
         /\ last'[k] = put.view /\ \A j \in Key : j # k => last'[j] = last[j]
  BY <1>1, <1>2 DEF UpdateRange, AssignMin, AssignMax, FinishPut, IdlePut, Writing, TypeOK
<1> SUFFICES ASSUME NEW r \in Reader PROVE CallSound(call[r])'
  BY DEF CallsInv
<1>4. CallSound(call[r]) /\ Grows(call[r], call'[r])
  BY <1>1, GrowsNot DEF CallsInv
<1>5. ValuesKept(call[r], call'[r])
  BY <1>1, <1>2, <1>3 DEF ValuesKept, Asked
<1>6. ViewKept(call[r], call'[r])
  BY <1>1, <1>3 DEF ViewKept
<1> QED BY <1>4, <1>5, <1>6, CallKept

\* A new value may be returned by every call that is under way and asks.
LEMMA WitnessGrows ==
  ASSUME TypeOK, NEW k \in Key, NEW v, Witness(k, v), NEW r \in Reader
  PROVE  /\ Grows(call[r], call'[r])
         /\ call[r].at # "idle" /\ k \in Asked(call[r]) => v \in call'[r].allowed[k]
<1>1. call[r] \in Reading /\ DOMAIN call[r].allowed = Key
  BY DEF TypeOK, Reading
<1>2. CASE call[r].at # "idle" /\ k \in call[r].from..call[r].to
  <2>1. call'[r] = [call[r] EXCEPT !.allowed[k] = @ \cup {v}]
    BY <1>2 DEF Witness
  <2> QED BY <1>1, <2>1 DEF Grows, Reading
<1>3. CASE ~(call[r].at # "idle" /\ k \in call[r].from..call[r].to)
  <2>1. call'[r] = call[r]
    BY <1>3 DEF Witness
  <2> QED BY <1>3, <2>1, GrowsNot DEF Asked
<1> QED BY <1>2, <1>3

LEMMA CallsWitness ==
  ASSUME TypeOK, CallsInv, NEW k \in Key, NEW v, Witness(k, v),
         put'.key = k, put'.view = v, put'.at # "second", last' = last,
         \A r \in Reader : call[r].at # "idle" /\ call[r].copied # {} =>
                             view'[call[r].node] = view[call[r].node]
  PROVE  CallsInv'
<1> SUFFICES ASSUME NEW r \in Reader, call'[r].at # "idle" PROVE CallSound(call[r])'
  BY DEF CallsInv, CallSound
<1>1. /\ CallSound(call[r]) /\ Grows(call[r], call'[r])
      /\ call[r].at # "idle" /\ k \in Asked(call[r]) => v \in call'[r].allowed[k]
  BY WitnessGrows DEF CallsInv
<1>2. call[r].at # "idle"
  BY <1>1 DEF Grows
<1>3. ValuesKept(call[r], call'[r]) /\ ViewKept(call[r], call'[r])
  BY <1>1, <1>2 DEF ValuesKept, ViewKept
<1> QED BY <1>1, <1>3, CallKept

LEMMA CallsCopyValue ==
  ASSUME TypeOK, CallsInv, CopyValue
  PROVE  CallsInv'
<1>1. put.key \in Key /\ put \in Writing
  BY DEF CopyValue, TypeOK
<1>2. PICK v : put' = [put EXCEPT !.at = "first", !.view = v] /\ Witness(put.key, v)
  BY DEF CopyValue
<1>3. put'.key = put.key /\ put'.view = v /\ put'.at = "first"
  BY <1>1, <1>2 DEF Writing
<1>4. last' = last /\ view' = view
  BY DEF CopyValue, listVars, histVars
<1> QED BY <1>1, <1>2, <1>3, <1>4, CallsWitness

\* A call stands on a node of the list when it has copied a word.
LEMMA CopiesLinked ==
  ASSUME ListInv, CallsInv, NEW r \in Reader, call[r].at # "idle", call[r].copied # {}
  PROVE  call[r].node \in Linked(0) /\ call[r].at = "copy"
BY DEF CallsInv, CallSound, Shape, ListInv, ReaderInv

LEMMA CallsPlaceNode ==
  ASSUME TypeOK, ArenaIsSound, ListInv, DataInv, RangeInv, CallsInv, PlaceNode
  PROVE  CallsInv'
<1>1. /\ put.key \in Key /\ put \in Writing
      /\ put.key \notin Linked(0) /\ \A k \in Key : k # put.key => view'[k] = view[k]
  BY DataPlaceNode DEF PlaceNode, TypeOK
<1>2. PICK v : /\ \E h : put' = [put EXCEPT !.at = "point", !.level = 0, !.view = v,
                                            !.prev = Prev(h)]
               /\ Witness(put.key, v)
  BY DEF PlaceNode
<1>3. put'.key = put.key /\ put'.view = v /\ put'.at = "point"
  BY <1>1, <1>2 DEF Writing
<1>4. last' = last
  BY DEF PlaceNode, histVars
<1>5. \A r \in Reader : call[r].at # "idle" /\ call[r].copied # {} =>
                          view'[call[r].node] = view[call[r].node]
  BY <1>1, CopiesLinked DEF Linked
<1> QED BY <1>1, <1>2, <1>3, <1>4, <1>5, CallsWitness

LEMMA CallsStoreWord ==
  ASSUME TypeOK, ListInv, DataInv, RangeInv, CallsInv, NEW w \in Words, StoreWord(w)
  PROVE  CallsInv'
<1>1. /\ put.key \in Key /\ put \in Writing /\ last' = last
      /\ \A k \in Key : k # put.key => view'[k] = view[k]
  BY DataStoreWord DEF StoreWord, TypeOK, histVars
<1>2. put'.key = put.key /\ put'.view = put.view
  BY <1>1 DEF StoreWord, Writing
<1> SUFFICES ASSUME NEW r \in Reader, call'[r].at # "idle" PROVE CallSound(call[r])'
  BY DEF CallsInv, CallSound
<1>3. call[r] \in Reading
  BY DEF TypeOK
<1>4. /\ CallSound(call[r]) /\ Grows(call[r], call'[r])
      /\ call[r].copied # {} /\ call[r].node = put.key => call'[r].torn
  <2>1. call'[r] = IF call[r].copied # {} /\ call[r].node = put.key
                   THEN [call[r] EXCEPT !.torn = TRUE] ELSE call[r]
    BY DEF StoreWord
  <2> QED BY <1>3, <2>1 DEF CallsInv, Grows, Reading
<1>5. ValuesKept(call[r], call'[r])
  BY <1>1, <1>2 DEF ValuesKept
<1>6. ViewKept(call[r], call'[r])
  <2>1. call[r].at # "idle"
    BY <1>4 DEF Grows
  <2>2. call[r].copied # {} => call[r].node \in Key
    BY <2>1, CopiesLinked DEF Linked
  <2> QED BY <1>1, <1>2, <1>4, <2>2 DEF ViewKept
<1> QED BY <1>4, <1>5, <1>6, CallKept


-----------------------------------------------------------------------------
(* The readers. *)

\* What a linked node shows is, word by word, what a call may return, and as
\* a whole unless the writer is between two words.
LEMMA ViewIsAllowed ==
  ASSUME TypeOK, ListInv, DataInv, NEW c \in Reading, Seen(c),
         NEW n \in Linked(0), n \in Asked(c)
  PROVE  /\ \A w \in Words : \E v \in c.allowed[n] \ {NoView} : view[n][w] = v[w]
         /\ ~(put.at = "second" /\ put.key = n) => view[n] \in c.allowed[n] \ {NoView}
         /\ view[n] \in View
<1>1. /\ n \in Key /\ n # 0 /\ view[n] \in View /\ NoView \notin View
      /\ last[n] \in c.allowed[n]
      /\ put.key = n /\ put.view # NoView => put.view \in c.allowed[n]
  BY KeysAre, MemTableAssumption DEF Linked, TypeOK, View, Seen
<1>2. put.at = "idle" => put.key # n
  BY <1>1 DEF DataInv, IdlePut
<1>3. put \in Writing
  BY DEF TypeOK
<1>4. CASE put.key # n \/ put.at \in {"find", "insert", "first"}
  <2>1. view[n] = last[n]
    BY <1>4 DEF DataInv
  <2> QED BY <1>1, <1>4, <2>1
<1>5. CASE put.key = n /\ put.at = "second"
  <2>1. put.view \in View /\ last[n] \in View
    BY <1>5 DEF ListInv, WriterInv, DataInv
  <2>2. \A w \in Words : view[n][w] = put.view[w] \/ view[n][w] = last[n][w]
    BY <1>5 DEF DataInv
  <2> QED BY <1>1, <1>5, <2>1, <2>2
<1>6. CASE put.key = n /\ put.at \in {"point", "link"} \cup Assigned
  <2>1. put.view \in View /\ view[n] = put.view
    BY <1>6 DEF ListInv, WriterInv, DataInv, Assigned
  <2> QED BY <1>1, <1>6, <2>1
<1> QED BY <1>2, <1>3, <1>4, <1>5, <1>6 DEF Writing, Assigned

\* Who is not in the list has never been put, and need not be found.
LEMMA NotLinkedIsAllowed ==
  ASSUME DataInv, NEW c, Seen(c), NEW k \in Asked(c), k \notin Linked(0)
  PROVE  NoView \in c.allowed[k]
<1>1. k \in Key /\ last[k] \in c.allowed[k]
  BY DEF Seen, Asked
<1> QED BY <1>1 DEF DataInv

\* A read that comes from node m to the next one passes nobody.
LEMMA VisitSound ==
  ASSUME TypeOK, ListInv, DataInv, NEW c \in Reading, c.at \in {"find", "next"},
         Shape(c), Rows(c), Seen(c), NEW m \in {head} \cup Linked(0),
         c.at = "find" => /\ m = head \/ m < c.from
                          /\ ~KeyIsAfterNode(c.from, next[m][0]),
         c.at = "next" => m = c.node
  PROVE  CallSound(Visit(c, next[m][0]))
<1> DEFINE n == next[m][0]
           d == Visit(c, n)
<1>1. /\ c.from \in Key /\ c.to \in Key /\ c.from \in Nat /\ c.to \in Nat
      /\ \A k \in Key : k \in Nat /\ k # head
      /\ Linked(0) \subseteq Key
  BY KeysAre DEF Shape, Linked
<1>2. /\ n \in Linked(0) \cup {Nil}
      /\ n # Nil => n \in Nat /\ (m = head \/ m < n)
  BY HeightsAre, NextIsLinked DEF ListInv
<1>3. c.at = "next" => m \in Asked(c)
  BY DEF Shape
<1>4. n # Nil => n >= c.from
  <2>1. CASE c.at = "find"
    BY <1>1, <1>2, <2>1 DEF KeyIsAfterNode
  <2>2. CASE c.at = "next"
    BY <1>1, <1>2, <1>3, <2>2 DEF Asked
  <2> QED BY <2>1, <2>2
<1>5. ASSUME NEW k \in Asked(c), n = Nil \/ k < n
      PROVE  Answered(c, k)
  <2>1. k \in Key /\ k \in Nat /\ c.from <= k
    BY <1>1 DEF Asked
  <2>2. CASE c.at = "next" /\ k <= c.node
    BY <2>2 DEF Rows, Passed
  <2>3. CASE ~(c.at = "next" /\ k <= c.node)
    <3>1. m = head \/ m < k
      <4>1. m # head => m \in Nat
        BY <1>1
      <4>2. CASE c.at = "find"
        BY <1>1, <2>1, <4>1, <4>2
      <4>3. CASE c.at = "next"
        BY <1>1, <2>1, <2>3, <4>1, <4>3
      <4> QED BY <4>2, <4>3
    <3>2. k \notin Linked(0)
      BY <1>2, <1>5, <2>1, <3>1, HeightsAre, NextIsLeast DEF ListInv
    <3> QED BY <3>2, NotLinkedIsAllowed DEF Answered
  <2> QED BY <2>2, <2>3
<1>6. c.copied = {}
  BY DEF Shape
<1>7. CASE n # Nil /\ n <= c.to
  <2>1. /\ d.at = "copy" /\ d.op = c.op /\ d.from = c.from /\ d.to = c.to
        /\ d.node = n /\ d.copied = c.copied /\ d.unsure = c.unsure
        /\ d.rows = c.rows /\ d.allowed = c.allowed
    BY <1>7 DEF Visit, Reading
  <2> HIDE DEF d
  <2>2. n \in Asked(c) /\ Asked(d) = Asked(c)
    BY <1>1, <1>2, <1>4, <1>7, <2>1 DEF Asked
  <2>3. c.at = "find" => c.rows = <<>>
    BY DEF Shape
  <2>4. c.op = "get" => c.at = "find"
    BY DEF Shape
  <2>5. Shape(d)
    BY <1>6, <2>1, <2>2, <2>3, <2>4 DEF Shape
  <2>6. ASSUME NEW i \in DOMAIN c.rows
        PROVE  c.rows[i].key < n
    <3>1. c.at = "next" /\ c.rows[i].key <= c.node /\ c.rows[i].key \in Asked(c)
      BY <2>3 DEF Rows
    <3> QED BY <1>1, <1>2, <1>3, <1>7, <3>1 DEF Asked
  <2>7. \A k \in Asked(d) : Passed(d, k) => Answered(d, k)
    BY <1>5, <2>1, <2>2 DEF Passed, Answered
  <2>8. Rows(d)
    BY <2>1, <2>2, <2>6, <2>7 DEF Rows, RowIsRegular
  <2>9. Seen(d) /\ Half(d)
    BY <1>6, <2>1, <2>2 DEF Seen, Half
  <2> QED BY <2>5, <2>8, <2>9 DEF CallSound, d
<1>8. CASE ~(n # Nil /\ n <= c.to)
  <2>1. /\ d.at = "done" /\ d.op = c.op /\ d.from = c.from /\ d.to = c.to
        /\ d.node = c.node /\ d.copied = c.copied /\ d.unsure = c.unsure
        /\ d.rows = c.rows /\ d.allowed = c.allowed
    BY <1>8 DEF Visit, Reading
  <2> HIDE DEF d
  <2>2. Asked(d) = Asked(c)
    BY <2>1 DEF Asked
  <2>3. \A k \in Asked(c) : n = Nil \/ k < n
    BY <1>1, <1>2, <1>8 DEF Asked
  <2>4. Shape(d)
    BY <1>6, <2>1, <2>2 DEF Shape
  <2>5. \A k \in Asked(d) : Passed(d, k) => Answered(d, k)
    BY <1>5, <2>1, <2>2, <2>3 DEF Answered
  <2>6. Rows(d)
    BY <2>1, <2>2, <2>5 DEF Rows, RowIsRegular
  <2>7. Seen(d) /\ Half(d)
    BY <1>6, <2>1, <2>2 DEF Seen, Half
  <2> QED BY <2>4, <2>6, <2>7 DEF CallSound, d
<1> QED BY <1>7, <1>8

\* A step of reader r that makes its call c.
CallStep(r) == \E c : call' = [call EXCEPT ![r] = c] /\ CallSound(c)

LEMMA SearchSound ==
  ASSUME TypeOK, ListInv, DataInv, CallsInv, NEW r \in Reader, Search(r)
  PROVE  CallStep(r)
<1> DEFINE c == call[r]
           n == next[c.node][c.level]
<1>1. /\ c \in Reading /\ c.at = "find" /\ c.level \in Nat
      /\ Shape(c) /\ Rows(c) /\ Seen(c) /\ Half(c)
  BY HeightsAre DEF Search, TypeOK, CallsInv, CallSound, Reading
<1>2. Reached(c.node, c.level, c.from)
  BY <1>1, PlacedCall DEF Placed
<1>3. call' = [call EXCEPT ![r] =
                IF KeyIsAfterNode(c.from, n) THEN [c EXCEPT !.node = n]
                ELSE IF c.level > 0 THEN [c EXCEPT !.level = @ - 1]
                ELSE Visit(c, n)]
  BY DEF Search
<1>4. ASSUME NEW d, d.at = "find", d.op = c.op, d.from = c.from, d.to = c.to,
             d.copied = c.copied, d.unsure = c.unsure, d.rows = c.rows,
             d.allowed = c.allowed
      PROVE  CallSound(d)
  <2>1. Asked(d) = Asked(c)
    BY <1>4 DEF Asked
  <2>2. Shape(d) /\ c.copied = {} /\ c.rows = <<>>
    BY <1>1, <1>4, <2>1 DEF Shape
  <2>3. Rows(d)
    BY <1>1, <1>4, <2>1, <2>2 DEF Rows, Passed
  <2> QED BY <1>1, <1>4, <2>1, <2>2, <2>3 DEF CallSound, Seen, Half
<1>5. CASE KeyIsAfterNode(c.from, n)
  <2> DEFINE d == [c EXCEPT !.node = n]
  <2>1. CallSound(d)
    BY <1>1, <1>4 DEF Reading
  <2> QED BY <1>3, <1>5, <2>1 DEF CallStep
<1>6. CASE ~KeyIsAfterNode(c.from, n) /\ c.level > 0
  <2> DEFINE d == [c EXCEPT !.level = @ - 1]
  <2>1. CallSound(d)
    BY <1>1, <1>4 DEF Reading
  <2> QED BY <1>3, <1>6, <2>1 DEF CallStep
<1>7. CASE ~KeyIsAfterNode(c.from, n) /\ ~(c.level > 0)
  <2>1. c.level = 0
    BY <1>1, <1>7
  <2>2. CallSound(Visit(c, next[c.node][0]))
    BY <1>1, <1>2, <1>7, <2>1, VisitSound DEF Reached
  <2> QED BY <1>3, <1>7, <2>1, <2>2 DEF CallStep
<1> QED BY <1>5, <1>6, <1>7

LEMMA NextNodeSound ==
  ASSUME TypeOK, ListInv, DataInv, CallsInv, NEW r \in Reader, NextNode(r)
  PROVE  CallStep(r)
<1> DEFINE c == call[r]
<1>1. /\ c \in Reading /\ c.at = "next" /\ Shape(c) /\ Rows(c) /\ Seen(c)
  BY DEF NextNode, TypeOK, CallsInv, CallSound
<1>2. c.node \in Linked(0)
  BY <1>1, PlacedCall DEF Placed
<1>3. CallSound(Visit(c, next[c.node][0]))
  BY <1>1, <1>2, VisitSound
<1>4. call' = [call EXCEPT ![r] = Visit(c, next[c.node][0])]
  BY DEF NextNode
<1> QED BY <1>3, <1>4 DEF CallStep

LEMMA ReturnSound ==
  ASSUME NEW r \in Reader, Return(r)
  PROVE  CallStep(r)
<1>1. call' = [call EXCEPT ![r] = IdleCall] /\ CallSound(IdleCall)
  BY IdleCallType DEF Return, CallSound
<1> QED BY <1>1 DEF CallStep


\* A new call may return what is current.
LEMMA BeginSound ==
  ASSUME TypeOK, NEW r \in Reader, NEW op \in {"get", "scan"},
         NEW at \in {"min", "done", "start"}, NEW from \in Key, NEW to \in Key,
         op = "get" => from = to /\ at # "start", op = "scan" => at = "start",
         at = "done" => last[from] = NoView,
         Begin(r, op, at, from, to)
  PROVE  CallStep(r)
<1> DEFINE seen == [k \in Key |->
                     IF k \notin from..to THEN {}
                     ELSE {last[k]} \cup (IF put.key = k THEN {put.view} \ {NoView}
                                                         ELSE {})]
           c == [IdleCall EXCEPT !.at = at, !.op = op, !.from = from, !.to = to,
                                 !.allowed = seen]
<1>1. call' = [call EXCEPT ![r] = c]
  BY DEF Begin
<1>2. /\ c.at = at /\ c.op = op /\ c.from = from /\ c.to = to /\ c.allowed = seen
      /\ c.rows = <<>> /\ c.copied = {} /\ c.unsure = FALSE
  BY DEF IdleCall
<1>3. Seen(c)
  BY <1>2 DEF Seen, Asked
<1> HIDE DEF c, seen
<1>4. Shape(c)
  BY <1>2 DEF Shape
<1>5. \A k \in Asked(c) : Passed(c, k) => Answered(c, k)
  <2> SUFFICES ASSUME NEW k \in Asked(c), Passed(c, k) PROVE NoView \in c.allowed[k]
    BY DEF Answered
  <2>1. at = "done" /\ from = to /\ k \in Nat /\ from \in Nat /\ from <= k /\ k <= from
    BY <1>2, KeysAre DEF Passed, Asked
  <2>2. k = from
    BY <2>1
  <2> QED BY <1>3, <2>1, <2>2 DEF Seen
<1>6. Rows(c)
  BY <1>2, <1>5 DEF Rows
<1>7. CallSound(c)
  BY <1>2, <1>3, <1>4, <1>6 DEF CallSound, Half
<1> QED BY <1>1, <1>7 DEF CallStep

LEMMA BeginGetSound ==
  ASSUME TypeOK, RangeInv, NEW r \in Reader, NEW k \in Key, BeginGet(r, k)
  PROVE  CallStep(r)
<1>1. Begin(r, "get", IF hasRange THEN "min" ELSE "done", k, k)
  BY DEF BeginGet
<1>2. ~hasRange => last[k] = NoView
  BY DEF RangeInv
<1> QED BY <1>1, <1>2, BeginSound

LEMMA BeginScanSound ==
  ASSUME TypeOK, NEW r \in Reader, BeginScan(r)
  PROVE  CallStep(r)
<1>1. PICK range \in Ranges : Begin(r, "scan", "start", range[1], range[2])
  BY DEF BeginScan
<1>2. range[1] \in Key /\ range[2] \in Key
  BY MemTableAssumption
<1> QED BY <1>1, <1>2, BeginSound

\* A key outside of the range has never been put, unless the comparison was
\* with a string that was being assigned.
LEMMA CheckRangeSound ==
  ASSUME TypeOK, RangeInv, CallsInv, NEW r \in Reader, CheckRange(r)
  PROVE  CallStep(r)
<1> DEFINE c == call[r]
<1>1. /\ c \in Reading /\ c.at \in {"min", "max"}
      /\ Shape(c) /\ Rows(c) /\ Seen(c) /\ Half(c)
  BY DEF CheckRange, TypeOK, CallsInv, CallSound
<1>2. /\ c.from \in Key /\ c.op = "get" /\ c.from = c.to
      /\ c.rows = <<>> /\ c.copied = {}
  BY <1>1 DEF Shape
<1>3. PICK inside \in Compared(c.at, IF c.at = "min" THEN c.from >= minKey
                                                     ELSE c.from <= maxKey) :
        call' = [call EXCEPT
             ![r].at = IF ~inside THEN "done"
                       ELSE IF c.at = "min" THEN "max" ELSE "start",
             ![r].unsure = @ \/ put.at = c.at]
  BY DEF CheckRange
<1> DEFINE at == IF ~inside THEN "done"
                 ELSE IF c.at = "min" THEN "max" ELSE "start"
           unsure == c.unsure \/ put.at = c.at
           d == [c EXCEPT !.at = at, !.unsure = unsure]
<1>4. call' = [call EXCEPT ![r] = d]
  BY <1>3 DEF TypeOK
<1>5. /\ d.at = at /\ d.op = c.op /\ d.from = c.from /\ d.to = c.to
      /\ d.copied = c.copied /\ d.unsure = unsure /\ d.rows = c.rows
      /\ d.allowed = c.allowed
  BY <1>1 DEF Reading
<1>6. at \in {"done", "max", "start"}
  BY <1>1
<1>7. at = "done" /\ ~unsure => NoView \in c.allowed[c.from]
  <2> SUFFICES ASSUME at = "done", ~unsure PROVE NoView \in c.allowed[c.from]
    OBVIOUS
  <2>1. ~inside /\ put.at # c.at
    BY <1>1
  <2>2. ~(IF c.at = "min" THEN c.from >= minKey ELSE c.from <= maxKey)
    BY <1>3, <2>1 DEF Compared
  <2>3. c.from \in Nat /\ minKey \in Nat /\ maxKey \in Nat
    BY <1>2, KeysAre DEF TypeOK
  <2>4. last[c.from] = NoView
    BY <1>1, <1>2, <2>2, <2>3 DEF RangeInv
  <2>5. c.from \in Asked(c)
    BY <1>2, <2>3 DEF Asked
  <2> QED BY <1>1, <2>4, <2>5 DEF Seen
<1> HIDE DEF d, at, unsure
<1>8. Asked(d) = Asked(c) /\ \A k \in Asked(c) : k = c.from
  BY <1>2, <1>5, KeysAre DEF Asked
<1>9. Shape(d)
  BY <1>1, <1>2, <1>5, <1>6, <1>8 DEF Shape
<1>10. \A k \in Asked(d) : Passed(d, k) => Answered(d, k)
  BY <1>5, <1>6, <1>7, <1>8 DEF Passed, Answered
<1>11. Rows(d)
  BY <1>2, <1>5, <1>10 DEF Rows
<1>12. Seen(d) /\ Half(d)
  BY <1>1, <1>2, <1>5, <1>8 DEF Seen, Half
<1>13. CallSound(d)
  BY <1>9, <1>11, <1>12 DEF CallSound
<1> QED BY <1>4, <1>13 DEF CallStep

LEMMA StartSearchSound ==
  ASSUME TypeOK, CallsInv, NEW r \in Reader, StartSearch(r)
  PROVE  CallStep(r)
<1> DEFINE c == call[r]
<1>1. /\ c \in Reading /\ c.at = "start"
      /\ Shape(c) /\ Rows(c) /\ Seen(c) /\ Half(c)
  BY DEF StartSearch, TypeOK, CallsInv, CallSound
<1>2. PICK h \in 1..maxHeight :
        call' = [call EXCEPT ![r].at = "find", ![r].level = h - 1]
  BY DEF StartSearch
<1> DEFINE d == [c EXCEPT !.at = "find", !.level = h - 1]
<1>3. call' = [call EXCEPT ![r] = d]
  BY <1>2 DEF TypeOK
<1>4. /\ d.at = "find" /\ d.op = c.op /\ d.from = c.from /\ d.to = c.to
      /\ d.copied = c.copied /\ d.unsure = c.unsure /\ d.rows = c.rows
      /\ d.allowed = c.allowed
  BY <1>1 DEF Reading
<1> HIDE DEF d
<1>5. Asked(d) = Asked(c) /\ c.rows = <<>> /\ c.copied = {}
  BY <1>1, <1>4 DEF Asked, Shape
<1>6. Shape(d) /\ Rows(d)
  BY <1>1, <1>4, <1>5 DEF Shape, Rows, Passed
<1>7. Seen(d) /\ Half(d)
  BY <1>1, <1>4, <1>5 DEF Seen, Half
<1> QED BY <1>3, <1>6, <1>7 DEF CallStep, CallSound


\* The two words of a row are copied one after the other.
LEMMA CopyWordSound ==
  ASSUME TypeOK, ListInv, DataInv, CallsInv, NEW r \in Reader, NEW w \in Words,
         CopyWord(r, w)
  PROVE  CallStep(r)
<1> DEFINE c == call[r]
           n == c.node
           v == [c.view EXCEPT ![w] = view[n][w]]
           t == c.torn \/ (put.at = "second" /\ put.key = n)
<1>1. /\ c \in Reading /\ c.at = "copy" /\ w \notin c.copied
      /\ Shape(c) /\ Rows(c) /\ Seen(c) /\ Half(c)
  BY DEF CopyWord, TypeOK, CallsInv, CallSound
<1>2. n \in Linked(0) /\ n \in Asked(c)
  BY <1>1, PlacedCall DEF Placed, Shape
<1>3. /\ \A x \in Words : \E a \in c.allowed[n] \ {NoView} : view[n][x] = a[x]
      /\ ~(put.at = "second" /\ put.key = n) => view[n] \in c.allowed[n] \ {NoView}
      /\ view[n] \in View
  BY <1>1, <1>2, ViewIsAllowed
<1>4. /\ v[w] = view[n][w] /\ \A x \in Words \ {w} : v[x] = c.view[x]
      /\ v = [ptr |-> v.ptr, len |-> v.len]
  BY <1>1, <1>3 DEF Words, View, Reading
<1>5. call' = [call EXCEPT ![r] =
           IF c.copied = {}
           THEN [c EXCEPT !.copied = {w}, !.view = v, !.torn = t]
           ELSE [c EXCEPT !.copied = {}, !.view = EmptyView,
                          !.at = IF c.op = "get" THEN "done" ELSE "next",
                          !.rows = Append(@, [key |-> n, view |-> v,
                                              torn |-> t])]]
  BY DEF CopyWord
<1> HIDE DEF v
<1>6. CASE c.copied = {}
  <2> DEFINE d == [c EXCEPT !.copied = {w}, !.view = v, !.torn = t]
  <2>1. /\ d.at = "copy" /\ d.op = c.op /\ d.from = c.from /\ d.to = c.to
        /\ d.node = n /\ d.copied = {w} /\ d.view = v /\ d.torn = t
        /\ d.unsure = c.unsure /\ d.rows = c.rows /\ d.allowed = c.allowed
    BY <1>1 DEF Reading
  <2> HIDE DEF d
  <2>2. Asked(d) = Asked(c)
    BY <2>1 DEF Asked
  <2>3. Shape(d)
    BY <1>1, <2>1, <2>2 DEF Shape
  <2>4. \A k \in Asked(d) : Passed(d, k) => Answered(d, k)
    BY <1>1, <2>1, <2>2 DEF Rows, Passed, Answered
  <2>5. Rows(d)
    BY <1>1, <2>1, <2>2, <2>4 DEF Rows, RowIsRegular
  <2>6. Seen(d)
    BY <1>1, <2>1, <2>2 DEF Seen
  <2>7. Half(d)
    <3>1. \E a \in d.allowed[d.node] \ {NoView} : d.view[w] = a[w]
      BY <1>3, <1>4, <2>1
    <3>2. d.torn = FALSE => /\ d.view[w] = view[d.node][w]
                            /\ ~(put.at = "second" /\ put.key = d.node)
      BY <1>4, <2>1
    <3> QED BY <2>1, <3>1, <3>2 DEF Half
  <2>8. call' = [call EXCEPT ![r] = d]
    BY <1>5, <1>6 DEF d
  <2> QED BY <2>3, <2>5, <2>6, <2>7, <2>8 DEF CallStep, CallSound
<1>7. CASE c.copied # {}
  <2> DEFINE row == [key |-> n, view |-> v, torn |-> t]
             d == [c EXCEPT !.copied = {}, !.view = EmptyView,
                            !.at = IF c.op = "get" THEN "done" ELSE "next",
                            !.rows = Append(@, row)]
  <2>1. PICK u \in Words :
          /\ c.copied = {u} /\ u # w
          /\ \E a \in c.allowed[n] \ {NoView} : c.view[u] = a[u]
          /\ c.torn = FALSE => c.view[u] = view[n][u]
    BY <1>1, <1>7 DEF Half
  <2>2. RowIsRegular(c, row)
    <3>1. PICK a \in c.allowed[n] \ {NoView}, b \in c.allowed[n] \ {NoView} :
            v = [ptr |-> a.ptr, len |-> b.len]
      <4>1. \A x \in Words : \E a \in c.allowed[n] \ {NoView} : v[x] = a[x]
        BY <1>3, <1>4, <2>1 DEF Words
      <4> QED BY <1>4, <4>1 DEF Words
    <3>2. ~t => v = view[n]
      <4>1. ~t => \A x \in Words : v[x] = view[n][x]
        BY <1>1, <1>4, <2>1 DEF Words, Reading
      <4> QED BY <1>3, <1>4, <4>1 DEF Words, View
    <3>3. CASE t
      BY <3>1, <3>3 DEF RowIsRegular
    <3>4. CASE ~t
      <4>1. view[n] \in c.allowed[n] \ {NoView}
        BY <1>3, <3>4
      <4> QED BY <1>4, <3>2, <3>4, <4>1 DEF RowIsRegular
    <3> QED BY <3>3, <3>4
  <2>3. /\ c.rows \in Seq([key : Key, view : View, torn : BOOLEAN])
        /\ Len(c.rows) \in Nat
    BY <1>1 DEF Reading
  <2>4. /\ d.at = IF c.op = "get" THEN "done" ELSE "next"
        /\ d.op = c.op /\ d.from = c.from /\ d.to = c.to
        /\ d.node = n /\ d.copied = {} /\ d.unsure = c.unsure
        /\ d.rows = Append(c.rows, row) /\ d.allowed = c.allowed
    BY <1>1 DEF Reading
  <2>5. call' = [call EXCEPT ![r] = d]
    BY <1>5, <1>7
  <2>6. row.key = n
    OBVIOUS
  <2> HIDE DEF d, row
  <2>7. /\ Len(d.rows) = Len(c.rows) + 1 /\ DOMAIN d.rows = 1..(Len(c.rows) + 1)
        /\ DOMAIN c.rows = 1..Len(c.rows)
        /\ d.rows[Len(c.rows) + 1] = row
        /\ \A i \in DOMAIN c.rows : d.rows[i] = c.rows[i]
    BY <2>3, <2>4
  <2>8. Asked(d) = Asked(c) /\ Asked(c) \subseteq Nat
    BY <2>4, KeysAre DEF Asked
  <2>9. c.op = "get" => c.rows = <<>> /\ \A k \in Asked(c) : k = n
    BY <1>1, <1>2, KeysAre DEF Shape, Asked
  <2>10. c.op \in {"get", "scan"}
    BY <1>1 DEF Shape
  <2>11. Shape(d)
    <3>1. c.op = "get" => Len(d.rows) <= 1
      BY <2>7, <2>9
    <3> QED BY <1>1, <1>2, <2>4, <2>8, <2>10, <3>1 DEF Shape
  <2>12. \A i \in DOMAIN c.rows : c.rows[i].key < n
    BY <1>1 DEF Rows
  <2>13. ASSUME NEW i \in DOMAIN d.rows
         PROVE  /\ d.rows[i].key \in Asked(d) /\ RowIsRegular(d, d.rows[i])
                /\ d.rows[i].key <= n
    <3>1. CASE i \in DOMAIN c.rows
      <4>1. c.rows[i].key \in Asked(c) /\ RowIsRegular(c, c.rows[i]) /\ c.rows[i].key < n
        BY <1>1, <2>12, <3>1 DEF Rows
      <4>2. d.rows[i] = c.rows[i] /\ c.rows[i].key \in Nat /\ n \in Nat
        BY <1>2, <2>7, <2>8, <3>1, <4>1
      <4>3. RowIsRegular(d, c.rows[i])
        BY <2>4, <4>1 DEF RowIsRegular
      <4> QED BY <2>8, <4>1, <4>2, <4>3
    <3>2. CASE i = Len(c.rows) + 1
      <4>1. d.rows[i] = row /\ n \in Nat
        BY <1>2, <2>7, <2>8, <3>2
      <4>2. RowIsRegular(d, row)
        BY <2>2, <2>4 DEF RowIsRegular
      <4> QED BY <1>2, <2>6, <2>8, <4>1, <4>2
    <3> QED BY <2>3, <2>7, <3>1, <3>2
  <2>14. \A i, j \in DOMAIN d.rows : i < j => d.rows[i].key < d.rows[j].key
    <3> SUFFICES ASSUME NEW i \in DOMAIN d.rows, NEW j \in DOMAIN d.rows, i < j
                 PROVE  d.rows[i].key < d.rows[j].key
      OBVIOUS
    <3>1. i \in DOMAIN c.rows
      BY <2>3, <2>7
    <3>2. CASE j \in DOMAIN c.rows
      BY <1>1, <2>7, <3>1, <3>2 DEF Rows
    <3>3. CASE j = Len(c.rows) + 1
      BY <2>6, <2>7, <2>12, <3>1, <3>3
    <3> QED BY <2>3, <2>7, <3>2, <3>3
  <2>15. ASSUME NEW k \in Asked(d), Passed(d, k)
         PROVE  Answered(d, k)
    <3>1. CASE k = n
      <4>1. Len(c.rows) + 1 \in DOMAIN d.rows
        BY <2>3, <2>7
      <4> QED BY <2>6, <2>7, <3>1, <4>1 DEF Answered
    <3>2. CASE k # n
      <4>1. c.op # "get" /\ k \in Asked(c) /\ k < n
        BY <1>2, <2>4, <2>8, <2>9, <2>10, <2>15, <3>2 DEF Passed
      <4>2. Answered(c, k)
        BY <1>1, <4>1 DEF Rows, Passed
      <4> QED BY <2>3, <2>4, <2>7, <4>2 DEF Answered
    <3> QED BY <3>1, <3>2
  <2>16. Rows(d)
    BY <2>4, <2>10, <2>13, <2>14, <2>15 DEF Rows
  <2>17. Seen(d) /\ Half(d)
    BY <1>1, <2>4, <2>8 DEF Seen, Half
  <2> QED BY <2>5, <2>11, <2>16, <2>17 DEF CallStep, CallSound
<1> QED BY <1>6, <1>7

\* What one reader does is not seen by the others.
LEMMA CallsRead ==
  ASSUME TypeOK, ListInv, DataInv, RangeInv, CallsInv, NEW r \in Reader, Read(r)
  PROVE  DataInv' /\ RangeInv' /\ CallsInv'
<1>1. CallStep(r)
  BY BeginGetSound, BeginScanSound, CheckRangeSound, StartSearchSound, SearchSound,
     CopyWordSound, NextNodeSound, ReturnSound DEF Read, ReadOn
<1>2. UNCHANGED readUnchanged
  BY ReadMoved
<1>3. UNCHANGED <<next, height, view, hasRange, minKey, maxKey, put, last>>
  BY <1>2 DEF readUnchanged, listVars, rangeVars, histVars
<1>4. DataInv' /\ RangeInv'
  BY <1>3 DEF DataInv, RangeInv, Linked
<1>5. PICK c : call' = [call EXCEPT ![r] = c] /\ CallSound(c)
  BY <1>1 DEF CallStep
<1>6. ASSUME NEW q \in Reader PROVE CallSound(call[q])'
  <2>1. call'[q] = IF q = r THEN c ELSE call[q]
    BY <1>5 DEF TypeOK
  <2>2. CallSound(call'[q])
    BY <1>5, <2>1 DEF CallsInv
  <2> QED BY <1>3, <2>2 DEF CallSound, Shape, Rows, Asked, Passed, Answered,
                            RowIsRegular, Seen, Half
<1> QED BY <1>4, <1>6 DEF CallsInv

-----------------------------------------------------------------------------
(* The invariant. *)

ReadInv == IInv /\ DataInv /\ RangeInv /\ CallsInv

LEMMA InitReadInv == Init => ReadInv
<1> SUFFICES ASSUME Init PROVE DataInv /\ RangeInv /\ CallsInv
  BY InitIInv DEF ReadInv
<1>1. /\ put = IdlePut /\ put.at = "idle" /\ height = [k \in Key |-> 0]
      /\ last = [k \in Key |-> NoView] /\ hasRange = FALSE
      /\ call = [r \in Reader |-> IdleCall]
  BY IdlePutType DEF Init
<1>2. Linked(0) = {}
  BY <1>1 DEF Linked
<1>3. DataInv
  BY <1>1, <1>2 DEF DataInv, Assigned
<1>4. RangeInv
  BY <1>1 DEF RangeInv
<1>5. CallsInv
  BY <1>1, IdleCallType DEF CallsInv, CallSound
<1> QED BY <1>3, <1>4, <1>5

LEMMA StepReadInv == ReadInv /\ [Next]_vars => ReadInv'
<1> SUFFICES ASSUME IInv, TypeOK, ArenaIsSound, ListInv, DataInv, RangeInv, CallsInv,
                    [Next]_vars
             PROVE  DataInv' /\ RangeInv' /\ CallsInv'
  BY StepIInv DEF ReadInv, IInv
<1>1. ASSUME NEW k \in Key, NEW size \in ValueSizes[k], Put(k, size)
      PROVE  DataInv' /\ RangeInv' /\ CallsInv'
  <2>1. /\ put'.view = NoView /\ put'.at = "find"
        /\ call' = call /\ last' = last /\ view' = view
    BY <1>1 DEF Put, IdlePut, listVars
  <2> QED BY <1>1, <2>1, DataPut, CallsUnseen
<1>2. CASE PutFind
  <2>1. /\ put'.view = put.view /\ put'.key = put.key /\ put'.at \in {"find", "insert"}
        /\ call' = call /\ last' = last /\ view' = view
    BY <1>2, PutFields DEF PutFind, listVars, histVars, Writing
  <2> QED BY <1>2, <2>1, DataPutFind, CallsUnseen
<1>3. CASE CopyValue
  BY <1>3, DataCopyValue, CallsCopyValue
<1>4. CASE PlaceNode
  BY <1>4, DataPlaceNode, CallsPlaceNode
<1>5. CASE SetNext
  <2>1. /\ put'.view = put.view /\ put'.key = put.key
        /\ put'.at \in {"point", "link", "range"}
        /\ call' = call /\ last' = last /\ view' = view
    BY <1>5, PutFields DEF SetNext, histVars, Writing
  <2> QED BY <1>5, <2>1, DataSetNext, CallsUnseen
<1>6. ASSUME NEW w \in Words, StoreWord(w)
      PROVE  DataInv' /\ RangeInv' /\ CallsInv'
  BY <1>6, DataStoreWord, CallsStoreWord
<1>7. CASE UpdateRange \/ AssignMin \/ AssignMax
  BY <1>7, DataRange, CallsRange
<1>8. ASSUME NEW r \in Reader, Read(r)
      PROVE  DataInv' /\ RangeInv' /\ CallsInv'
  BY <1>8, CallsRead
<1>9. CASE UNCHANGED vars
  <2>1. UNCHANGED <<next, height, view, hasRange, minKey, maxKey, put, call, last>>
    BY <1>9 DEF vars, listVars, rangeVars, histVars
  <2> QED BY <2>1 DEF DataInv, RangeInv, Linked, CallsInv, CallSound, Shape, Rows,
                      Asked, Passed, Answered, RowIsRegular, Seen, Half
<1> QED BY <1>1, <1>2, <1>3, <1>4, <1>5, <1>6, <1>7, <1>8, <1>9 DEF Next, Writer

LEMMA AlwaysReadInv == Spec => []ReadInv
BY InitReadInv, StepReadInv, PTL DEF Spec

-----------------------------------------------------------------------------
(* The theorems. *)

\* Rows that are at most one, and not none.
LEMMA OneRow ==
  ASSUME NEW S, NEW s \in Seq(S), s # <<>>, Len(s) <= 1
  PROVE  Len(s) = 1 /\ 1 \in DOMAIN s
<1>1. Len(s) \in Nat /\ Len(s) # 0
  OBVIOUS
<1>2. Len(s) = 1
  BY <1>1
<1>3. DOMAIN s = 1..Len(s)
  OBVIOUS
<1> QED BY <1>2, <1>3

\* MemTable::get under no lock, beside a put that may stand anywhere: a key
\* whose put had returned is found, with a value that was current during the
\* call, but for the words of an overwrite that a racing copy mixes and for
\* a range string that is being assigned.
THEOREM GetAlwaysRegular == Spec => []GetIsRegular
<1>1. ReadInv => GetIsRegular
  <2> SUFFICES ASSUME ReadInv, NEW r \in Reader, call[r].op = "get", call[r].at = "done"
               PROVE  IF call[r].rows = <<>>
                      THEN NoView \in call[r].allowed[call[r].from] \/ call[r].unsure
                      ELSE /\ Len(call[r].rows) = 1
                           /\ call[r].rows[1].key = call[r].from
                           /\ RowIsRegular(call[r], call[r].rows[1])
    BY DEF GetIsRegular
  <2> DEFINE c == call[r]
  <2>1. /\ Shape(c) /\ Rows(c)
        /\ c.rows \in Seq([key : Key, view : View, torn : BOOLEAN])
    BY DEF ReadInv, IInv, TypeOK, Reading, CallsInv, CallSound
  <2>2. c.from \in Asked(c) /\ \A k \in Asked(c) : k = c.from
    BY <2>1, KeysAre DEF Shape, Asked
  <2>3. Len(c.rows) <= 1
    BY <2>1 DEF Shape
  <2>4. CASE c.rows = <<>>
    BY <2>1, <2>2, <2>4 DEF Rows, Passed, Answered
  <2>5. CASE c.rows # <<>>
    <3>1. Len(c.rows) = 1 /\ 1 \in DOMAIN c.rows
      BY <2>1, <2>3, <2>5, OneRow
    <3>2. c.rows[1].key \in Asked(c) /\ RowIsRegular(c, c.rows[1])
      BY <2>1, <3>1 DEF Rows
    <3> QED BY <2>2, <2>5, <3>1, <3>2
  <2> QED BY <2>4, <2>5
<1> QED BY <1>1, AlwaysReadInv, PTL

\* MemTable::scan under no lock: its keys ascend, stay in the range, include
\* every key whose put had returned, and come with values that were current.
THEOREM ScanAlwaysRegular == Spec => []ScanIsRegular
<1>1. ReadInv => ScanIsRegular
  <2> SUFFICES ASSUME ReadInv, NEW r \in Reader, call[r].op = "scan", call[r].at = "done"
               PROVE  LET c == call[r]
                      IN  /\ \A i, j \in DOMAIN c.rows :
                               i < j => c.rows[i].key < c.rows[j].key
                          /\ \A i \in DOMAIN c.rows :
                               /\ c.rows[i].key \in c.from..c.to
                               /\ RowIsRegular(c, c.rows[i])
                          /\ \A k \in Key \cap (c.from..c.to) :
                               \/ NoView \in c.allowed[k]
                               \/ \E i \in DOMAIN c.rows : c.rows[i].key = k
    BY DEF ScanIsRegular
  <2>1. Shape(call[r]) /\ Rows(call[r])
    BY DEF ReadInv, CallsInv, CallSound
  <2> QED BY <2>1 DEF Shape, Rows, Asked, Passed, Answered
<1> QED BY <1>1, AlwaysReadInv, PTL


-----------------------------------------------------------------------------
(* Walks over the list as it stands. *)

\* A pointer above the height of its node was never set, and the keys of the
\* nodes have a bound.
TailInv ==
  /\ \A k \in Key : \A i \in Heights : i >= height[k] => next[k][i] = Uninit
  /\ \E b \in Nat : \A k \in Key : height[k] > 0 => k <= b

LEMMA InitTailInv == Init => TailInv
<1> SUFFICES ASSUME Init PROVE TailInv
  OBVIOUS
<1>1. \A k \in Key : \A i \in Heights : next[k][i] = Uninit
  BY KeysAre DEF Init, Node
<1>2. \A k \in Key : ~(height[k] > 0)
  BY DEF Init
<1>3. \E b \in Nat : \A k \in Key : height[k] > 0 => k <= b
  BY <1>2
<1> QED BY <1>1, <1>3 DEF TailInv

LEMMA TailPlaceNode == ASSUME IInv, TailInv, PlaceNode PROVE TailInv'
<1>1. PICK h \in RandomHeight :
        /\ height' = [height EXCEPT ![put.key] = h]
        /\ next' = [next EXCEPT ![put.key] =
                      [i \in Heights |-> IF i = 0 THEN Nil ELSE Uninit]]
  BY DEF PlaceNode
<1>2. TypeOK /\ put.at = "insert"
  BY DEF IInv, PlaceNode
<1>3. put.key \in Key /\ put.key \in Nat
  BY <1>2, KeysAre DEF TypeOK
<1>4. height \in [Key -> 0..kMaxHeight] /\ next \in [Node -> [Heights -> Link]]
  BY <1>2 DEF TypeOK
<1>5. h \in Nat /\ h > 0
  BY MemTableAssumption DEF RandomHeight
<1>6. ASSUME NEW k \in Key, NEW i \in Heights, i >= height'[k]
      PROVE  next'[k][i] = Uninit
  <2>1. CASE k = put.key
    <3>1. height'[k] = h /\ i # 0
      BY <1>1, <1>4, <1>5, <1>6, <2>1, HeightsAre
    <3>2. next'[k] = [j \in Heights |-> IF j = 0 THEN Nil ELSE Uninit]
      BY <1>1, <1>4, <2>1 DEF Node
    <3> QED BY <3>1, <3>2
  <2>2. CASE k # put.key
    <3>1. height'[k] = height[k] /\ next'[k] = next[k]
      BY <1>1, <1>4, <2>2 DEF Node
    <3> QED BY <1>6, <3>1 DEF TailInv
  <2> QED BY <2>1, <2>2
<1>7. \E b \in Nat : \A k \in Key : height'[k] > 0 => k <= b
  <2>1. PICK b \in Nat : \A k \in Key : height[k] > 0 => k <= b
    BY DEF TailInv
  <2> DEFINE c == IF b < put.key THEN put.key ELSE b
  <2>2. c \in Nat /\ b <= c /\ put.key <= c
    BY <1>3
  <2>3. ASSUME NEW k \in Key, height'[k] > 0 PROVE k <= c
    <3>1. CASE k = put.key
      BY <2>2, <3>1
    <3>2. CASE k # put.key
      <4>1. height'[k] = height[k]
        BY <1>1, <1>4, <3>2
      <4>2. k <= b /\ k \in Nat
        BY <2>1, <2>3, <4>1, KeysAre
      <4> QED BY <2>2, <4>2
    <3> QED BY <3>1, <3>2
  <2> HIDE DEF c
  <2> QED BY <2>2, <2>3
<1> QED BY <1>6, <1>7 DEF TailInv

LEMMA TailSetNext == ASSUME IInv, TailInv, SetNext PROVE TailInv'
<1>1. TypeOK /\ WriterInv /\ put.at \in {"point", "link"} /\ height' = height
  BY DEF IInv, ListInv, SetNext
<1>2. /\ put.key \in Key /\ put.level \in Heights
      /\ next \in [Node -> [Heights -> Link]] /\ height \in [Key -> 0..kMaxHeight]
  BY <1>1 DEF TypeOK, Writing
<1>3. put.level < height[put.key] /\ PrevIsFound(put.level)
  <2>1. /\ put.level < height[put.key]
        /\ \A i \in Heights : put.level <= i /\ i < height[put.key] => PrevIsFound(i)
    <3>1. put.at \in {"point", "link"} =>
            /\ put.level < height[put.key]
            /\ \A i \in Heights :
                 put.level <= i /\ i < height[put.key] => PrevIsFound(i)
      BY Zenon, <1>1 DEF WriterInv
    <3> QED BY <1>1, <3>1
  <2>2. put.level <= put.level
    <3>1. put.level \in Nat
      BY <1>2, HeightsAre, Zenon
    <3> HIDE DEF Heights
    <3> QED BY <3>1
  <2> QED BY <1>2, <2>1, <2>2
<1>4. put.prev[put.level] = head \/ put.level < height[put.prev[put.level]]
  BY <1>3 DEF PrevIsFound, Reached, Linked
<1>5. PICK n, m : /\ n = head \/ put.level < height[n]
                  /\ next' = [next EXCEPT ![n][put.level] = m]
  BY <1>3, <1>4 DEF SetNext
<1>6. ASSUME NEW k \in Key, NEW i \in Heights, i >= height'[k]
      PROVE  next'[k][i] = Uninit
  <2>1. next[k][i] = Uninit /\ k \in Node /\ k # head
    BY <1>1, <1>6, KeysAre DEF TailInv, Node
  <2>2. ~(k = n /\ i = put.level)
    <3>1. height[k] \in Nat /\ i \in Nat
      BY <1>2, HeightsAre
    <3> QED BY <1>1, <1>5, <1>6, <2>1, <3>1
  <2>3. next'[k][i] = next[k][i]
    BY <1>2, <1>5, <2>1, <2>2
  <2> QED BY <2>1, <2>3
<1> QED BY <1>1, <1>6 DEF TailInv

LEMMA TailStep == IInv /\ TailInv /\ [Next]_vars => TailInv'
<1> SUFFICES ASSUME IInv, TailInv, [Next]_vars PROVE TailInv'
  OBVIOUS
<1>1. CASE UNCHANGED <<next, height>>
  BY <1>1 DEF TailInv
<1>2. CASE PlaceNode
  BY <1>2, TailPlaceNode
<1>3. CASE SetNext
  BY <1>3, TailSetNext
<1>4. ASSUME NEW r \in Reader, Read(r) PROVE UNCHANGED <<next, height>>
  BY <1>4 DEF Read, ReadOn, BeginGet, BeginScan, CheckRange, StartSearch, Search,
              CopyWord, NextNode, Return, readUnchanged, listVars
<1>5. CASE Writer
  <2>1. CASE \E k \in Key : \E size \in ValueSizes[k] : Put(k, size)
    BY <1>1, <2>1 DEF Put, listVars
  <2>2. CASE PutFind \/ CopyValue \/ UpdateRange \/ AssignMin \/ AssignMax
    BY <1>1, <2>2 DEF PutFind, CopyValue, UpdateRange, AssignMin, AssignMax, listVars
  <2>3. CASE \E w \in Words : StoreWord(w)
    BY <1>1, <2>3 DEF StoreWord
  <2> QED BY <1>2, <1>3, <1>5, <2>1, <2>2, <2>3 DEF Writer
<1>6. CASE UNCHANGED vars
  BY <1>1, <1>6 DEF vars, listVars
<1> QED BY <1>1, <1>4, <1>5, <1>6 DEF Next


LEMMA SeqOfNat ==
  ASSUME NEW S \in SUBSET Nat, NEW s \in Seq(S)
  PROVE  Len(s) \in Nat /\ \A i \in 1..Len(s) : s[i] \in S /\ s[i] \in Nat
<1>1. Len(s) \in Nat /\ \A i \in 1..Len(s) : s[i] \in S
  OBVIOUS
<1>2. \A k \in S : k \in Nat
  OBVIOUS
<1> QED BY <1>1, <1>2

\* A bounded set of naturals has a sorted listing.
LEMMA SortedListing ==
  ASSUME NEW S \in SUBSET Nat, NEW b \in Nat, \A k \in S : k <= b
  PROVE  \E s \in Seq(S) :
           /\ \A i, j \in 1..Len(s) : i < j => s[i] < s[j]
           /\ \A k \in S : \E i \in 1..Len(s) : s[i] = k
<1> DEFINE Upto(c, s) ==
             /\ \A i, j \in 1..Len(s) : i < j => s[i] < s[j]
             /\ \A i \in 1..Len(s) : s[i] <= c
             /\ \A k \in S : k <= c => \E i \in 1..Len(s) : s[i] = k
           Bad == {c \in Nat : \A s \in Seq(S) : ~Upto(c, s)}
<1>1. Bad = {}
  <2> SUFFICES ASSUME Bad # {} PROVE FALSE
    OBVIOUS
  <2>1. PICK c \in Bad : \A d \in Bad : c <= d
    <3>1. Bad \in SUBSET Nat
      OBVIOUS
    <3> HIDE DEF Bad
    <3> QED BY <3>1, LeastExists
  <2>2. c \in Nat
    BY <2>1
  <2> DEFINE Below(r) ==
               /\ \A i, j \in 1..Len(r) : i < j => r[i] < r[j]
               /\ \A i \in 1..Len(r) : r[i] < c
               /\ \A k \in S : k < c => \E i \in 1..Len(r) : r[i] = k
  <2>3. PICK s \in Seq(S) : Below(s)
    <3>1. CASE c = 0
      <4>1. <<>> \in Seq(S) /\ Len(<<>>) = 0
        OBVIOUS
      <4>2. \A k \in S : ~(k < c)
        BY <3>1
      <4>3. Below(<<>>)
        BY <4>1, <4>2
      <4> HIDE DEF Below
      <4> QED BY <4>1, <4>3
    <3>2. CASE c # 0
      <4>1. c - 1 \in Nat /\ ~(c <= c - 1)
        BY <2>2, <3>2
      <4>2. c - 1 \notin Bad
        <5> HIDE DEF Bad
        <5> QED BY <2>1, <4>1
      <4>3. PICK r \in Seq(S) : Upto(c - 1, r)
        BY <4>1, <4>2
      <4>4. \A i \in 1..Len(r) : r[i] \in Nat
        BY <4>3, SeqOfNat
      <4>5. Below(r)
        BY <2>2, <4>3, <4>4
      <4> HIDE DEF Below
      <4> QED BY <4>3, <4>5
    <3> QED BY <3>1, <3>2
  <2>4. Len(s) \in Nat /\ \A i \in 1..Len(s) : s[i] \in Nat
    BY <2>3, SeqOfNat
  <2>5. CASE c \notin S
    <3>1. Upto(c, s)
      BY <2>1, <2>3, <2>4, <2>5
    <3> QED BY <2>1, <3>1
  <2>6. CASE c \in S
    <3> DEFINE t == Append(s, c)
    <3>1. t \in Seq(S) /\ Len(t) = Len(s) + 1
      BY <2>3, <2>6
    <3>2. \A i \in 1..Len(t) : t[i] = IF i = Len(s) + 1 THEN c ELSE s[i]
      BY <2>3, <2>4, <2>6
    <3> HIDE DEF t
    <3>3. \A i, j \in 1..Len(t) : i < j => t[i] < t[j]
      <4> TAKE i \in 1..Len(t), j \in 1..Len(t)
      <4> HAVE i < j
      <4>1. i \in 1..Len(s) /\ (j = Len(s) + 1 \/ j \in 1..Len(s))
        BY <2>4, <3>1
      <4> QED BY <2>3, <2>4, <3>2, <4>1
    <3>4. \A i \in 1..Len(t) : t[i] <= c
      <4> TAKE i \in 1..Len(t)
      <4>1. i = Len(s) + 1 \/ i \in 1..Len(s)
        BY <2>4, <3>1
      <4> QED BY <2>1, <2>3, <2>4, <3>2, <4>1
    <3>5. \A k \in S : k <= c => \E i \in 1..Len(t) : t[i] = k
      <4> TAKE k \in S
      <4> HAVE k <= c
      <4>1. CASE k = c
        <5>1. Len(s) + 1 \in 1..Len(t)
          BY <2>4, <3>1
        <5> QED BY <3>2, <4>1, <5>1
      <4>2. CASE k # c
        <5>1. PICK i \in 1..Len(s) : s[i] = k
          BY <2>1, <2>3, <4>2
        <5>2. i \in 1..Len(t) /\ i # Len(s) + 1
          BY <2>4, <3>1
        <5> QED BY <3>2, <5>1, <5>2
      <4> QED BY <4>1, <4>2
    <3>6. Upto(c, t)
      BY <3>3, <3>4, <3>5
    <3> QED BY <2>1, <3>1, <3>6
  <2> QED BY <2>5, <2>6
<1>2. PICK s \in Seq(S) : Upto(b, s)
  BY <1>1
<1> QED BY <1>2

\* s lists the keys of the nodes in their order.
Lists(s) ==
  /\ s \in Seq(Key)
  /\ \A i, j \in 1..Len(s) : i < j => s[i] < s[j]
  /\ \A k \in Key : height[k] > 0 <=> \E i \in 1..Len(s) : s[i] = k

LEMMA ListingExists == TypeOK /\ TailInv => \E s : Lists(s)
<1> SUFFICES ASSUME TypeOK, TailInv PROVE \E s : Lists(s)
  OBVIOUS
<1> DEFINE S == {k \in Key : height[k] > 0}
<1>1. PICK b \in Nat : \A k \in Key : height[k] > 0 => k <= b
  BY DEF TailInv
<1>2. S \in SUBSET Nat /\ \A k \in S : k <= b
  BY <1>1, KeysAre
<1>3. PICK s \in Seq(S) :
        /\ \A i, j \in 1..Len(s) : i < j => s[i] < s[j]
        /\ \A k \in S : \E i \in 1..Len(s) : s[i] = k
  <2> HIDE DEF S
  <2> QED BY <1>2, SortedListing
<1>4. s \in Seq(Key) /\ \A i \in 1..Len(s) : s[i] \in S
  OBVIOUS
<1>5. \A k \in Key : height[k] > 0 <=> \E i \in 1..Len(s) : s[i] = k
  BY <1>3, <1>4
<1> QED BY <1>3, <1>4, <1>5 DEF Lists

\* The node at place i of the listing, the head at place 0.
Nth(s, i) == IF i = 0 THEN head ELSE s[i]

\* What a listing says of the nodes between two puts.
LEMMA NodesOf ==
  ASSUME IInv, put.at = "idle", NEW s, Lists(s)
  PROVE  /\ s \in Seq(Key) /\ Len(s) \in Nat
         /\ \A i \in 1..Len(s) : s[i] \in Key /\ s[i] \in Nat
         /\ \A i \in Heights : Linked(i) = {k \in Key : i < height[k]}
         /\ Linked(0) = {s[i] : i \in 1..Len(s)}
         /\ \A i \in Heights : Linked(i) \subseteq Linked(0)
         /\ \A k \in Key : height[k] \in Nat
<1>1. s \in Seq(Key)
  BY DEF Lists
<1>2. Len(s) \in Nat /\ \A i \in 1..Len(s) : s[i] \in Key /\ s[i] \in Nat
  BY <1>1, KeysAre
<1>3. \A i \in Heights : Linked(i) = {k \in Key : i < height[k]}
  BY DEF Linked
<1>4. \A k \in Key : height[k] \in Nat
  BY DEF IInv, TypeOK
<1>5. \A k : k \in Linked(0) <=> \E i \in 1..Len(s) : s[i] = k
  BY <1>2, <1>3, <1>4, HeightsAre DEF Lists
<1>6. \A i \in Heights : Linked(i) \subseteq Linked(0)
  BY <1>3, <1>4, HeightsAre
<1> QED BY <1>1, <1>2, <1>3, <1>4, <1>5, <1>6

\* Level 0 is the listing.
LEMMA AlongListing ==
  ASSUME IInv, put.at = "idle", NEW s, Lists(s), NEW i \in 0..Len(s)
  PROVE  next[Nth(s, i)][0] = IF i = Len(s) THEN Nil ELSE s[i + 1]
<1> DEFINE n == Nth(s, i)
           m == next[n][0]
<1>1. /\ Len(s) \in Nat /\ 0 \in Heights /\ LevelsAreSorted
      /\ \A j \in 1..Len(s) : s[j] \in Key /\ s[j] \in Nat
      /\ Linked(0) = {s[j] : j \in 1..Len(s)}
  BY NodesOf, HeightsAre DEF IInv, ListInv
<1>2. n \in {head} \cup Linked(0) /\ (i = 0 => n = head) /\ (i # 0 => n = s[i])
  BY <1>1 DEF Nth
<1>3. \A j, l \in 1..Len(s) : j < l => s[j] < s[l]
  BY DEF Lists
<1> HIDE DEF n
<1>4. m \in Linked(0) \cup {Nil} /\ (m # Nil => n = head \/ n < m)
  BY <1>1, <1>2, NextIsLinked
<1>5. ASSUME m # Nil PROVE \E j \in (i + 1)..Len(s) : m = s[j]
  <2>1. PICK j \in 1..Len(s) : m = s[j]
    BY <1>1, <1>4, <1>5
  <2>2. CASE i = 0
    BY <1>1, <2>1, <2>2
  <2>3. CASE i # 0
    <3>1. i \in 1..Len(s) /\ s[i] < s[j]
      BY <1>1, <1>2, <1>4, <1>5, <2>1, <2>3, KeysAre
    <3>2. ~(j < i) /\ j # i
      BY <1>1, <1>3, <3>1
    <3> QED BY <1>1, <2>1, <3>1, <3>2
  <2> QED BY <2>2, <2>3
<1>6. CASE i = Len(s)
  BY <1>1, <1>5, <1>6 DEF n
<1>7. CASE i # Len(s)
  <2>1. i + 1 \in 1..Len(s) /\ s[i + 1] \in Linked(0)
    BY <1>1, <1>7
  <2>2. n = head \/ n < s[i + 1]
    <3>1. i # 0 => i \in 1..Len(s) /\ i < i + 1
      BY <1>1
    <3> QED BY <1>2, <1>3, <2>1, <3>1
  <2>3. m # Nil /\ m <= s[i + 1]
    BY <1>1, <1>2, <2>1, <2>2, NextIsLeast
  <2>4. PICK j \in (i + 1)..Len(s) : m = s[j]
    BY <1>5, <2>3
  <2>5. j \in 1..Len(s) /\ (j = i + 1 \/ i + 1 < j)
    BY <1>1
  <2>6. j = i + 1
    BY <1>1, <1>3, <2>1, <2>3, <2>4, <2>5
  <2> QED BY <1>7, <2>4, <2>6 DEF n
<1> QED BY <1>6, <1>7


\* One element before a sequence.
LEMMA ConsIs ==
  ASSUME NEW T, NEW m \in T, NEW t \in Seq(T)
  PROVE  /\ <<m>> \o t \in Seq(T) /\ Len(<<m>> \o t) = Len(t) + 1
         /\ \A j \in 1..(Len(t) + 1) :
              (<<m>> \o t)[j] = IF j = 1 THEN m ELSE t[j - 1]
OBVIOUS

\* Two sequences with the same elements.
LEMMA SeqSame ==
  ASSUME NEW T, NEW s \in Seq(T), NEW t \in Seq(T), Len(s) = Len(t),
         \A j \in 1..Len(s) : s[j] = t[j]
  PROVE  s = t
OBVIOUS

\* What a listing has from place i on, and up to place i in the other order.
Suffix(s, i) == [j \in 1..(Len(s) + 1 - i) |-> s[i + j - 1]]

Reversed(s, i) == [j \in 1..i |-> s[i + 1 - j]]

LEMMA SuffixIs ==
  ASSUME NEW T, NEW s \in Seq(T)
  PROVE  /\ Suffix(s, Len(s) + 1) = <<>>
         /\ Suffix(s, 1) = s
         /\ \A i \in 1..Len(s) : Suffix(s, i) = <<s[i]>> \o Suffix(s, i + 1)
<1>1. Len(s) \in Nat /\ \A i \in 1..Len(s) : s[i] \in T
  OBVIOUS
<1>2. ASSUME NEW i \in 1..(Len(s) + 1)
      PROVE  /\ Suffix(s, i) \in Seq(T) /\ Len(Suffix(s, i)) = Len(s) + 1 - i
             /\ \A j \in 1..(Len(s) + 1 - i) : Suffix(s, i)[j] = s[i + j - 1]
  <2>1. Len(s) + 1 - i \in Nat
    BY <1>1
  <2>2. \A j \in 1..(Len(s) + 1 - i) : i + j - 1 \in 1..Len(s)
    BY <1>1
  <2> QED BY <1>1, <2>1, <2>2 DEF Suffix
<1>3. Suffix(s, Len(s) + 1) = <<>>
  <2>1. Len(s) + 1 \in 1..(Len(s) + 1) /\ Len(s) + 1 - (Len(s) + 1) = 0
    BY <1>1
  <2> QED BY <1>2, <2>1
<1>4. Suffix(s, 1) = s
  <2>1. 1 \in 1..(Len(s) + 1) /\ Len(s) + 1 - 1 = Len(s)
    BY <1>1
  <2>2. \A j \in 1..Len(s) : 1 + j - 1 = j
    BY <1>1
  <2> QED BY <1>2, <2>1, <2>2, SeqSame
<1>5. ASSUME NEW i \in 1..Len(s)
      PROVE  Suffix(s, i) = <<s[i]>> \o Suffix(s, i + 1)
  <2> DEFINE t == Suffix(s, i + 1)
             u == <<s[i]>> \o t
  <2>1. i \in 1..(Len(s) + 1) /\ i + 1 \in 1..(Len(s) + 1)
    BY <1>1
  <2>2. t \in Seq(T) /\ Len(t) = Len(s) - i
    BY <1>1, <1>2, <2>1
  <2>3. \A j \in 1..(Len(s) - i) : t[j] = s[i + j]
    <3> TAKE j \in 1..(Len(s) - i)
    <3>1. j \in 1..(Len(s) + 1 - (i + 1)) /\ i + 1 + j - 1 = i + j
      BY <1>1
    <3>2. t[j] = s[i + 1 + j - 1]
      BY <1>2, <2>1, <3>1
    <3> QED BY <3>1, <3>2
  <2> HIDE DEF t
  <2>4. /\ u \in Seq(T) /\ Len(u) = Len(t) + 1
        /\ \A j \in 1..(Len(t) + 1) : u[j] = IF j = 1 THEN s[i] ELSE t[j - 1]
    <3>1. s[i] \in T
      BY <1>1
    <3> QED BY <2>2, <3>1
  <2> HIDE DEF u
  <2>5. ASSUME NEW j \in 1..Len(u) PROVE u[j] = Suffix(s, i)[j]
    <3>1. j \in 1..(Len(s) + 1 - i)
      BY <1>1, <2>2, <2>4
    <3>2. Suffix(s, i)[j] = s[i + j - 1]
      BY <1>2, <2>1, <3>1
    <3>3. CASE j = 1
      BY <2>2, <2>4, <3>2, <3>3
    <3>4. CASE j # 1
      <4>1. j - 1 \in 1..(Len(s) - i) /\ i + (j - 1) = i + j - 1
        BY <1>1, <3>1, <3>4
      <4> QED BY <2>2, <2>3, <2>4, <3>1, <3>2, <3>4, <4>1
    <3> QED BY <3>3, <3>4
  <2>6. Len(u) = Len(Suffix(s, i)) /\ Suffix(s, i) \in Seq(T)
    BY <1>1, <1>2, <2>1, <2>2, <2>4
  <2>7. u = Suffix(s, i)
    BY <2>4, <2>5, <2>6, SeqSame
  <2> QED BY <2>7 DEF u, t
<1> QED BY <1>3, <1>4, <1>5

LEMMA ReversedIs ==
  ASSUME NEW T, NEW s \in Seq(T)
  PROVE  /\ Reversed(s, 0) = <<>>
         /\ \A i \in 1..Len(s) : Reversed(s, i) = <<s[i]>> \o Reversed(s, i - 1)
<1>1. Len(s) \in Nat /\ \A i \in 1..Len(s) : s[i] \in T
  OBVIOUS
<1>2. ASSUME NEW i \in 0..Len(s)
      PROVE  /\ Reversed(s, i) \in Seq(T) /\ Len(Reversed(s, i)) = i
             /\ \A j \in 1..i : Reversed(s, i)[j] = s[i + 1 - j]
  <2>1. i \in Nat /\ \A j \in 1..i : i + 1 - j \in 1..Len(s)
    BY <1>1
  <2> QED BY <1>1, <2>1 DEF Reversed
<1>3. Reversed(s, 0) = <<>>
  BY <1>1, <1>2
<1>4. ASSUME NEW i \in 1..Len(s)
      PROVE  Reversed(s, i) = <<s[i]>> \o Reversed(s, i - 1)
  <2> DEFINE t == Reversed(s, i - 1)
             u == <<s[i]>> \o t
  <2>1. i \in 0..Len(s) /\ i - 1 \in 0..Len(s)
    BY <1>1
  <2>2. /\ t \in Seq(T) /\ Len(t) = i - 1
        /\ \A j \in 1..(i - 1) : t[j] = s[i - 1 + 1 - j]
    BY <1>2, <2>1
  <2> HIDE DEF t
  <2>3. /\ u \in Seq(T) /\ Len(u) = Len(t) + 1
        /\ \A j \in 1..(Len(t) + 1) : u[j] = IF j = 1 THEN s[i] ELSE t[j - 1]
    <3>1. s[i] \in T
      BY <1>1
    <3> QED BY <2>2, <3>1
  <2> HIDE DEF u
  <2>4. ASSUME NEW j \in 1..Len(u) PROVE u[j] = Reversed(s, i)[j]
    <3>1. j \in 1..i /\ i + 1 - 1 = i
      BY <1>1, <2>2, <2>3
    <3>2. Reversed(s, i)[j] = s[i + 1 - j]
      BY <1>2, <2>1, <3>1
    <3>3. CASE j = 1
      BY <2>2, <2>3, <3>1, <3>2, <3>3
    <3>4. CASE j # 1
      <4>1. j - 1 \in 1..(i - 1) /\ i - 1 + 1 - (j - 1) = i + 1 - j
        BY <1>1, <3>1, <3>4
      <4> QED BY <2>2, <2>3, <3>1, <3>2, <3>4, <4>1
    <3> QED BY <3>3, <3>4
  <2>5. Len(u) = Len(Reversed(s, i)) /\ Reversed(s, i) \in Seq(T)
    BY <1>1, <1>2, <2>1, <2>2, <2>3
  <2>6. u = Reversed(s, i)
    BY <2>3, <2>4, <2>5, SeqSame
  <2> QED BY <2>6 DEF u, t
<1> QED BY <1>3, <1>4


\* No node is listed twice.
LEMMA ListedOnce ==
  ASSUME IInv, put.at = "idle", NEW s, Lists(s), NEW i \in 1..Len(s),
         NEW j \in 1..Len(s), s[i] = s[j]
  PROVE  i = j
<1>1. Len(s) \in Nat /\ s[i] \in Nat /\ s[j] \in Nat
  BY NodesOf
<1>2. (i < j => s[i] < s[j]) /\ (j < i => s[j] < s[i])
  BY DEF Lists
<1> QED BY <1>1, <1>2

\* sorted_entries() visits the keys of the listing.  That the recursion of the
\* walk has a solution is shown by giving one; that every solution is right
\* along the list, from its end.
LEMMA FromListing ==
  ASSUME IInv, TailInv, put.at = "idle", NEW s, Lists(s)
  PROVE  From(next[head][0]) = s
<1> DEFINE D == Key \cup {Nil, Uninit}
           G(w) == w = [m \in D |->
                          IF m \in Key THEN <<m>> \o w[next[m][0]] ELSE <<>>]
           walk == CHOOSE w : G(w)
           place(m) == CHOOSE i \in 1..Len(s) : s[i] = m
           W == [m \in D |-> IF m \in Key
                             THEN IF height[m] > 0 THEN Suffix(s, place(m)) ELSE <<m>>
                             ELSE <<>>]
<1>1. /\ s \in Seq(Key) /\ Len(s) \in Nat /\ 0 \in Heights
      /\ \A i \in 1..Len(s) : s[i] \in Key
      /\ \A m \in Key : height[m] \in Nat
  BY NodesOf, HeightsAre
<1>2. Nil \notin Key /\ Uninit \notin Key
  BY MemTableAssumption
<1>3. \A i \in 1..Len(s) :
        next[s[i]][0] = IF i = Len(s) THEN Nil ELSE s[i + 1]
  <2> TAKE i \in 1..Len(s)
  <2>1. i \in 0..Len(s) /\ i # 0
    BY <1>1
  <2>2. Nth(s, i) = s[i]
    BY <2>1 DEF Nth
  <2> QED BY <2>1, <2>2, AlongListing
<1>4. /\ Suffix(s, Len(s) + 1) = <<>> /\ Suffix(s, 1) = s
      /\ \A i \in 1..Len(s) : Suffix(s, i) = <<s[i]>> \o Suffix(s, i + 1)
  BY <1>1, SuffixIs
<1>5. \A i \in 1..Len(s) : place(s[i]) = i
  <2> TAKE i \in 1..Len(s)
  <2>1. \A j \in 1..Len(s) : s[j] = s[i] => j = i
    BY ListedOnce
  <2> QED BY <2>1
<1>6. G(W)
  <2>1. /\ W[Nil] = <<>> /\ W[Uninit] = <<>>
        /\ \A i \in 1..Len(s) : W[s[i]] = Suffix(s, i)
    <3>1. \A i \in 1..Len(s) : height[s[i]] > 0
      BY <1>1 DEF Lists
    <3> HIDE DEF place
    <3> QED BY <1>1, <1>2, <1>5, <3>1
  <2>2. ASSUME NEW m \in D
        PROVE  W[m] = IF m \in Key THEN <<m>> \o W[next[m][0]] ELSE <<>>
    <3>1. CASE m \notin Key
      BY <3>1
    <3>2. CASE m \in Key /\ height[m] > 0
      <4>1. PICK i \in 1..Len(s) : s[i] = m
        BY <3>2 DEF Lists
      <4>2. W[next[m][0]] = Suffix(s, i + 1)
        <5>1. CASE i = Len(s)
          BY <1>3, <1>4, <2>1, <4>1, <5>1
        <5>2. CASE i # Len(s)
          <6>1. i + 1 \in 1..Len(s)
            BY <1>1, <5>2
          <6>2. next[m][0] = s[i + 1]
            BY <1>3, <4>1, <5>2
          <6> QED BY <2>1, <6>1, <6>2
        <5> QED BY <5>1, <5>2
      <4>3. W[m] = Suffix(s, i)
        BY <2>1, <4>1
      <4> HIDE DEF W
      <4> QED BY <1>4, <3>2, <4>1, <4>2, <4>3
    <3>3. CASE m \in Key /\ ~(height[m] > 0)
      <4>1. 0 >= height[m]
        BY <1>1, <3>3
      <4>2. next[m][0] = Uninit
        BY <1>1, <3>3, <4>1 DEF TailInv
      <4>3. W[m] = <<m>> /\ W[next[m][0]] = <<>>
        BY <2>1, <3>3, <4>2
      <4>4. <<m>> = <<m>> \o <<>>
        OBVIOUS
      <4> HIDE DEF W
      <4> QED BY <3>3, <4>3, <4>4
    <3> QED BY <3>1, <3>2, <3>3
  <2>3. W = [m \in D |-> W[m]]
    OBVIOUS
  <2> HIDE DEF W, D
  <2> QED BY <2>2, <2>3
<1>7. G(walk)
  <2> HIDE DEF W
  <2>1. \E w : G(w)
    BY <1>6
  <2> HIDE DEF G
  <2> QED BY <2>1, Zenon
<1>8. From(next[head][0]) = walk[next[head][0]]
  BY Zenon DEF From
<1>9. /\ walk[Nil] = <<>>
      /\ \A i \in 1..Len(s) : walk[s[i]] = <<s[i]>> \o walk[next[s[i]][0]]
  <2> HIDE DEF walk
  <2> QED BY <1>1, <1>2, <1>7
<1> HIDE DEF walk, G
<1> DEFINE Bad == {i \in 1..Len(s) : walk[s[i]] # Suffix(s, i)}
<1>10. Bad = {}
  <2> SUFFICES ASSUME Bad # {} PROVE FALSE
    OBVIOUS
  <2>1. PICK i \in Bad : \A j \in Bad : j <= i
    <3>1. Bad \in SUBSET (0..Len(s))
      BY <1>1
    <3> HIDE DEF Bad
    <3> QED BY <1>1, <3>1, GreatestExists
  <2>2. walk[next[s[i]][0]] = Suffix(s, i + 1)
    <3>1. CASE i = Len(s)
      BY <1>3, <1>4, <1>9, <3>1
    <3>2. CASE i # Len(s)
      <4>1. i + 1 \in 1..Len(s) /\ i + 1 \notin Bad
        BY <1>1, <2>1, <3>2
      <4> QED BY <1>3, <3>2, <4>1
    <3> QED BY <3>1, <3>2
  <2> QED BY <1>4, <1>9, <2>1, <2>2
<1>11. next[head][0] = IF Len(s) = 0 THEN Nil ELSE s[1]
  <2>1. 0 \in 0..Len(s) /\ Nth(s, 0) = head
    BY <1>1 DEF Nth
  <2>2. next[Nth(s, 0)][0] = IF 0 = Len(s) THEN Nil ELSE s[0 + 1]
    BY <2>1, AlongListing
  <2> QED BY <2>1, <2>2
<1>12. CASE Len(s) = 0
  BY <1>4, <1>8, <1>9, <1>11, <1>12
<1>13. CASE Len(s) # 0
  <2>1. 1 \in 1..Len(s)
    BY <1>1, <1>13
  <2>2. walk[s[1]] = Suffix(s, 1)
    BY <1>10, <2>1
  <2> QED BY <1>4, <1>8, <1>11, <1>13, <2>2
<1> QED BY <1>12, <1>13


\* The place of the last listed key below the given one, or of the last key.
LastBelow(s, key, c) ==
  /\ c \in 0..Len(s)
  /\ \A i \in 1..Len(s) : (key = Nil \/ s[i] < key) <=> i <= c

\* What FindLessThan goes on to.
Under(n, key) == n \in Key /\ (key = Nil \/ n < key)

\* The search may stand here: at the head, or at a node below the key.
Standing(n, key) == n = head \/ (n \in Key /\ height[n] > 0 /\ Under(n, key))

\* A search that stands at a node only goes on to nodes, and when level 0
\* ends it has found the last one below the key.  From any other key it goes
\* nowhere.
LEMMA SearchFrom ==
  ASSUME IInv, TailInv, put.at = "idle", NEW s, Lists(s),
         NEW key \in Key \cup {Nil}, NEW c, LastBelow(s, key, c),
         NEW n \in Node, NEW j \in Heights
  PROVE  /\ ~Standing(n, key) => ~Under(next[n][j], key)
         /\ Under(next[n][j], key) => Standing(next[n][j], key)
         /\ Standing(n, key) /\ ~Under(next[n][0], key) => n = Nth(s, c)
<1>1. /\ s \in Seq(Key) /\ Len(s) \in Nat
      /\ \A i \in 1..Len(s) : s[i] \in Key /\ s[i] \in Nat
      /\ Linked(j) = {k \in Key : j < height[k]}
      /\ \A k \in Key : height[k] \in Nat
      /\ LevelsAreSorted
  BY NodesOf DEF IInv, ListInv
<1>2. j \in Nat /\ 0 \in Heights
  BY HeightsAre
<1>3. Uninit \notin Key /\ Nil \notin Key
  BY MemTableAssumption
<1>4. \A k \in Key : k \in Nat /\ k # head
  BY KeysAre
<1>5. n \in Key /\ j >= height[n] => next[n][j] = Uninit
  BY DEF TailInv
<1>6. n = head \/ (n \in Key /\ j < height[n]) =>
        /\ next[n][j] \in Linked(j) \cup {Nil}
        /\ next[n][j] # Nil => next[n][j] \in Nat /\ (n = head \/ n < next[n][j])
  <2>1. n = head \/ (n \in Key /\ j < height[n]) => n \in {head} \cup Linked(j)
    BY <1>1
  <2> QED BY <1>1, <2>1, NextIsLinked
<1>7. n = head \/ n \in Key
  BY DEF Node
<1>8. Under(next[n][j], key) => Standing(next[n][j], key) /\ Standing(n, key)
  <2> SUFFICES ASSUME Under(next[n][j], key)
               PROVE  Standing(next[n][j], key) /\ Standing(n, key)
    OBVIOUS
  <2> DEFINE m == next[n][j]
  <2>1. m \in Key /\ m # Uninit /\ m # Nil /\ (key = Nil \/ m < key)
    BY <1>3 DEF Under
  <2>2. n = head \/ (n \in Key /\ j < height[n])
    <3>1. n \in Key => height[n] \in Nat /\ (j >= height[n] \/ j < height[n])
      BY <1>1, <1>2
    <3> QED BY <1>5, <1>7, <2>1, <3>1
  <2>3. m \in Linked(j) /\ m \in Nat /\ (n = head \/ n < m)
    BY <1>6, <2>1, <2>2
  <2>4. height[m] > 0
    BY <1>1, <1>2, <2>3
  <2>5. Standing(m, key)
    BY <2>1, <2>4 DEF Standing, Under
  <2>6. CASE n = head
    BY <2>5, <2>6 DEF Standing
  <2>7. CASE n \in Key /\ j < height[n]
    <3>1. n \in Nat /\ height[n] > 0 /\ n < m
      BY <1>1, <1>2, <1>4, <2>3, <2>7
    <3>2. key = Nil \/ n < key
      BY <1>4, <2>1, <2>3, <3>1
    <3> QED BY <2>5, <2>7, <3>1, <3>2 DEF Standing, Under
  <2> QED BY <2>2, <2>6, <2>7
<1>9. ASSUME Standing(n, key), ~Under(next[n][0], key)
      PROVE  n = Nth(s, c)
  <2>1. c \in 0..Len(s) /\ \A i \in 1..Len(s) : (key = Nil \/ s[i] < key) <=> i <= c
    BY DEF LastBelow
  <2>2. PICK i \in 0..Len(s) : n = Nth(s, i) /\ i <= c
    <3>1. CASE n = head
      <4>1. 0 \in 0..Len(s) /\ 0 <= c /\ Nth(s, 0) = head
        BY <1>1, <2>1 DEF Nth
      <4> QED BY <3>1, <4>1
    <3>2. CASE n # head
      <4>1. n \in Key /\ height[n] > 0 /\ (key = Nil \/ n < key)
        BY <1>9, <3>2 DEF Standing, Under
      <4>2. PICK i \in 1..Len(s) : s[i] = n
        BY <4>1 DEF Lists
      <4>3. i <= c /\ i \in 0..Len(s) /\ i # 0
        BY <1>1, <2>1, <4>1, <4>2
      <4> QED BY <4>2, <4>3 DEF Nth
    <3> QED BY <3>1, <3>2
  <2>3. next[n][0] = IF i = Len(s) THEN Nil ELSE s[i + 1]
    BY <2>2, AlongListing
  <2>4. CASE i = Len(s)
    <3>1. i = c
      BY <1>1, <2>1, <2>2, <2>4
    <3> QED BY <2>2, <3>1
  <2>5. CASE i # Len(s)
    <3>1. i + 1 \in 1..Len(s)
      BY <1>1, <2>5
    <3>2. ~(key = Nil \/ s[i + 1] < key)
      BY <1>1, <1>9, <2>3, <2>5, <3>1 DEF Under
    <3>3. ~(i + 1 <= c)
      BY <2>1, <3>1, <3>2
    <3>4. i = c
      BY <1>1, <2>1, <2>2, <3>3
    <3> QED BY <2>2, <3>4
  <2> QED BY <2>4, <2>5
<1> QED BY <1>8, <1>9


\* FindLessThan finds the last node below the key, and FindLast the last one,
\* from whichever level the search starts.  Again a solution of the recursion
\* is given, and every solution is right: by level, and in a level from its end.
LEMMA FoundLessThan ==
  ASSUME IInv, TailInv, put.at = "idle", NEW s, Lists(s),
         NEW key \in Key \cup {Nil}, NEW c, LastBelow(s, key, c)
  PROVE  FindLessThan(key) = Nth(s, c)
<1> DEFINE D == Node \X Heights
           step(w, p) ==
             IF Under(next[p[1]][p[2]], key) THEN w[<<next[p[1]][p[2]], p[2]>>]
             ELSE IF p[2] = 0 THEN p[1] ELSE w[<<p[1], p[2] - 1>>]
           G(w) == w = [p \in D |-> step(w, p)]
           walk == CHOOSE w : G(w)
           W == [p \in D |-> IF Standing(p[1], key) THEN Nth(s, c) ELSE p[1]]
<1>1. ASSUME NEW n \in Node, NEW j \in Heights
      PROVE  /\ <<n, j>> \in D /\ j \in Nat
             /\ j # 0 => j - 1 \in Heights /\ <<n, j - 1>> \in D
             /\ Under(next[n][j], key) => <<next[n][j], j>> \in D
  BY MemTableAssumption DEF Heights, Under, Node
<1>2. ASSUME NEW n \in Node, NEW j \in Heights
      PROVE  /\ ~Standing(n, key) => ~Under(next[n][j], key)
             /\ Under(next[n][j], key) => Standing(next[n][j], key)
             /\ Standing(n, key) /\ ~Under(next[n][0], key) => n = Nth(s, c)
  BY SearchFrom
<1>3. G(W)
  <2>1. ASSUME NEW n \in Node, NEW j \in Heights
        PROVE  W[<<n, j>>] = step(W, <<n, j>>)
    <3>1. \A q \in D : W[q] = IF Standing(q[1], key) THEN Nth(s, c) ELSE q[1]
      OBVIOUS
    <3> HIDE DEF W, D
    <3>2. /\ <<n, j>>[1] = n /\ <<n, j>>[2] = j
          /\ <<n, j - 1>>[1] = n /\ <<next[n][j], j>>[1] = next[n][j]
      OBVIOUS
    <3>3. W[<<n, j>>] = IF Standing(n, key) THEN Nth(s, c) ELSE n
      BY <1>1, <3>1, <3>2
    <3>4. j # 0 => W[<<n, j - 1>>] = IF Standing(n, key) THEN Nth(s, c) ELSE n
      BY <1>1, <3>1, <3>2
    <3>5. Under(next[n][j], key) =>
            W[<<next[n][j], j>>] =
              IF Standing(next[n][j], key) THEN Nth(s, c) ELSE next[n][j]
      BY <1>1, <3>1, <3>2
    <3>6. step(W, <<n, j>>) =
            IF Under(next[n][j], key) THEN W[<<next[n][j], j>>]
            ELSE IF j = 0 THEN n ELSE W[<<n, j - 1>>]
      BY <3>2
    <3> HIDE DEF step
    <3>7. CASE Under(next[n][j], key)
      BY <1>2, <3>3, <3>5, <3>6, <3>7
    <3>8. CASE ~Under(next[n][j], key) /\ j # 0
      BY <3>3, <3>4, <3>6, <3>8
    <3>9. CASE ~Under(next[n][j], key) /\ j = 0
      BY <1>2, <3>3, <3>6, <3>9
    <3> QED BY <3>7, <3>8, <3>9
  <2>2. \A p \in D : \E n \in Node, j \in Heights : p = <<n, j>>
    OBVIOUS
  <2>3. \A p \in D : W[p] = step(W, p)
    <3> TAKE p \in D
    <3>1. PICK n \in Node, j \in Heights : p = <<n, j>>
      BY <2>2
    <3> HIDE DEF W, step
    <3> QED BY <2>1, <3>1
  <2>4. W = [p \in D |-> W[p]]
    OBVIOUS
  <2> HIDE DEF W, D, step
  <2> QED BY <2>3, <2>4
<1>4. G(walk)
  <2> HIDE DEF W
  <2>1. \E w : G(w)
    BY <1>3
  <2> HIDE DEF G
  <2> QED BY <2>1, Zenon
<1>5. FindLessThan(key) = walk[<<head, maxHeight - 1>>]
  BY Zenon DEF FindLessThan, Under
<1>6. ASSUME NEW n \in Node, NEW j \in Heights
      PROVE  walk[<<n, j>>] =
               IF Under(next[n][j], key) THEN walk[<<next[n][j], j>>]
               ELSE IF j = 0 THEN n ELSE walk[<<n, j - 1>>]
  <2> HIDE DEF walk
  <2>1. walk = [p \in D |-> step(walk, p)]
    BY <1>4
  <2>2. walk[<<n, j>>] = step(walk, <<n, j>>)
    <3>1. <<n, j>> \in D
      BY <1>1
    <3> HIDE DEF D, step
    <3> QED BY <2>1, <3>1
  <2> QED BY <2>2
<1> HIDE DEF walk, G, W, step, D
<1>7. /\ s \in Seq(Key) /\ Len(s) \in Nat
      /\ \A i \in 1..Len(s) : s[i] \in Key /\ s[i] \in Nat
  BY NodesOf
<1>8. /\ c \in 0..Len(s)
      /\ \A i \in 0..Len(s) : Nth(s, i) \in Node
      /\ \A i \in 0..Len(s) : Standing(Nth(s, i), key) <=> i <= c
  <2>1. c \in 0..Len(s) /\ \A i \in 1..Len(s) : (key = Nil \/ s[i] < key) <=> i <= c
    BY DEF LastBelow
  <2>2. \A i \in 1..Len(s) : height[s[i]] > 0 /\ s[i] # head
    BY <1>7, KeysAre DEF Lists
  <2>3. ASSUME NEW i \in 0..Len(s)
        PROVE  Nth(s, i) \in Node /\ (Standing(Nth(s, i), key) <=> i <= c)
    <3>1. CASE i = 0
      BY <1>7, <2>1, <3>1 DEF Nth, Node, Standing
    <3>2. CASE i # 0
      <4>1. i \in 1..Len(s) /\ Nth(s, i) = s[i]
        BY <1>7, <3>2 DEF Nth
      <4> QED BY <1>7, <2>1, <2>2, <4>1 DEF Node, Standing, Under
    <3> QED BY <3>1, <3>2
  <2> QED BY <2>1, <2>3
<1> DEFINE Bad == {j \in Heights :
                     \E i \in 0..Len(s) : i <= c /\ walk[<<Nth(s, i), j>>] # Nth(s, c)}
<1>9. Bad = {}
  <2> SUFFICES ASSUME Bad # {} PROVE FALSE
    OBVIOUS
  <2>1. PICK j \in Bad : \A l \in Bad : j <= l
    <3>1. Bad \in SUBSET Nat
      BY HeightsAre
    <3> HIDE DEF Bad
    <3> QED BY <3>1, LeastExists
  <2> DEFINE Off == {i \in 0..Len(s) : i <= c /\ walk[<<Nth(s, i), j>>] # Nth(s, c)}
  <2>2. PICK i \in Off : \A l \in Off : l <= i
    <3>1. Off \in SUBSET (0..Len(s)) /\ Off # {}
      BY <2>1
    <3> HIDE DEF Off
    <3> QED BY <1>7, <3>1, GreatestExists
  <2> DEFINE n == Nth(s, i)
             m == next[n][j]
  <2>3. j \in Heights /\ n \in Node /\ Standing(n, key)
    BY <1>8, <2>1, <2>2
  <2>4. CASE Under(m, key)
    <3>1. Standing(m, key) /\ m \in Key /\ m # head
      BY <1>2, <2>3, <2>4, KeysAre DEF Under
    <3>2. PICK l \in 1..Len(s) : s[l] = m
      BY <3>1 DEF Standing, Lists
    <3>3. l \in 0..Len(s) /\ Nth(s, l) = m /\ l <= c
      <4>1. l \in 0..Len(s) /\ l # 0
        BY <1>7
      <4>2. Nth(s, l) = m
        BY <3>2, <4>1 DEF Nth
      <4> QED BY <1>8, <3>1, <4>1, <4>2
    <3>4. i < l
      <4>1. i = 0 => i < l
        BY <1>7
      <4>2. i # 0 => i \in 1..Len(s) /\ n = s[i]
        BY <1>7 DEF Nth
      <4>3. n = head \/ n < m
        <5>1. m # Nil /\ m # Uninit
          BY <3>1, MemTableAssumption
        <5>2. n = head \/ n \in Linked(j)
          <6>1. Linked(j) = {k \in Key : j < height[k]} /\ \A k \in Key : height[k] \in Nat
            BY <2>3, NodesOf
          <6>2. j \in Nat
            BY <2>3, HeightsAre
          <6>3. n \in Key => ~(j >= height[n])
            BY <2>3, <5>1 DEF TailInv
          <6> QED BY <2>3, <6>1, <6>2, <6>3 DEF Node
        <5>3. LevelsAreSorted
          BY DEF IInv, ListInv
        <5> QED BY <2>3, <5>1, <5>2, <5>3, NextIsLinked
      <4>4. CASE i # 0
        <5>1. n \in Nat /\ n # head
          BY <1>7, <4>2, <4>4, KeysAre
        <5>2. s[i] < s[l]
          BY <3>2, <4>2, <4>3, <4>4, <5>1
        <5>3. (l < i => s[l] < s[i]) /\ (l = i => s[l] = s[i])
          BY <4>2, <4>4 DEF Lists
        <5>4. s[i] \in Nat /\ s[l] \in Nat /\ i \in Nat /\ l \in Nat
          BY <1>7, <4>2, <4>4
        <5> QED BY <5>2, <5>3, <5>4
      <4> QED BY <4>1, <4>4
    <3>5. l \notin Off
      <4>1. ~(l <= i)
        BY <1>7, <3>4
      <4> HIDE DEF Off
      <4> QED BY <2>2, <4>1
    <3>6. walk[<<m, j>>] = Nth(s, c)
      BY <3>3, <3>5
    <3>7. walk[<<n, j>>] = walk[<<m, j>>]
      BY <1>6, <2>3, <2>4
    <3> QED BY <2>2, <3>6, <3>7
  <2>5. CASE ~Under(m, key) /\ j = 0
    <3>1. walk[<<n, j>>] = n
      BY <1>6, <2>3, <2>5
    <3>2. n = Nth(s, c)
      BY <1>2, <2>3, <2>5
    <3> QED BY <2>2, <3>1, <3>2
  <2>6. CASE ~Under(m, key) /\ j # 0
    <3>1. j - 1 \in Heights /\ ~(j <= j - 1)
      <4>1. j \in Heights /\ j \in Nat /\ j # 0
        BY <2>3, <2>6, HeightsAre
      <4> HIDE DEF Bad, Off, n, m
      <4> QED BY <4>1, MemTableAssumption DEF Heights
    <3>2. j - 1 \notin Bad
      <4> HIDE DEF Bad
      <4> QED BY <2>1, <3>1
    <3>3. walk[<<n, j - 1>>] = Nth(s, c)
      BY <2>2, <3>1, <3>2
    <3>4. walk[<<n, j>>] = walk[<<n, j - 1>>]
      BY <1>6, <2>3, <2>6
    <3> QED BY <2>2, <3>3, <3>4
  <2> QED BY <2>4, <2>5, <2>6
<1>10. maxHeight - 1 \in Heights
  BY MemTableAssumption DEF IInv, TypeOK, Heights
<1>11. 0 \in 0..Len(s) /\ 0 <= c /\ Nth(s, 0) = head
  BY <1>7, <1>8 DEF Nth
<1> QED BY <1>5, <1>9, <1>10, <1>11


\* Some place of the listing is the last below a key.
LEMMA LastBelowExists ==
  ASSUME IInv, put.at = "idle", NEW s, Lists(s), NEW key \in Key
  PROVE  \E c \in 0..Len(s) : LastBelow(s, key, c)
<1> DEFINE P == {i \in 0..Len(s) : i = 0 \/ s[i] < key}
<1>1. Len(s) \in Nat /\ key \in Nat /\ \A i \in 1..Len(s) : s[i] \in Nat
  BY NodesOf, KeysAre
<1>2. PICK c \in P : \A i \in P : i <= c
  <2>1. P \in SUBSET (0..Len(s)) /\ 0 \in P
    BY <1>1
  <2> HIDE DEF P
  <2> QED BY <1>1, <2>1, GreatestExists
<1>3. ASSUME NEW i \in 1..Len(s) PROVE s[i] < key <=> i <= c
  <2>1. s[i] < key => i <= c
    <3>1. i \in 0..Len(s)
      BY <1>1
    <3> QED BY <1>2, <3>1
  <2>2. CASE i <= c
    <3>1. c \in 1..Len(s) /\ s[c] < key
      BY <1>1, <1>2, <2>2
    <3>2. i < c => s[i] < s[c]
      BY <3>1 DEF Lists
    <3>3. i = c \/ i < c
      BY <1>1, <2>2, <3>1
    <3> QED BY <1>1, <3>1, <3>2, <3>3
  <2> QED BY <2>1, <2>2
<1>4. c \in 0..Len(s) /\ key # Nil
  BY <1>1, <1>2, MemTableAssumption
<1> QED BY <1>3, <1>4 DEF LastBelow

\* The way back visits the listing in the other order.
LEMMA BackwardListing ==
  ASSUME IInv, TailInv, put.at = "idle", NEW s, Lists(s)
  PROVE  Backward = Reversed(s, Len(s))
<1> DEFINE G(w) == w = [m \in Node |->
                          IF m = head THEN <<>> ELSE <<m>> \o w[FindLessThan(m)]]
           walk == CHOOSE w : G(w)
           place(m) == CHOOSE c \in 0..Len(s) : LastBelow(s, m, c)
           W == [m \in Node |-> IF m = head THEN <<>>
                                ELSE <<m>> \o Reversed(s, place(m))]
<1>1. /\ s \in Seq(Key) /\ Len(s) \in Nat
      /\ \A i \in 1..Len(s) : s[i] \in Key /\ s[i] \in Nat /\ s[i] # head
  BY NodesOf, KeysAre
<1>2. /\ Reversed(s, 0) = <<>>
      /\ \A i \in 1..Len(s) : Reversed(s, i) = <<s[i]>> \o Reversed(s, i - 1)
  BY <1>1, ReversedIs
<1>3. ASSUME NEW m \in Key
      PROVE  /\ place(m) \in 0..Len(s)
             /\ LastBelow(s, m, place(m))
             /\ FindLessThan(m) = Nth(s, place(m))
  <2>1. place(m) \in 0..Len(s) /\ LastBelow(s, m, place(m))
    BY LastBelowExists
  <2> HIDE DEF place
  <2> QED BY <2>1, FoundLessThan
<1>4. ASSUME NEW i \in 1..Len(s) PROVE place(s[i]) = i - 1
  <2> DEFINE c == place(s[i])
  <2>1. c \in 0..Len(s) /\ LastBelow(s, s[i], c)
    BY <1>1, <1>3
  <2> HIDE DEF c
  <2>2. \A j \in 1..Len(s) : s[j] < s[i] <=> j <= c
    BY <1>1, <2>1, MemTableAssumption DEF LastBelow
  <2>3. ~(i <= c)
    BY <1>1, <2>2
  <2>4. i - 1 # 0 => i - 1 <= c
    <3>1. i - 1 # 0 => i - 1 \in 1..Len(s) /\ i - 1 < i
      BY <1>1
    <3>2. i - 1 # 0 => s[i - 1] < s[i]
      BY <3>1 DEF Lists
    <3> QED BY <2>2, <3>1, <3>2
  <2>5. c = i - 1
    BY <1>1, <2>1, <2>3, <2>4
  <2> QED BY <2>5 DEF c
<1>5. \A i \in 1..Len(s) : FindLessThan(s[i]) = Nth(s, i - 1)
  <2> HIDE DEF place
  <2> QED BY <1>1, <1>3, <1>4
<1>6. FindLessThan(Nil) = Nth(s, Len(s))
  <2>1. LastBelow(s, Nil, Len(s))
    BY <1>1 DEF LastBelow
  <2> QED BY <2>1, FoundLessThan
<1>7. G(W)
  <2>1. \A m \in Node : W[m] = IF m = head THEN <<>>
                               ELSE <<m>> \o Reversed(s, place(m))
    OBVIOUS
  <2>2. W = [m \in Node |-> W[m]] /\ head \in Node
    BY DEF Node
  <2> HIDE DEF W, place
  <2>3. ASSUME NEW c \in 0..Len(s) PROVE W[Nth(s, c)] = Reversed(s, c)
    <3>1. CASE c = 0
      BY <1>2, <2>1, <2>2, <3>1 DEF Nth
    <3>2. CASE c # 0
      <4>1. c \in 1..Len(s) /\ Nth(s, c) = s[c]
        BY <1>1, <3>2 DEF Nth
      <4>2. s[c] \in Node /\ s[c] # head
        BY <1>1, <4>1 DEF Node
      <4>3. W[s[c]] = <<s[c]>> \o Reversed(s, c - 1)
        BY <1>4, <2>1, <4>1, <4>2
      <4> QED BY <1>2, <4>1, <4>3
    <3> QED BY <3>1, <3>2
  <2>4. ASSUME NEW m \in Node
        PROVE  W[m] = IF m = head THEN <<>> ELSE <<m>> \o W[FindLessThan(m)]
    <3>1. CASE m = head
      BY <2>1, <3>1
    <3>2. CASE m # head
      <4>1. m \in Key
        BY <3>2 DEF Node
      <4>2. W[FindLessThan(m)] = Reversed(s, place(m))
        BY <1>3, <2>3, <4>1
      <4> QED BY <2>1, <3>2, <4>2
    <3> QED BY <3>1, <3>2
  <2> QED BY <2>2, <2>4, Zenon
<1>8. G(walk)
  <2> HIDE DEF W
  <2>1. \E w : G(w)
    BY <1>7
  <2> HIDE DEF G
  <2> QED BY <2>1, Zenon
<1>9. Backward = walk[FindLessThan(Nil)]
  BY Zenon DEF Backward
<1>10. \A m \in Node :
         walk[m] = IF m = head THEN <<>> ELSE <<m>> \o walk[FindLessThan(m)]
  <2> HIDE DEF walk
  <2> QED BY <1>8
<1> HIDE DEF walk, G, W, place
<1> DEFINE Bad == {c \in 0..Len(s) : walk[Nth(s, c)] # Reversed(s, c)}
<1>11. Bad = {}
  <2> SUFFICES ASSUME Bad # {} PROVE FALSE
    OBVIOUS
  <2>1. PICK c \in Bad : \A d \in Bad : c <= d
    <3>1. Bad \in SUBSET Nat
      BY <1>1
    <3> HIDE DEF Bad
    <3> QED BY <3>1, LeastExists
  <2>2. CASE c = 0
    <3>1. walk[head] = <<>>
      BY <1>10 DEF Node
    <3> QED BY <1>2, <2>1, <2>2, <3>1 DEF Nth
  <2>3. CASE c # 0
    <3>1. c \in 1..Len(s) /\ c - 1 \in 0..Len(s) /\ ~(c <= c - 1) /\ Nth(s, c) = s[c]
      BY <1>1, <2>1, <2>3 DEF Nth
    <3>2. walk[Nth(s, c - 1)] = Reversed(s, c - 1)
      BY <2>1, <3>1
    <3>3. walk[s[c]] = <<s[c]>> \o walk[Nth(s, c - 1)]
      <4>1. s[c] \in Node /\ s[c] # head
        BY <1>1, <3>1 DEF Node
      <4> QED BY <1>5, <1>10, <3>1, <4>1
    <3> QED BY <1>2, <2>1, <3>1, <3>2, <3>3
  <2> QED BY <2>2, <2>3
<1>12. Len(s) \in 0..Len(s)
  BY <1>1
<1> QED BY <1>6, <1>9, <1>11, <1>12

\* Between puts the entries that a flush writes are exactly what the puts
\* wrote, in the order of the keys, and the iterator's way back through the
\* levels visits them in the other order.
THEOREM FlushAlwaysSeesEveryPut == Spec => []FlushSeesEveryPut
<1>1. Init => TailInv
  BY InitTailInv
<1>2. ReadInv /\ TailInv /\ [Next]_vars => TailInv'
  BY TailStep DEF ReadInv
<1>3. ReadInv /\ TailInv => FlushSeesEveryPut
  <2> SUFFICES ASSUME IInv, DataInv, TailInv, put.at = "idle"
               PROVE  LET s == SortedEntries
                      IN  /\ \A i, j \in DOMAIN s : i < j => s[i].key < s[j].key
                          /\ \A k \in Key :
                               last[k] # NoView => \E i \in DOMAIN s : s[i].key = k
                          /\ \A i \in DOMAIN s : s[i].view = last[s[i].key]
                          /\ Backward = [i \in DOMAIN s |-> s[Len(s) + 1 - i].key]
    BY DEF ReadInv, FlushSeesEveryPut
  <2>1. PICK r : Lists(r)
    BY ListingExists DEF IInv
  <2> DEFINE s == SortedEntries
  <2>2. /\ r \in Seq(Key) /\ Len(r) \in Nat /\ DOMAIN r = 1..Len(r)
        /\ \A i \in 1..Len(r) : r[i] \in Key
        /\ Linked(0) = {r[i] : i \in 1..Len(r)}
    BY <2>1, NodesOf
  <2>3. s = [i \in 1..Len(r) |-> [key |-> r[i], view |-> view[r[i]]]]
    BY <2>1, <2>2, FromListing DEF SortedEntries
  <2>4. DOMAIN s = 1..Len(r) /\ Len(s) = Len(r)
    BY <2>2, <2>3
  <2>5. \A i \in 1..Len(r) : s[i].key = r[i] /\ s[i].view = view[r[i]]
    BY <2>3
  <2> HIDE DEF s
  <2>6. \A i, j \in DOMAIN s : i < j => s[i].key < s[j].key
    BY <2>1, <2>4, <2>5 DEF Lists
  <2>7. \A k \in Key : last[k] # NoView => \E i \in DOMAIN s : s[i].key = k
    BY <2>2, <2>4, <2>5 DEF DataInv
  <2>8. \A i \in DOMAIN s : s[i].view = last[s[i].key]
    <3>1. \A k \in Linked(0) : view[k] = last[k]
      <4>1. put.key = 0
        BY DEF DataInv, IdlePut
      <4>2. \A k \in Linked(0) : k # put.key
        BY <4>1, KeysAre DEF Linked
      <4> QED BY <4>2 DEF DataInv
    <3> QED BY <2>2, <2>4, <2>5, <3>1
  <2>9. Backward = [i \in DOMAIN s |-> s[Len(s) + 1 - i].key]
    <3>1. \A i \in 1..Len(r) : s[Len(r) + 1 - i].key = r[Len(r) + 1 - i]
      BY <2>2, <2>5
    <3>2. Reversed(r, Len(r)) = [i \in 1..Len(r) |-> s[Len(r) + 1 - i].key]
      BY <3>1 DEF Reversed
    <3> QED BY <2>1, <2>4, <3>2, BackwardListing
  <2> QED BY <2>6, <2>7, <2>8, <2>9 DEF s
<1> QED BY <1>1, <1>2, <1>3, AlwaysReadInv, PTL DEF Spec

=============================================================================
