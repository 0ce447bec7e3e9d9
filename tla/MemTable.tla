------------------------------ MODULE MemTable ------------------------------
(***************************************************************************)
(* One memtable (src/memtable.cpp, src/skiplist.h) while a thread that     *)
(* holds writer_mutex_ puts into it and others read without a lock.        *)
(*                                                                         *)
(* A node is named by its key, a value is a string_view: the address of    *)
(* bytes in the arena and their number.  The writer links a new node level *)
(* by level, bottom up, and stores the two words of a view one after the   *)
(* other when it overwrites; the strings min_key_ and max_key_ are being   *)
(* assigned for a while, and what a reader compares with them then is      *)
(* arbitrary.  next_ pointers are atomic, the level max_height_ that a     *)
(* reader loads may be an older one.                                       *)
(***************************************************************************)
EXTENDS Arena

CONSTANTS Key,        \* keys, in the order of the strings
          KeySize,    \* the bytes of a key
          ValueSizes, \* the sizes of the values put on a key, 0 for remove()
          kMaxHeight, \* 12 in the code
          Reader,     \* threads that read
          Ranges,     \* the ranges scanned, pairs of keys
          head,       \* head_
          Nil,        \* the null Node*
          Uninit,     \* what a next_ pointer holds that was never set
          NoView,     \* no value
          MaxPuts     \* bound on the puts

ASSUME MemTableAssumption ==
  /\ Key \subseteq Nat \ {0}
  /\ KeySize \in [Key -> Nat \ {0}]
  /\ ValueSizes \in [Key -> SUBSET Nat]
  /\ kMaxHeight \in Nat \ {0}
  /\ Ranges \subseteq Key \X Key
  /\ head \notin Nat /\ Nil \notin Nat /\ Uninit \notin Nat
  /\ Nil # Uninit /\ head # Nil
  /\ NoView \notin [ptr : Address \cup {nullptr}, len : Nat]
  /\ MaxPuts \in Nat

VARIABLES
  arena,     \* arena_
  (* table_ *)
  next,      \* next[n][i]: the pointer of node n at level i
  height,    \* the height of the node of a key, 0 when there is none
  view,      \* the value of the node of a key
  maxHeight, \* max_height_
  (* the key range *)
  hasRange, minKey, maxKey,
  (* threads *)
  put,       \* the put under way: where it is and its local variables
  call,      \* call[r]: the same for the get or scan of reader r
  (* history and bound *)
  last,      \* the view that the last finished put of a key wrote
  puts

listVars  == <<next, height, view, maxHeight>>
rangeVars == <<hasRange, minKey, maxKey>>
histVars  == <<last, puts>>
vars      == <<arena, listVars, rangeVars, put, call, histVars>>

Heights == 0..(kMaxHeight - 1)

EmptyView == [ptr |-> nullptr, len |-> 0]

IdlePut == [at |-> "idle", key |-> 0, size |-> 0, node |-> head, level |-> 0,
            prev |-> [i \in Heights |-> Uninit], view |-> NoView,
            word |-> "none"]

IdleCall == [at |-> "idle", op |-> "none", from |-> 0, to |-> 0,
             node |-> head, level |-> 0, copied |-> {}, view |-> EmptyView,
             torn |-> FALSE, unsure |-> FALSE, rows |-> <<>>,
             allowed |-> [k \in Key |-> {}]]

-----------------------------------------------------------------------------
(* The skip list. *)

KeyIsAfterNode(key, n) == n # Nil /\ n < key

\* The bytes of a Node with its first pointer, and of every further one.
NodeSize(h) == 40 + Pointer * (h - 1)

\* The arena after the bytes of a key or value, none when it is empty.
Store(a, bytes) == IF bytes = 0 THEN [a EXCEPT !.result = nullptr]
                                ELSE Allocate(a, bytes)

\* NewNode takes the key, the value and the node from the arena, in this
\* order.
NewNode(a, keyBytes, valueBytes, h) ==
  AllocateAligned(Store(Store(a, keyBytes), valueBytes), NodeSize(h))

\* The view of the value NewNode copies.
NewView(a, keyBytes, valueBytes) ==
  [ptr |-> Store(Store(a, keyBytes), valueBytes).result, len |-> valueBytes]

\* Mistake: a height above the last level.
RandomHeightTooHigh == 1..(kMaxHeight + 1)

RandomHeight == 1..kMaxHeight

-----------------------------------------------------------------------------
(* put(key, value) and remove(key): Insert, then update_range. *)

\* A read that is under way may return what is written meanwhile.
Witness(k, v) ==
  call' = [r \in Reader |->
             IF call[r].at # "idle" /\ k \in call[r].from..call[r].to
             THEN [call[r] EXCEPT !.allowed[k] = @ \cup {v}] ELSE call[r]]

Put(k, size) ==
  /\ put.at = "idle"
  /\ puts < MaxPuts
  /\ put' = [IdlePut EXCEPT !.at = "find", !.key = k, !.size = size,
                            !.level = maxHeight - 1]
  /\ puts' = puts + 1
  /\ UNCHANGED <<arena, listVars, rangeVars, call, last>>

\* One turn of the loop of FindGreaterOrEqual, which collects prev.
PutFind ==
  /\ put.at = "find"
  /\ LET n == next[put.node][put.level]
     IN  put' = IF KeyIsAfterNode(put.key, n) THEN [put EXCEPT !.node = n]
                ELSE [put EXCEPT
                        !.prev[put.level] = put.node,
                        !.level = IF put.level > 0 THEN @ - 1 ELSE 0,
                        !.at = IF put.level > 0 THEN "find" ELSE "insert"]
  /\ UNCHANGED <<arena, listVars, rangeVars, call, histVars>>

\* Whether the search has found the node of the key.
Found == next[put.node][0] = put.key

\* The new value of an existing node is copied.
CopyValue ==
  /\ put.at = "insert"
  /\ Found
  /\ arena' = Store(arena, put.size)
  /\ LET v == [ptr |-> arena'.result, len |-> put.size]
     IN  put' = [put EXCEPT !.at = "first", !.view = v] /\ Witness(put.key, v)
  /\ UNCHANGED <<listVars, rangeVars, histVars>>

\* Mistake: the second word is forgotten.
StoredOnce(w) ==
  IF put.at = "second" THEN view ELSE [view EXCEPT ![put.key][w] = put.view[w]]

Stored(w) == [view EXCEPT ![put.key][w] = put.view[w]]

\* A word of the view is stored, the pointer or the length, in either order.
\* A read that has copied one word of it may now be torn.
StoreWord(w) ==
  /\ put.at \in {"first", "second"}
  /\ w # put.word
  /\ view' = Stored(w)
  /\ put' = [put EXCEPT !.word = w,
                        !.at = IF put.at = "first" THEN "second" ELSE "range"]
  /\ call' = [r \in Reader |->
                IF call[r].copied # {} /\ call[r].node = put.key
                THEN [call[r] EXCEPT !.torn = TRUE] ELSE call[r]]
  /\ UNCHANGED <<arena, next, height, maxHeight, rangeVars, histVars>>

\* Mistake: a new level of the list begins at the last node of the search.
PrevBehindLast(h) ==
  [i \in Heights |-> IF i \in maxHeight..(h - 1) THEN put.node ELSE put.prev[i]]

\* prev, with the head for the levels that the node adds to the list.
Prev(h) ==
  [i \in Heights |-> IF i \in maxHeight..(h - 1) THEN head ELSE put.prev[i]]

\* The node of a new key: its height, the new levels of the list, its
\* memory.  The first of its pointers is null, the others are whatever the
\* arena's bytes hold.
PlaceNode ==
  /\ put.at = "insert"
  /\ ~Found
  /\ \E h \in RandomHeight :
       LET v == NewView(arena, KeySize[put.key], put.size)
       IN  /\ arena' = NewNode(arena, KeySize[put.key], put.size, h)
           /\ height' = [height EXCEPT ![put.key] = h]
           /\ maxHeight' = IF h > maxHeight THEN h ELSE maxHeight
           /\ view' = [view EXCEPT ![put.key] = v]
           /\ next' = [next EXCEPT ![put.key] =
                         [i \in Heights |-> IF i = 0 THEN Nil ELSE Uninit]]
           /\ put' = [put EXCEPT !.at = "point", !.level = 0, !.view = v,
                                 !.prev = Prev(h)]
           /\ Witness(put.key, v)
  /\ UNCHANGED <<rangeVars, histVars>>

\* Mistake: a level is linked before the node points on.
SetNextTooEarly ==
  /\ \/ /\ put.at = "point"
        /\ next' = [next EXCEPT ![put.prev[put.level]][put.level] = put.key]
        /\ put' = [put EXCEPT !.at = "link"]
     \/ /\ put.at = "link"
        /\ next' = [next EXCEPT ![put.key][put.level] =
                      next[put.prev[put.level]][put.level]]
        /\ put' = IF put.level + 1 < height[put.key]
                  THEN [put EXCEPT !.at = "point", !.level = @ + 1]
                  ELSE [put EXCEPT !.at = "range"]
  /\ UNCHANGED <<arena, height, view, maxHeight, rangeVars, call, histVars>>

\* The two stores of a level: the node points where its predecessor does,
\* then the predecessor points to the node.
SetNext ==
  /\ \/ /\ put.at = "point"
        /\ next' = [next EXCEPT ![put.key][put.level] =
                      next[put.prev[put.level]][put.level]]
        /\ put' = [put EXCEPT !.at = "link"]
     \/ /\ put.at = "link"
        /\ next' = [next EXCEPT ![put.prev[put.level]][put.level] = put.key]
        /\ put' = IF put.level + 1 < height[put.key]
                  THEN [put EXCEPT !.at = "point", !.level = @ + 1]
                  ELSE [put EXCEPT !.at = "range"]
  /\ UNCHANGED <<arena, height, view, maxHeight, rangeVars, call, histVars>>

\* put() returns.
FinishPut ==
  /\ put' = IdlePut
  /\ last' = [last EXCEPT ![put.key] = put.view]

\* update_range up to the first assignment it makes, if any.
UpdateRange ==
  /\ put.at = "range"
  /\ IF ~hasRange \/ put.key < minKey
     THEN put' = [put EXCEPT !.at = "min"] /\ UNCHANGED last
     ELSE IF put.key > maxKey
     THEN put' = [put EXCEPT !.at = "max"] /\ UNCHANGED last
     ELSE FinishPut
  /\ UNCHANGED <<arena, listVars, rangeVars, call, puts>>

\* Mistake: the first key becomes the minimum only.
AssignMinOnly ==
  /\ put.at = "min"
  /\ minKey' = put.key
  /\ hasRange' = TRUE
  /\ FinishPut
  /\ UNCHANGED <<arena, listVars, maxKey, call, puts>>

\* While the put is at "min" the string is being assigned, and this ends it.
\* The first key is the maximum too.
AssignMin ==
  /\ put.at = "min"
  /\ minKey' = put.key
  /\ IF ~hasRange THEN put' = [put EXCEPT !.at = "max"] /\ UNCHANGED last
                  ELSE FinishPut
  /\ UNCHANGED <<arena, listVars, hasRange, maxKey, call, puts>>

AssignMax ==
  /\ put.at = "max"
  /\ maxKey' = put.key
  /\ hasRange' = TRUE
  /\ FinishPut
  /\ UNCHANGED <<arena, listVars, minKey, call, puts>>

-----------------------------------------------------------------------------
(* get(key) as get_crdt calls it, after a look at the range, and scan().   *)
(* A get is a search for the keys from key to key.                         *)

readUnchanged == <<arena, listVars, rangeVars, put, histVars>>

\* allowed[k] are the views of key k that the call may return: what the last
\* finished put wrote when it began, what the put under way writes, and what
\* has been written since.
Begin(r, op, at, from, to) ==
  call' = [call EXCEPT ![r] =
    [IdleCall EXCEPT
       !.at = at, !.op = op, !.from = from, !.to = to,
       !.allowed = [k \in Key |->
          IF k \notin from..to THEN {}
          ELSE {last[k]} \cup (IF put.key = k THEN {put.view} \ {NoView}
                                              ELSE {})]]]

\* has_range() is asked first.
BeginGet(r, k) ==
  /\ call[r].at = "idle"
  /\ Begin(r, "get", IF hasRange THEN "min" ELSE "done", k, k)
  /\ UNCHANGED readUnchanged

BeginScan(r) ==
  /\ call[r].at = "idle"
  /\ \E range \in Ranges :
       /\ range[1] <= range[2]
       /\ Begin(r, "scan", "start", range[1], range[2])
  /\ UNCHANGED readUnchanged

\* The result of a comparison with a string that may be being assigned.
Compared(assigning, truth) == IF put.at = assigning THEN BOOLEAN ELSE {truth}

\* key >= min_key() and then key <= max_key().
CheckRange(r) ==
  LET at == call[r].at
  IN  /\ at \in {"min", "max"}
      /\ \E inside \in Compared(at, IF at = "min" THEN call[r].from >= minKey
                                                  ELSE call[r].from <= maxKey) :
           call' = [call EXCEPT
             ![r].at = IF ~inside THEN "done"
                       ELSE IF at = "min" THEN "max" ELSE "start",
             ![r].unsure = @ \/ put.at = at]
      /\ UNCHANGED readUnchanged

\* GetMaxHeight, a relaxed load.
StartSearch(r) ==
  /\ call[r].at = "start"
  /\ \E h \in 1..maxHeight :
       call' = [call EXCEPT ![r].at = "find", ![r].level = h - 1]
  /\ UNCHANGED readUnchanged

\* Mistake: the last key of the range is left out.
VisitBefore(c, n) ==
  IF n # Nil /\ (n < c.to \/ n = c.from)
  THEN [c EXCEPT !.at = "copy", !.node = n, !.torn = FALSE]
  ELSE [c EXCEPT !.at = "done"]

\* The read comes to node n: it is in the range, or the read is over.
Visit(c, n) ==
  IF n # Nil /\ n <= c.to
  THEN [c EXCEPT !.at = "copy", !.node = n, !.torn = FALSE]
  ELSE [c EXCEPT !.at = "done"]

\* Mistake: the search comes to the end of a level and stays there.
SearchLevel(r) ==
  /\ call[r].at = "find"
  /\ LET c == call[r]
         n == next[c.node][c.level]
     IN  call' = [call EXCEPT ![r] =
                    IF KeyIsAfterNode(c.from, n) THEN [c EXCEPT !.node = n]
                    ELSE IF c.level > 0 THEN c
                    ELSE Visit(c, n)]
  /\ UNCHANGED readUnchanged

\* One turn of the loop of FindGreaterOrEqual.
Search(r) ==
  /\ call[r].at = "find"
  /\ LET c == call[r]
         n == next[c.node][c.level]
     IN  call' = [call EXCEPT ![r] =
                    IF KeyIsAfterNode(c.from, n) THEN [c EXCEPT !.node = n]
                    ELSE IF c.level > 0 THEN [c EXCEPT !.level = @ - 1]
                    ELSE Visit(c, n)]
  /\ UNCHANGED readUnchanged

\* One word of the view is copied; with the second the row is complete.
CopyWord(r, w) ==
  /\ call[r].at = "copy"
  /\ w \notin call[r].copied
  /\ LET c == call[r]
         v == [c.view EXCEPT ![w] = view[c.node][w]]
         t == c.torn \/ (put.at = "second" /\ put.key = c.node)
     IN  call' = [call EXCEPT ![r] =
           IF c.copied = {}
           THEN [c EXCEPT !.copied = {w}, !.view = v, !.torn = t]
           ELSE [c EXCEPT !.copied = {}, !.view = EmptyView,
                          !.at = IF c.op = "get" THEN "done" ELSE "next",
                          !.rows = Append(@, [key |-> c.node, view |-> v,
                                              torn |-> t])]]
  /\ UNCHANGED readUnchanged

\* Iterator::Next.
NextNode(r) ==
  /\ call[r].at = "next"
  /\ call' = [call EXCEPT ![r] = Visit(call[r], next[call[r].node][0])]
  /\ UNCHANGED readUnchanged

Return(r) ==
  /\ call[r].at = "done"
  /\ call' = [call EXCEPT ![r] = IdleCall]
  /\ UNCHANGED readUnchanged


-----------------------------------------------------------------------------
(* Walks over the list as it stands: sorted_entries(), which the worker    *)
(* calls on a frozen memtable, and the iterator's way back.  A pointer     *)
(* that was never set would end a walk: LevelsAreSorted says that none is  *)
(* met.                                                                    *)

Node == Key \cup {head}

\* The nodes from n on along level 0.
From(n) ==
  LET walk[m \in Key \cup {Nil, Uninit}] ==
        IF m \in Key THEN <<m>> \o walk[next[m][0]] ELSE <<>>
  IN  walk[n]

\* SeekToFirst and Next to the end.
SortedEntries ==
  LET s == From(next[head][0])
  IN  [i \in DOMAIN s |-> [key |-> s[i], view |-> view[s[i]]]]

\* FindLessThan, or FindLast when there is no key to stay below.
FindLessThan(key) ==
  LET below(n) == n \in Key /\ (key = Nil \/ n < key)
      walk[p \in Node \X Heights] ==
        LET n == next[p[1]][p[2]]
        IN  IF below(n) THEN walk[<<n, p[2]>>]
            ELSE IF p[2] = 0 THEN p[1] ELSE walk[<<p[1], p[2] - 1>>]
  IN  walk[<<head, maxHeight - 1>>]

\* SeekToLast and Prev to the beginning: the keys in the order visited.
Backward ==
  LET walk[m \in Node] ==
        IF m = head THEN <<>> ELSE <<m>> \o walk[FindLessThan(m)]
  IN  walk[FindLessThan(Nil)]

-----------------------------------------------------------------------------
Init ==
  /\ arena = NewNode(NewArena, 0, 0, kMaxHeight)
  /\ next = [n \in Node |-> [i \in Heights |-> IF n = head THEN Nil ELSE Uninit]]
  /\ height = [k \in Key |-> 0]
  /\ view = [k \in Key |-> EmptyView]
  /\ maxHeight = 1
  /\ hasRange = FALSE /\ minKey = 0 /\ maxKey = 0
  /\ put = IdlePut
  /\ call = [r \in Reader |-> IdleCall]
  /\ last = [k \in Key |-> NoView]
  /\ puts = 0

Words == {"ptr", "len"}

Writer ==
  \/ \E k \in Key : \E size \in ValueSizes[k] : Put(k, size)
  \/ PutFind \/ CopyValue \/ PlaceNode \/ SetNext
  \/ \E w \in Words : StoreWord(w)
  \/ UpdateRange \/ AssignMin \/ AssignMax

\* A step of a call that is under way.
ReadOn(r) ==
  \/ CheckRange(r) \/ StartSearch(r) \/ Search(r)
  \/ \E w \in Words : CopyWord(r, w)
  \/ NextNode(r) \/ Return(r)

Read(r) == (\E k \in Key : BeginGet(r, k)) \/ BeginScan(r) \/ ReadOn(r)

Next == Writer \/ \E r \in Reader : Read(r)

Spec == Init /\ [][Next]_vars

\* A reader is not blocked by anybody; of the writer nothing is assumed.
FairSpec == Spec /\ \A r \in Reader : WF_vars(ReadOn(r))

-----------------------------------------------------------------------------
(* Properties. *)

View == [ptr : Address \cup {nullptr}, len : Nat]

Link == Key \cup {Nil, Uninit}

Writing == [at : {"idle", "find", "insert", "first", "second", "point", "link",
                  "range", "min", "max"},
            key : Key \cup {0}, size : Nat, node : Node, level : Heights,
            prev : [Heights -> Node \cup {Uninit}], view : View \cup {NoView},
            word : Words \cup {"none"}]

Reading == [at : {"idle", "min", "max", "start", "find", "copy", "next", "done"},
            op : {"none", "get", "scan"}, from : Key \cup {0}, to : Key \cup {0},
            node : Node, level : Heights, copied : SUBSET Words, view : View,
            torn : BOOLEAN, unsure : BOOLEAN,
            rows : Seq([key : Key, view : View, torn : BOOLEAN]),
            allowed : [Key -> SUBSET (View \cup {NoView})]]

\* Every variable stays in its range; bytes and counters never go below zero.
TypeOK ==
  /\ arena \in Arenas
  /\ next \in [Node -> [Heights -> Link]]
  /\ height \in [Key -> 0..kMaxHeight]
  /\ view \in [Key -> View]
  /\ maxHeight \in 1..kMaxHeight
  /\ hasRange \in BOOLEAN
  /\ minKey \in Key \cup {0} /\ maxKey \in Key \cup {0}
  /\ put \in Writing
  /\ put.at # "idle" => put.key \in Key
  /\ call \in [Reader -> Reading]
  /\ \A r \in Reader : call[r].at # "idle" => call[r].from \in Key
  /\ last \in [Key -> View \cup {NoView}]
  /\ puts \in Nat

\* No piece of the arena overlaps another or leaves its block, and nodes are
\* aligned, over all mixtures of keys, values, heights and blocks.
ArenaIsSound == Sound(arena)

\* The nodes that are in the list of level i.
Linked(i) ==
  {k \in Key : /\ i < height[k]
               /\ put.at \in {"point", "link"} /\ k = put.key => i < put.level}

\* b is what comes after n in the set S of keys.
IsNext(n, b, S) ==
  LET above == {k \in S : n = head \/ n < k}
  IN  IF above = {} THEN b = Nil
      ELSE b \in above /\ \A k \in above : b <= k

\* Each level is the sorted list of the nodes that are that high, at every
\* moment of an insertion.
LevelsAreSorted ==
  \A i \in Heights : \A n \in {head} \cup Linked(i) :
    IsNext(n, next[n][i], Linked(i))

\* No reader stands where the next pointer it loads was never set.
NoWildPointer ==
  \A r \in Reader :
    LET c == call[r]
    IN  /\ c.at = "find" => next[c.node][c.level] # Uninit
        /\ c.at \in {"copy", "next"} => next[c.node][0] # Uninit

\* What a call may find for a key: a view that was current during the call;
\* if the key was overwritten while it copied the view, the pointer of one
\* such view and the length of another.
RowIsRegular(c, row) ==
  \E v, w \in c.allowed[row.key] \ {NoView} :
    /\ row.view = [ptr |-> v.ptr, len |-> w.len]
    /\ row.torn \/ v = w

\* A get finds a key whose put had returned, unless it compared with a bound
\* of the range that was being assigned, and gives a view that was current.
GetIsRegular ==
  \A r \in Reader :
    LET c == call[r]
    IN  c.op = "get" /\ c.at = "done" =>
          IF c.rows = <<>> THEN NoView \in c.allowed[c.from] \/ c.unsure
          ELSE /\ Len(c.rows) = 1
               /\ c.rows[1].key = c.from
               /\ RowIsRegular(c, c.rows[1])

\* A scan gives keys of its range in ascending order, every one whose put had
\* returned among them, each with a view that was current.
ScanIsRegular ==
  \A r \in Reader :
    LET c == call[r]
    IN  c.op = "scan" /\ c.at = "done" =>
          /\ \A i, j \in DOMAIN c.rows : i < j => c.rows[i].key < c.rows[j].key
          /\ \A i \in DOMAIN c.rows : /\ c.rows[i].key \in c.from..c.to
                                      /\ RowIsRegular(c, c.rows[i])
          /\ \A k \in Key \cap (c.from..c.to) :
               NoView \in c.allowed[k] \/ \E i \in DOMAIN c.rows : c.rows[i].key = k

\* Between puts, as when the memtable is flushed, the entries are exactly
\* what the puts wrote, and the way back visits them in the other order.
FlushSeesEveryPut ==
  put.at = "idle" =>
    LET s == SortedEntries
    IN  /\ \A i, j \in DOMAIN s : i < j => s[i].key < s[j].key
        /\ \A k \in Key : last[k] # NoView => \E i \in DOMAIN s : s[i].key = k
        /\ \A i \in DOMAIN s : s[i].view = last[s[i].key]
        /\ Backward = [i \in DOMAIN s |-> s[Len(s) + 1 - i].key]

\* Reads are lock-free: a call returns though the writer may stop anywhere in
\* a put, with a node half linked or a range string half assigned.
ReadsReturn == \A r \in Reader : call[r].at # "idle" ~> call[r].at = "idle"

=============================================================================
