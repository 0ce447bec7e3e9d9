------------------------------ MODULE SSTable ------------------------------
(***************************************************************************)
(* A table file (src/sstable.cpp): how create() cuts sorted entries into   *)
(* blocks with restart points, a sparse index and a bloom filter, and how  *)
(* get() and scan() find their way through them.                           *)
(*                                                                         *)
(* A key is a natural in the order of the strings, 0 the empty string.  An *)
(* entry is its key and the bytes it takes; what a key is found with is    *)
(* the number of its entry.  An offset within a block is the number of     *)
(* entries before it, so a restart point that equals the number of entries *)
(* of its block points behind the last one, at the array of the restart    *)
(* points themselves, where the reader finds a key of eight binary bytes.  *)
(***************************************************************************)
EXTENDS Integers, Sequences, FiniteSets

CONSTANTS Key,             \* the keys that are stored and asked for
          BlockTarget,     \* BLOCK_TARGET_BYTES (4096 in the code)
          RestartInterval, \* RESTART_INTERVAL (16)
          BitsPerKey,      \* BLOOM_BITS_PER_KEY (10)
          Hash,            \* the BLOOM_HASHES hash values of a key
          Tables           \* the sorted entries create() is called with

\* Bytes of a block header and of a restart point.
Header  == 8
Pointer == 4

\* The size is 8 + key.size() + value.size().
Entry == [key : Key, size : Nat \ {0}]

Ascending(s) == \A a, b \in DOMAIN s : a < b => s[a].key < s[b].key

ASSUME TableAssumption ==
  /\ Key \subseteq Nat \ {0}
  /\ BlockTarget \in Nat
  /\ RestartInterval \in Nat \ {0}
  /\ BitsPerKey \in Nat \ {0}
  /\ Hash \in [Key -> SUBSET Nat]
  /\ \A t \in Tables : t \in Seq(Entry) /\ t # <<>> /\ Ascending(t)

VARIABLES
  (* create() *)
  entries, \* the argument
  next,    \* the entry to be written next
  buf,     \* the block being filled: its first entry, the bytes, the number
           \* of entries and the restart points so far
  (* the file *)
  blocks,  \* first entry, number of entries, restart points of each block
           \* and the key that stands where its restart points begin
  bloom,   \* bytes of the filter and the bits that are set
  (* get() and scan() *)
  phase,   \* what is being done
  query,   \* the first and the last key asked for, and whether by get()
  block,   \* the block being searched
  left, right, \* the bounds of the binary search over its restart points
  pos,     \* entries of the block that have been passed
  rows     \* the entries found, in the order in which they were

fileVars  == <<entries, blocks, bloom>>
buildVars == <<next, buf>>
readVars  == <<query, block, left, right, pos, rows>>
vars      == <<fileVars, buildVars, phase, readVars>>

-----------------------------------------------------------------------------
(* create() *)

EmptyBuf(first) == [first |-> first, size |-> Header, n |-> 0,
                    restarts |-> <<0>>]

\* The restart points of the block when the next entry is looked at: a new
\* one is noted before it is known whether the entry fits.
RestartsNow ==
  IF buf.n > 0 /\ buf.n % RestartInterval = 0
  THEN Append(buf.restarts, buf.n) ELSE buf.restarts

\* The entry does not fit, and the block is not empty.
Overflows ==
  /\ buf.n > 0
  /\ buf.size + entries[next].size + Pointer * Len(RestartsNow) > BlockTarget

\* The block is full, or there is no other entry.
BlockEnds == buf.n > 0 /\ (next \in DOMAIN entries => Overflows)

AddEntry ==
  /\ phase = "write"
  /\ next <= Len(entries)
  /\ ~Overflows
  /\ buf' = [buf EXCEPT !.size = @ + entries[next].size, !.n = @ + 1,
                        !.restarts = RestartsNow]
  /\ next' = next + 1
  /\ UNCHANGED <<fileVars, phase, readVars>>

\* Mistake: the entry that did not fit is skipped.
CloseBlockSkips ==
  /\ phase = "write"
  /\ BlockEnds
  /\ blocks' = Append(blocks, [first |-> buf.first, n |-> buf.n,
                               restarts |-> buf.restarts, garbage |-> 0])
  /\ next' = next + 1
  /\ buf' = EmptyBuf(next + 1)
  /\ UNCHANGED <<entries, bloom, phase, readVars>>

\* Behind a restart point that has no entry the reader finds some key.
CloseBlock ==
  /\ phase = "write"
  /\ BlockEnds
  /\ LET points == IF next > Len(entries) THEN buf.restarts ELSE RestartsNow
     IN  \E g \in {0} \cup Key :
           /\ points[Len(points)] # buf.n => g = 0
           /\ blocks' = Append(blocks, [first |-> buf.first, n |-> buf.n,
                                        restarts |-> points, garbage |-> g])
  /\ buf' = EmptyBuf(next)
  /\ UNCHANGED <<entries, bloom, next, phase, readVars>>

\* The writer and the reader count the bits of the filter alike.
BloomBits(bytes) == bytes * 8

Bit(h, bits) == h % bits

\* The filter, the index and the footer; the file is synced and closed.
FinishFile ==
  /\ phase = "write"
  /\ next > Len(entries)
  /\ buf.n = 0
  /\ LET raw   == Len(entries) * BitsPerKey
         bytes == ((IF raw < 8 THEN 8 ELSE raw) + 7) \div 8
     IN  bloom' = [bytes |-> bytes,
                   set |-> {Bit(h, BloomBits(bytes)) :
                              h \in UNION {Hash[entries[e].key] :
                                             e \in DOMAIN entries}}]
  /\ phase' = "open"
  /\ UNCHANGED <<entries, blocks, buildVars, readVars>>

-----------------------------------------------------------------------------
(* get() and scan() *)

MayContain(k) == \A h \in Hash[k] : Bit(h, bloom.bytes * 8) \in bloom.set

\* min_key of a block, which is its entry in the index.
MinKey(b) == entries[blocks[b].first].key

\* The last block that begins at or before k, or the first one.
Locate(k) ==
  LET before == {b \in DOMAIN blocks : MinKey(b) <= k}
  IN  IF before = {} THEN 1 ELSE CHOOSE b \in before : \A c \in before : c <= b

\* The reader is at restart point 0 of a block, and has found r so far.
Enter(b, r) ==
  /\ block' = b
  /\ left' = 0
  /\ right' = Len(blocks[b].restarts)
  /\ rows' = r
  /\ pos' = 0
  /\ phase' = "probe"

\* The call is over.
Return(r) ==
  /\ rows' = r
  /\ phase' = "done"
  /\ UNCHANGED <<block, left, right, pos>>

Get(k) ==
  /\ phase = "open"
  /\ query' = [get |-> TRUE, start |-> k, end |-> k]
  /\ IF MayContain(k) THEN Enter(Locate(k), <<>>) ELSE Return(<<>>)
  /\ UNCHANGED <<fileVars, buildVars>>

\* max_key of a table is never read from the file, so it prunes nothing.
Scan(start, end) ==
  /\ phase = "open"
  /\ query' = [get |-> FALSE, start |-> start, end |-> end]
  /\ IF start > end \/ end < MinKey(1) \/ MinKey(Locate(start)) > end
     THEN Return(<<>>) ELSE Enter(Locate(start), <<>>)
  /\ UNCHANGED <<fileVars, buildVars>>

\* The key at restart point number r (from 0) of the block, as it is read.
KeyAt(r) ==
  LET b == blocks[block]
      p == b.restarts[r + 1]
  IN  IF p < b.n THEN entries[b.first + p].key ELSE b.garbage

\* One round of the binary search.
Probe ==
  /\ phase = "probe"
  /\ left < right
  /\ LET mid == (left + right) \div 2
     IN  IF KeyAt(mid) < query.start
         THEN left' = mid + 1 /\ UNCHANGED right
         ELSE right' = mid /\ UNCHANGED left
  /\ UNCHANGED <<fileVars, buildVars, phase, query, block, pos, rows>>

\* Mistake: the walk starts at the first restart point that is not smaller.
LandBehind ==
  /\ phase = "probe"
  /\ left = right
  /\ LET last == Len(blocks[block].restarts) - 1
     IN  pos' = blocks[block].restarts[(IF left < last THEN left ELSE last) + 1]
  /\ phase' = "walk"
  /\ UNCHANGED <<fileVars, buildVars, query, block, left, right, rows>>

\* The walk starts at the last restart point that is smaller.
Land ==
  /\ phase = "probe"
  /\ left = right
  /\ pos' = blocks[block].restarts[(IF left > 0 THEN left - 1 ELSE 0) + 1]
  /\ phase' = "walk"
  /\ UNCHANGED <<fileVars, buildVars, query, block, left, right, rows>>

\* The entry the walk has come to.
Here == blocks[block].first + pos

\* An entry that is too small is passed.
Pass ==
  /\ phase = "walk"
  /\ pos < blocks[block].n
  /\ entries[Here].key < query.start
  /\ pos' = pos + 1
  /\ UNCHANGED <<fileVars, buildVars, phase, query, block, left, right, rows>>

\* An entry that is asked for: get() returns, scan() goes on.
Hit ==
  /\ phase = "walk"
  /\ pos < blocks[block].n
  /\ entries[Here].key \in query.start..query.end
  /\ IF query.get THEN Return(Append(rows, Here))
     ELSE /\ rows' = Append(rows, Here)
          /\ pos' = pos + 1
          /\ UNCHANGED <<phase, block, left, right>>
  /\ UNCHANGED <<fileVars, buildVars, query>>

\* The block ends, or the entry is too large: scan() goes on with the next
\* block unless that begins behind the last key.
LeaveBlock ==
  /\ phase = "walk"
  /\ pos < blocks[block].n => entries[Here].key > query.end
  /\ IF ~query.get /\ block < Len(blocks) /\ MinKey(block + 1) <= query.end
     THEN Enter(block + 1, rows) ELSE Return(rows)
  /\ UNCHANGED <<fileVars, buildVars, query>>

\* The next call.
Again ==
  /\ phase = "done"
  /\ phase' = "open"
  /\ rows' = <<>>
  /\ query' = [get |-> TRUE, start |-> 0, end |-> 0]
  /\ block' = 1 /\ left' = 0 /\ right' = 0 /\ pos' = 0
  /\ UNCHANGED <<fileVars, buildVars>>

-----------------------------------------------------------------------------
Init ==
  /\ entries \in Tables
  /\ next = 1
  /\ buf = EmptyBuf(1)
  /\ blocks = <<>>
  /\ bloom = [bytes |-> 0, set |-> {}]
  /\ phase = "write"
  /\ query = [get |-> TRUE, start |-> 0, end |-> 0]
  /\ block = 1 /\ left = 0 /\ right = 0 /\ pos = 0
  /\ rows = <<>>

Create == AddEntry \/ CloseBlock \/ FinishFile

Read == Probe \/ Land \/ Pass \/ Hit \/ LeaveBlock

Next ==
  \/ Create
  \/ \E k \in Key : Get(k)
  \/ \E start, end \in {0} \cup Key : Scan(start, end)
  \/ Read
  \/ Again

Spec == Init /\ [][Next]_vars

-----------------------------------------------------------------------------
(* Properties. *)

\* The entries that are asked for, as the order of the table gives them.
Asked == {e \in DOMAIN entries : entries[e].key \in query.start..query.end}

Found == {rows[r] : r \in DOMAIN rows}

\* Every restart point of a block is that of an entry.
Sound(b) == \A r \in DOMAIN blocks[b].restarts : blocks[b].restarts[r] < blocks[b].n

\* get() finds a key if and only if it is in the table: neither the filter
\* nor the index nor the restart points hide one, in a table whose restart
\* points all have an entry.
GetOfSoundIsExact ==
  phase = "done" /\ query.get /\ (\A b \in DOMAIN blocks : Sound(b))
    => Found = Asked

\* scan() gives the entries from start to end, each once and in order, if
\* the restart points all have an entry or if start is the empty string, as
\* it is for a compaction and for anti-entropy.
ScanIsExact ==
  phase = "done" /\ ~query.get
  /\ (query.start = 0 \/ \A b \in DOMAIN blocks : Sound(b))
    => /\ Found = Asked
       /\ \A r, q \in DOMAIN rows : r < q => rows[r] < rows[q]

\* get() finds every key of every table.
GetIsExact == phase = "done" /\ query.get => Found = Asked

=============================================================================
