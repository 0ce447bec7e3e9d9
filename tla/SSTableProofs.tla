--------------------------- MODULE SSTableProofs ---------------------------
(***************************************************************************)
(* Theorems about SSTable, for every table, block size, restart interval   *)
(* and filter.                                                             *)
(***************************************************************************)
EXTENDS SSTable, LeastNumber

-----------------------------------------------------------------------------
(* The inductive invariant. *)

TypeInv ==
  /\ entries \in Tables
  /\ next \in Nat
  /\ buf \in [first : Nat, size : Nat, n : Nat, restarts : Seq(Nat)]
  /\ blocks \in Seq([first : Nat, n : Nat, restarts : Seq(Nat),
                     garbage : {0} \cup Key])
  /\ bloom \in [bytes : Nat, set : SUBSET Nat]
  /\ phase \in {"write", "open", "probe", "walk", "done"}
  /\ query \in [get : BOOLEAN, start : {0} \cup Key, end : {0} \cup Key]
  /\ block \in Nat /\ left \in Nat /\ right \in Nat /\ pos \in Nat
  /\ rows \in Seq(Nat)

\* The entry behind a block.
End(b) == blocks[b].first + blocks[b].n

\* The blocks, and then the one being filled, follow each other without a gap.
FileInv ==
  /\ buf.first >= 1 /\ next = buf.first + buf.n /\ next <= Len(entries) + 1
  /\ buf.restarts # <<>> /\ buf.restarts[1] = 0
  /\ IF blocks = <<>> THEN buf.first = 1
                      ELSE blocks[1].first = 1 /\ End(Len(blocks)) = buf.first
  /\ \A b \in DOMAIN blocks :
       /\ blocks[b].first >= 1 /\ blocks[b].n >= 1 /\ End(b) <= buf.first
       /\ blocks[b].restarts # <<>> /\ blocks[b].restarts[1] = 0
       /\ b + 1 \in DOMAIN blocks => blocks[b + 1].first = End(b)

\* The filter has the bits of every key.
FilterInv ==
  \A e \in DOMAIN entries : \A h \in Hash[entries[e].key] :
    Bit(h, bloom.bytes * 8) \in bloom.set

ClosedInv ==
  phase # "write" => next = Len(entries) + 1 /\ buf.n = 0 /\ FilterInv

\* The call is one that the restart points cannot mislead.
Safe == query.start = 0 \/ \A b \in DOMAIN blocks : Sound(b)

\* What is found is what is asked for among the entries before m.
Exactly(m) ==
  /\ Found = {e \in Asked : e < m}
  /\ \A r, q \in DOMAIN rows : r < q => rows[r] < rows[q]

\* A get reads one block: the next one begins behind its key.
GetInv ==
  query.get =>
    /\ query.start = query.end /\ rows = <<>>
    /\ block < Len(blocks) => MinKey(block + 1) > query.end

ProbeInv ==
  /\ block \in DOMAIN blocks
  /\ GetInv
  /\ left <= right /\ right <= Len(blocks[block].restarts)
  /\ left > 0 => KeyAt(left - 1) < query.start
  /\ Safe => Exactly(blocks[block].first)

WalkInv ==
  /\ block \in DOMAIN blocks
  /\ GetInv
  /\ Safe => pos <= blocks[block].n /\ Exactly(Here)

CallInv ==
  /\ phase = "probe" => ProbeInv
  /\ phase = "walk" => WalkInv
  /\ phase = "done" /\ Safe => Exactly(Len(entries) + 1)

Inv == TypeInv /\ FileInv /\ ClosedInv /\ CallInv

-----------------------------------------------------------------------------
(* What the types say. *)

BlockSet == [first : Nat, n : Nat, restarts : Seq(Nat), garbage : {0} \cup Key]

LEMMA EntriesAre ==
  ASSUME TypeInv
  PROVE  /\ entries \in Seq(Entry) /\ Len(entries) \in Nat /\ Len(entries) >= 1
         /\ DOMAIN entries = 1..Len(entries)
         /\ \A e \in DOMAIN entries :
              /\ entries[e].key \in Key /\ entries[e].key \in Nat
              /\ entries[e].size \in Nat
         /\ \A e, f \in DOMAIN entries : e < f => entries[e].key < entries[f].key
<1>1. /\ entries \in Seq(Entry) /\ entries # <<>> /\ Ascending(entries)
      /\ Key \subseteq Nat
  BY TableAssumption DEF TypeInv
<1>2. Len(entries) \in Nat /\ DOMAIN entries = 1..Len(entries) /\ Len(entries) # 0
  BY <1>1
<1>3. \A e \in DOMAIN entries : entries[e] \in Entry
  BY <1>1
<1>4. ASSUME NEW e \in DOMAIN entries
      PROVE  /\ entries[e].key \in Key /\ entries[e].key \in Nat
             /\ entries[e].size \in Nat
  BY <1>1, <1>3 DEF Entry
<1>5. Len(entries) >= 1
  BY <1>2
<1>6. \A e, f \in DOMAIN entries : e < f => entries[e].key < entries[f].key
  BY <1>1 DEF Ascending
<1> QED BY <1>1, <1>2, <1>4, <1>5, <1>6

LEMMA BlocksAre ==
  ASSUME TypeInv, FileInv
  PROVE  /\ Len(blocks) \in Nat /\ DOMAIN blocks = 1..Len(blocks)
         /\ blocks # <<>> => Len(blocks) >= 1
         /\ \A b \in DOMAIN blocks :
              /\ blocks[b] \in BlockSet
              /\ blocks[b].first \in Nat /\ blocks[b].n \in Nat
              /\ blocks[b].restarts \in Seq(Nat)
              /\ blocks[b].garbage \in Nat
              /\ blocks[b].first \in DOMAIN entries /\ End(b) <= Len(entries) + 1
         /\ buf.first \in Nat /\ buf.n \in Nat /\ buf.size \in Nat
         /\ buf.restarts \in Seq(Nat)
<1>1. blocks \in Seq(BlockSet) /\ Key \subseteq Nat
  BY TableAssumption DEF TypeInv, BlockSet
<1>2. Len(blocks) \in Nat /\ DOMAIN blocks = 1..Len(blocks)
  BY <1>1
<1>3. blocks # <<>> => Len(blocks) >= 1
  BY <1>1, <1>2
<1>4. \A b \in DOMAIN blocks : blocks[b] \in BlockSet
  BY <1>1
<1>5. buf.first \in Nat /\ buf.n \in Nat /\ buf.size \in Nat /\ buf.restarts \in Seq(Nat)
  BY DEF TypeInv
<1>6. ASSUME NEW b \in DOMAIN blocks
      PROVE  blocks[b].first \in DOMAIN entries /\ End(b) <= Len(entries) + 1
  <2>1. /\ blocks[b].first >= 1 /\ blocks[b].n >= 1 /\ End(b) <= buf.first
        /\ next = buf.first + buf.n /\ next <= Len(entries) + 1
    BY DEF FileInv
  <2> QED BY <1>4, <1>5, <2>1, EntriesAre DEF End, BlockSet
<1>7. ASSUME NEW b \in DOMAIN blocks
      PROVE  /\ blocks[b] \in BlockSet
             /\ blocks[b].first \in Nat /\ blocks[b].n \in Nat
             /\ blocks[b].restarts \in Seq(Nat) /\ blocks[b].garbage \in Nat
  <2>1. blocks[b] \in BlockSet /\ {0} \cup Key \subseteq Nat
    BY <1>1, <1>4
  <2> QED BY <2>1 DEF BlockSet
<1> QED BY <1>2, <1>3, <1>5, <1>6, <1>7

\* The restart points of the block being filled, with the one noted last.
LEMMA RestartsAre ==
  ASSUME TypeInv, FileInv
  PROVE  /\ RestartsNow \in Seq(Nat) /\ RestartsNow # <<>> /\ RestartsNow[1] = 0
         /\ buf.restarts \in Seq(Nat) /\ buf.restarts # <<>> /\ buf.restarts[1] = 0
<1>1. buf.restarts \in Seq(Nat) /\ buf.n \in Nat
      /\ buf.restarts # <<>> /\ buf.restarts[1] = 0
  BY DEF TypeInv, FileInv
<1>2. ASSUME NEW s \in Seq(Nat), s # <<>>, s[1] = 0, NEW p \in Nat
      PROVE  /\ Append(s, p) \in Seq(Nat) /\ Append(s, p) # <<>> /\ Append(s, p)[1] = 0
  <2>1. Len(s) \in Nat /\ Len(s) # 0
    BY <1>2
  <2>2. Append(s, p)[1] = s[1]
    BY <2>1
  <2>3. Len(Append(s, p)) = Len(s) + 1
    OBVIOUS
  <2> QED BY <1>2, <2>1, <2>2, <2>3
<1> QED BY <1>1, <1>2 DEF RestartsNow

-----------------------------------------------------------------------------
(* create() *)

LEMMA AddEntryInv ==
  ASSUME Inv, AddEntry
  PROVE  Inv'
<1>1. /\ TypeInv /\ FileInv /\ phase = "write" /\ next \in DOMAIN entries
      /\ next \in Nat /\ next <= Len(entries) /\ Len(entries) \in Nat
  <2>1. /\ TypeInv /\ FileInv /\ phase = "write" /\ next <= Len(entries)
    BY DEF Inv, AddEntry
  <2>2. next \in Nat /\ next >= 1
    BY <2>1 DEF TypeInv, FileInv
  <2> QED BY <2>1, <2>2, EntriesAre
<1>2. /\ buf.first \in Nat /\ buf.n \in Nat /\ buf.size \in Nat
      /\ next = buf.first + buf.n
  BY <1>1 DEF TypeInv, FileInv
<1>3. /\ buf'.first = buf.first /\ buf'.n = buf.n + 1 /\ next' = next + 1
      /\ buf'.restarts = RestartsNow
      /\ buf' \in [first : Nat, size : Nat, n : Nat, restarts : Seq(Nat)]
  <2>1. entries[next].size \in Nat /\ RestartsNow \in Seq(Nat)
    BY <1>1, EntriesAre, RestartsAre
  <2>2. buf' = [buf EXCEPT !.size = @ + entries[next].size, !.n = @ + 1,
                           !.restarts = RestartsNow]
    BY DEF AddEntry
  <2>3. buf.size + entries[next].size \in Nat /\ buf.n + 1 \in Nat
    BY <1>2, <2>1
  <2>4. buf \in [first : Nat, size : Nat, n : Nat, restarts : Seq(Nat)]
    BY <1>1 DEF TypeInv
  <2> QED BY <2>1, <2>2, <2>3, <2>4 DEF AddEntry
<1>4. UNCHANGED <<entries, blocks, bloom, phase, query, block, left, right, pos, rows>>
  BY DEF AddEntry, fileVars, readVars
<1>5. TypeInv'
  BY <1>1, <1>3, <1>4 DEF TypeInv
<1>6. FileInv'
  <2>1. RestartsNow # <<>> /\ RestartsNow[1] = 0
    BY <1>1, RestartsAre
  <2>2. \A b : End(b)' = End(b)
    BY <1>4 DEF End
  <2>3. next' = buf'.first + buf'.n /\ next' <= Len(entries') + 1
    BY <1>1, <1>2, <1>3, <1>4
  <2> QED BY <1>1, <1>3, <1>4, <2>1, <2>2, <2>3 DEF FileInv
<1> QED BY <1>1, <1>4, <1>5, <1>6 DEF Inv, ClosedInv, CallInv

LEMMA CloseBlockInv ==
  ASSUME Inv, CloseBlock
  PROVE  Inv'
<1>1. /\ TypeInv /\ FileInv /\ phase = "write" /\ buf.n > 0
  BY DEF Inv, CloseBlock, BlockEnds
<1>2. PICK points \in {buf.restarts, RestartsNow}, g \in {0} \cup Key :
        blocks' = Append(blocks, [first |-> buf.first, n |-> buf.n,
                                  restarts |-> points, garbage |-> g])
  BY DEF CloseBlock
<1> DEFINE last == [first |-> buf.first, n |-> buf.n,
                    restarts |-> points, garbage |-> g]
<1>3. /\ points \in Seq(Nat) /\ points # <<>> /\ points[1] = 0
  BY <1>1, RestartsAre
<1>4. /\ buf.first \in Nat /\ buf.n \in Nat /\ buf.first >= 1
      /\ next = buf.first + buf.n /\ next \in Nat /\ next <= Len(entries) + 1
  BY <1>1 DEF TypeInv, FileInv
<1>5. last \in BlockSet /\ blocks \in Seq(BlockSet)
  BY <1>1, <1>3, <1>4 DEF BlockSet, TypeInv
<1>6. /\ last.first = buf.first /\ last.n = buf.n /\ last.restarts = points
  OBVIOUS
<1>7. buf' = EmptyBuf(next) /\ next' = next
      /\ UNCHANGED <<entries, bloom, phase, query, block, left, right, pos, rows>>
  BY DEF CloseBlock, readVars
<1>8. /\ buf'.first = next /\ buf'.n = 0 /\ buf'.restarts = <<0>>
      /\ buf' \in [first : Nat, size : Nat, n : Nat, restarts : Seq(Nat)]
  BY <1>4, <1>7 DEF EmptyBuf, Header
<1> HIDE DEF last
<1> PICK m \in Nat : m = Len(blocks)
  BY <1>5
<1>9. /\ blocks' \in Seq(BlockSet) /\ m \in Nat /\ Len(blocks') = m + 1
      /\ DOMAIN blocks' = 1..(m + 1) /\ DOMAIN blocks = 1..m
      /\ blocks'[m + 1] = last
      /\ \A b \in 1..m : blocks'[b] = blocks[b]
  BY <1>2, <1>5 DEF last
<1>10. TypeInv'
  BY <1>1, <1>4, <1>7, <1>8, <1>9 DEF TypeInv, BlockSet
<1>11. FileInv'
  <2>1. End(m + 1)' = next /\ \A b \in 1..m : End(b)' = End(b)
    BY <1>4, <1>6, <1>9 DEF End
  <2>2. blocks' # <<>>
    BY <1>9
  <2>3. blocks = <<>> => m = 0 /\ buf.first = 1
    BY <1>1 DEF FileInv
  <2>4. blocks # <<>> => m >= 1 /\ blocks[1].first = 1 /\ End(m) = buf.first
    BY <1>1, <1>5 DEF FileInv
  <2>5. blocks'[1].first = 1
    BY <1>6, <1>9, <2>3, <2>4
  <2>6. End(Len(blocks))' = buf'.first
    BY <1>8, <1>9, <2>1
  <2>7. ASSUME NEW b \in DOMAIN blocks'
        PROVE  /\ blocks'[b].first >= 1 /\ blocks'[b].n >= 1 /\ End(b)' <= buf'.first
               /\ blocks'[b].restarts # <<>> /\ blocks'[b].restarts[1] = 0
               /\ b + 1 \in DOMAIN blocks' => blocks'[b + 1].first = End(b)'
    <3>1. CASE b = m + 1
      BY <1>1, <1>3, <1>4, <1>6, <1>8, <1>9, <2>1, <3>1
    <3>2. CASE b \in 1..m
      <4>1. /\ blocks[b].first >= 1 /\ blocks[b].n >= 1 /\ End(b) <= buf.first
            /\ blocks[b].restarts # <<>> /\ blocks[b].restarts[1] = 0
            /\ b + 1 \in DOMAIN blocks => blocks[b + 1].first = End(b)
        BY <1>1, <1>9, <3>2 DEF FileInv
      <4>2. End(b) \in Nat /\ End(b) <= next
        <5>1. blocks[b].first \in Nat /\ blocks[b].n \in Nat
          BY <1>1, <1>9, <3>2, BlocksAre
        <5>2. End(b) \in Nat
          BY <5>1 DEF End
        <5> QED BY <1>1, <1>4, <4>1, <5>2
      <4>3. b = m => blocks'[b + 1].first = End(b)
        BY <1>6, <1>9, <2>4, <3>2, <2>3
      <4>4. b # m => b + 1 \in 1..m
        BY <1>9, <3>2
      <4> QED BY <1>8, <1>9, <2>1, <3>2, <4>1, <4>2, <4>3, <4>4
    <3> QED BY <1>9, <3>1, <3>2
  <2>8. /\ buf'.first >= 1 /\ next' = buf'.first + buf'.n /\ next' <= Len(entries') + 1
        /\ buf'.restarts # <<>> /\ buf'.restarts[1] = 0
    BY <1>4, <1>7, <1>8
  <2> QED BY <2>2, <2>5, <2>6, <2>7, <2>8 DEF FileInv
<1> QED BY <1>1, <1>7, <1>10, <1>11 DEF Inv, ClosedInv, CallInv


\* The bits of every key are in the filter.
LEMMA FinishFileInv ==
  ASSUME Inv, FinishFile
  PROVE  Inv'
<1>1. /\ TypeInv /\ FileInv /\ next > Len(entries) /\ buf.n = 0
      /\ next <= Len(entries) + 1 /\ next \in Nat /\ Len(entries) \in Nat
  BY EntriesAre DEF Inv, FinishFile, FileInv, TypeInv
<1> DEFINE raw   == Len(entries) * BitsPerKey
           bytes == ((IF raw < 8 THEN 8 ELSE raw) + 7) \div 8
           keys  == UNION {Hash[entries[e].key] : e \in DOMAIN entries}
           set   == {Bit(h, BloomBits(bytes)) : h \in keys}
<1>2. bloom' = [bytes |-> bytes, set |-> set] /\ phase' = "open"
      /\ UNCHANGED <<entries, blocks, next, buf, query, block, left, right, pos, rows>>
  BY DEF FinishFile, buildVars, readVars
<1>3. bytes \in Nat /\ bytes * 8 > 0 /\ bytes * 8 \in Nat
  <2>1. raw \in Nat
    BY <1>1, TableAssumption
  <2> HIDE DEF raw
  <2> QED BY <2>1
<1>4. \A e \in DOMAIN entries : Hash[entries[e].key] \in SUBSET Nat
  BY <1>1, EntriesAre, TableAssumption
<1> HIDE DEF bytes
<1>5. keys \subseteq Nat
  BY <1>4
<1>6. set \subseteq Nat
  <2>1. \A h \in Nat : h % (bytes * 8) \in Nat
    BY <1>3
  <2> QED BY <1>5, <2>1 DEF Bit, BloomBits
<1>7. bloom' \in [bytes : Nat, set : SUBSET Nat]
  BY <1>2, <1>3, <1>6
<1>8. FilterInv'
  <2>1. bloom'.bytes = bytes /\ bloom'.set = set
    BY <1>2
  <2>2. ASSUME NEW e \in DOMAIN entries, NEW h \in Hash[entries[e].key]
        PROVE  Bit(h, bytes * 8) \in set
    <3>1. h \in keys
      OBVIOUS
    <3> QED BY <3>1 DEF BloomBits
  <2> QED BY <1>2, <2>1, <2>2 DEF FilterInv
<1>9. TypeInv'
  BY <1>1, <1>2, <1>7 DEF TypeInv
<1>10. FileInv' /\ ClosedInv' /\ CallInv'
  BY <1>1, <1>2, <1>8 DEF FileInv, ClosedInv, CallInv, End
<1> QED BY <1>9, <1>10 DEF Inv

-----------------------------------------------------------------------------
(* A file that is read. *)

\* The file as get() and scan() find it.
LEMMA FileIsClosed ==
  ASSUME Inv, phase # "write"
  PROVE  /\ 1 \in DOMAIN blocks /\ Len(blocks) >= 1 /\ Len(blocks) \in Nat
         /\ DOMAIN blocks = 1..Len(blocks)
         /\ blocks[1].first = 1 /\ End(Len(blocks)) = Len(entries) + 1
         /\ \A b \in DOMAIN blocks : MinKey(b) \in Nat
<1>1. /\ TypeInv /\ FileInv /\ buf.first \in Nat /\ buf.n = 0
      /\ next = buf.first + buf.n /\ next = Len(entries) + 1
  BY DEF Inv, ClosedInv, FileInv, TypeInv
<1>2. buf.first = Len(entries) + 1 /\ Len(entries) >= 1 /\ Len(entries) \in Nat
  BY <1>1, EntriesAre
<1>3. blocks # <<>>
  BY <1>1, <1>2 DEF FileInv
<1>4. blocks[1].first = 1 /\ End(Len(blocks)) = buf.first
  BY <1>1, <1>3 DEF FileInv
<1>5. \A b \in DOMAIN blocks : MinKey(b) \in Nat
  BY <1>1, BlocksAre, EntriesAre DEF MinKey
<1> QED BY <1>1, <1>2, <1>3, <1>4, <1>5, BlocksAre

LEMMA FileSame ==
  ASSUME Inv, phase # "write", UNCHANGED <<fileVars, buildVars>>
  PROVE  FileInv' /\ ClosedInv'
BY DEF Inv, FileInv, ClosedInv, FilterInv, End, fileVars, buildVars

QuerySet == [get : BOOLEAN, start : {0} \cup Key, end : {0} \cup Key]

\* A call enters a block.
LEMMA EnterInv ==
  ASSUME Inv, phase # "write", NEW b \in DOMAIN blocks, NEW r \in Seq(Nat), Enter(b, r),
         UNCHANGED <<fileVars, buildVars>>, query' \in QuerySet, GetInv',
         Safe' => Exactly(blocks[b].first)'
  PROVE  Inv'
<1>1. FileInv' /\ ClosedInv'
  BY FileSame
<1>2. /\ TypeInv /\ b \in Nat /\ Len(blocks[b].restarts) \in Nat
  BY BlocksAre DEF Inv
<1>3. /\ block' = b /\ left' = 0 /\ right' = Len(blocks[b].restarts)
      /\ rows' = r /\ pos' = 0 /\ phase' = "probe"
      /\ UNCHANGED <<entries, next, buf, blocks, bloom>>
  BY DEF Enter, fileVars, buildVars
<1>4. TypeInv'
  BY <1>2, <1>3 DEF TypeInv, QuerySet
<1>5. ProbeInv'
  BY <1>2, <1>3 DEF ProbeInv
<1>6. CallInv'
  BY <1>3, <1>5 DEF CallInv
<1> QED BY <1>1, <1>4, <1>6 DEF Inv

\* A call is over.
LEMMA ReturnInv ==
  ASSUME Inv, phase # "write", NEW r \in Seq(Nat), Return(r),
         UNCHANGED <<fileVars, buildVars>>, query' \in QuerySet,
         Safe' => Exactly(Len(entries) + 1)'
  PROVE  Inv'
<1>1. FileInv' /\ ClosedInv'
  BY FileSame
<1>2. /\ rows' = r /\ phase' = "done"
      /\ UNCHANGED <<entries, next, buf, blocks, bloom, block, left, right, pos>>
  BY DEF Return, fileVars, buildVars
<1>3. TypeInv'
  BY <1>2 DEF TypeInv, QuerySet, Inv
<1>4. CallInv'
  BY <1>2 DEF CallInv
<1> QED BY <1>1, <1>3, <1>4 DEF Inv

\* A call goes on in its block.
LEMMA InBlock ==
  ASSUME Inv, phase # "write", UNCHANGED <<fileVars, buildVars, query, block>>,
         phase' \in {"probe", "walk"}, left' \in Nat, right' \in Nat, pos' \in Nat,
         rows' \in Seq(Nat), CallInv'
  PROVE  Inv'
<1>1. FileInv' /\ ClosedInv'
  BY FileSame
<1>2. TypeInv'
  BY DEF Inv, TypeInv, fileVars, buildVars
<1> QED BY <1>1, <1>2 DEF Inv

\* The index leads to the block where a key is, if it is anywhere.
LEMMA LocateIs ==
  ASSUME Inv, phase # "write", NEW k \in {0} \cup Key
  PROVE  /\ Locate(k) \in DOMAIN blocks
         /\ \A e \in DOMAIN entries : e < blocks[Locate(k)].first => entries[e].key < k
         /\ Locate(k) < Len(blocks) => MinKey(Locate(k) + 1) > k
         /\ Locate(k) = 1 \/ MinKey(Locate(k)) <= k
<1> DEFINE before == {b \in DOMAIN blocks : MinKey(b) <= k}
<1>1. /\ TypeInv /\ FileInv /\ k \in Nat
  BY TableAssumption DEF Inv
<1>2. CASE before = {}
  <2>1. Locate(k) = 1
    BY <1>2 DEF Locate
  <2>2. \A b \in DOMAIN blocks : MinKey(b) > k
    BY <1>1, <1>2, FileIsClosed
  <2>3. \A e \in DOMAIN entries : ~(e < 1)
    BY <1>1, EntriesAre
  <2> QED BY <2>1, <2>2, <2>3, FileIsClosed
<1>3. CASE before # {}
  <2>1. before \in SUBSET (0..Len(blocks)) /\ Len(blocks) \in Nat
    BY FileIsClosed
  <2>2. \E b \in before : \A c \in before : c <= b
    BY <1>3, <2>1, GreatestExists
  <2>3. PICK b \in before : b = Locate(k) /\ \A c \in before : c <= b
    BY <1>3, <2>2 DEF Locate
  <2>4. /\ b \in DOMAIN blocks /\ b \in Nat /\ MinKey(b) <= k /\ MinKey(b) \in Nat
        /\ blocks[b].first \in DOMAIN entries
    BY <1>1, <2>1, <2>3, FileIsClosed, BlocksAre
  <2>5. ASSUME NEW e \in DOMAIN entries, e < blocks[b].first PROVE entries[e].key < k
    BY <1>1, <2>4, <2>5, EntriesAre DEF MinKey
  <2>6. b < Len(blocks) => MinKey(b + 1) > k
    <3> SUFFICES ASSUME b < Len(blocks) PROVE MinKey(b + 1) > k
      OBVIOUS
    <3>1. b + 1 \in DOMAIN blocks /\ b + 1 \notin before
      BY <2>1, <2>3, <2>4, FileIsClosed
    <3> QED BY <1>1, <3>1, FileIsClosed
  <2> QED BY <2>3, <2>4, <2>5, <2>6
<1> QED BY <1>2, <1>3

-----------------------------------------------------------------------------
(* get() and scan() *)

\* A get that the filter stops asks for a key that is not there.
LEMMA FilterIsSound ==
  ASSUME Inv, phase # "write", NEW e \in DOMAIN entries
  PROVE  MayContain(entries[e].key)
BY DEF Inv, ClosedInv, FilterInv, MayContain

LEMMA GetStep ==
  ASSUME Inv, NEW k \in Key, Get(k)
  PROVE  Inv'
<1>1. /\ phase = "open" /\ TypeInv /\ k \in Nat
      /\ UNCHANGED <<fileVars, buildVars>> /\ UNCHANGED <<entries, blocks>>
      /\ query' = [get |-> TRUE, start |-> k, end |-> k]
  BY TableAssumption DEF Get, Inv, fileVars
<1>2. query' \in QuerySet /\ <<>> \in Seq(Nat)
  BY <1>1 DEF QuerySet
<1>3. Asked' = {e \in DOMAIN entries : entries[e].key = k}
  <2>1. \A e \in DOMAIN entries : entries[e].key \in k..k <=> entries[e].key = k
    BY <1>1, EntriesAre
  <2> QED BY <1>1, <2>1 DEF Asked
<1>4. CASE MayContain(k)
  <2>1. Enter(Locate(k), <<>>)
    BY <1>4 DEF Get
  <2>2. PICK b \in DOMAIN blocks :
          /\ b = Locate(k)
          /\ \A e \in DOMAIN entries : e < blocks[b].first => entries[e].key < k
          /\ b < Len(blocks) => MinKey(b + 1) > k
    BY <1>1, LocateIs
  <2>3. rows' = <<>> /\ block' = b
    BY <2>1, <2>2 DEF Enter
  <2>4. GetInv'
    BY <1>1, <2>2, <2>3 DEF GetInv, MinKey
  <2>5. Exactly(blocks[b].first)'
    <3>1. \A e \in Asked' : ~(e < blocks[b].first)
      BY <1>1, <1>3, <2>2, EntriesAre
    <3> QED BY <1>1, <2>3, <3>1 DEF Exactly, Found
  <2> QED BY <1>1, <1>2, <2>1, <2>2, <2>4, <2>5, EnterInv
<1>5. CASE ~MayContain(k)
  <2>1. Return(<<>>)
    BY <1>5 DEF Get
  <2>2. Asked' = {} /\ rows' = <<>>
    BY <1>1, <1>3, <1>5, <2>1, FilterIsSound DEF Return
  <2>3. Exactly(Len(entries) + 1)'
    BY <2>2 DEF Exactly, Found
  <2> QED BY <1>1, <1>2, <2>1, <2>3, ReturnInv
<1> QED BY <1>4, <1>5

LEMMA ScanStep ==
  ASSUME Inv, NEW start \in {0} \cup Key, NEW end \in {0} \cup Key, Scan(start, end)
  PROVE  Inv'
<1>1. /\ phase = "open" /\ TypeInv /\ start \in Nat /\ end \in Nat
      /\ UNCHANGED <<fileVars, buildVars>> /\ UNCHANGED <<entries, blocks>>
      /\ query' = [get |-> FALSE, start |-> start, end |-> end]
  BY TableAssumption DEF Scan, Inv, fileVars
<1>2. query' \in QuerySet /\ <<>> \in Seq(Nat)
  BY <1>1 DEF QuerySet
<1>3. Asked' = {e \in DOMAIN entries : start <= entries[e].key /\ entries[e].key <= end}
  <2>1. \A e \in DOMAIN entries :
          entries[e].key \in start..end <=> start <= entries[e].key /\ entries[e].key <= end
    BY <1>1, EntriesAre
  <2> QED BY <1>1, <2>1 DEF Asked
<1>4. PICK b \in DOMAIN blocks :
        /\ b = Locate(start)
        /\ \A e \in DOMAIN entries : e < blocks[b].first => entries[e].key < start
        /\ b = 1 \/ MinKey(b) <= start
  BY <1>1, LocateIs
<1>5. CASE start > end \/ end < MinKey(1) \/ MinKey(b) > end
  <2>1. Return(<<>>)
    BY <1>4, <1>5 DEF Scan
  <2>2. start > end \/ end < MinKey(1)
    <3>1. MinKey(b) \in Nat
      BY <1>1, FileIsClosed
    <3> QED BY <1>1, <1>4, <1>5, <3>1
  <2>3. \A e \in DOMAIN entries : MinKey(1) <= entries[e].key
    <3>1. MinKey(1) = entries[1].key /\ 1 \in DOMAIN entries
      BY <1>1, FileIsClosed, EntriesAre DEF MinKey
    <3> QED BY <1>1, <3>1, EntriesAre
  <2>4. Asked' = {} /\ rows' = <<>>
    <3>1. MinKey(1) \in Nat
      BY <1>1, FileIsClosed
    <3> QED BY <1>1, <1>3, <2>1, <2>2, <2>3, <3>1, EntriesAre DEF Return
  <2>5. Exactly(Len(entries) + 1)'
    BY <2>4 DEF Exactly, Found
  <2> QED BY <1>1, <1>2, <2>1, <2>5, ReturnInv
<1>6. CASE ~(start > end \/ end < MinKey(1) \/ MinKey(b) > end)
  <2>1. Enter(b, <<>>)
    BY <1>4, <1>6 DEF Scan
  <2>2. rows' = <<>> /\ GetInv'
    BY <1>1, <2>1 DEF Enter, GetInv
  <2>3. Exactly(blocks[b].first)'
    <3>1. \A e \in Asked' : ~(e < blocks[b].first)
      BY <1>1, <1>3, <1>4, EntriesAre
    <3> QED BY <1>1, <2>2, <3>1 DEF Exactly, Found
  <2> QED BY <1>1, <1>2, <2>1, <2>2, <2>3, EnterInv
<1> QED BY <1>5, <1>6

-----------------------------------------------------------------------------
(* The search in a block. *)

\* The block that is read.
LEMMA BlockIs ==
  ASSUME Inv, block \in DOMAIN blocks
  PROVE  /\ blocks[block].first \in Nat /\ blocks[block].n \in Nat
         /\ blocks[block].restarts \in Seq(Nat) /\ blocks[block].restarts[1] = 0
         /\ Len(blocks[block].restarts) \in Nat /\ Len(blocks[block].restarts) >= 1
         /\ \A p \in Nat : p < blocks[block].n => blocks[block].first + p \in DOMAIN entries
         /\ query.start \in Nat /\ query.end \in Nat
<1>1. /\ TypeInv /\ FileInv
  BY DEF Inv
<1>2. /\ blocks[block].first \in Nat /\ blocks[block].n \in Nat
      /\ blocks[block].restarts \in Seq(Nat)
      /\ End(block) <= Len(entries) + 1 /\ blocks[block].first \in DOMAIN entries
  BY <1>1, BlocksAre
<1>3. blocks[block].restarts # <<>> /\ blocks[block].restarts[1] = 0
  BY <1>1 DEF FileInv
<1>4. Len(blocks[block].restarts) \in Nat /\ Len(blocks[block].restarts) # 0
  BY <1>2, <1>3
<1>5. \A p \in Nat : p < blocks[block].n => blocks[block].first + p \in DOMAIN entries
  BY <1>1, <1>2, EntriesAre DEF End
<1>6. query.start \in Nat /\ query.end \in Nat
  <2>1. {0} \cup Key \subseteq Nat
    BY TableAssumption
  <2>2. query.start \in {0} \cup Key /\ query.end \in {0} \cup Key
    BY <1>1 DEF TypeInv
  <2> QED BY <2>1, <2>2
<1> QED BY <1>2, <1>3, <1>4, <1>5, <1>6

LEMMA KeyAtIs ==
  ASSUME Inv, block \in DOMAIN blocks, NEW i \in Nat, i < Len(blocks[block].restarts)
  PROVE  /\ KeyAt(i) \in Nat
         /\ blocks[block].restarts[i + 1] \in Nat
         /\ Sound(block) =>
              /\ blocks[block].restarts[i + 1] < blocks[block].n
              /\ KeyAt(i) = entries[blocks[block].first + blocks[block].restarts[i + 1]].key
<1> DEFINE p == blocks[block].restarts[i + 1]
<1>1. /\ blocks[block].restarts \in Seq(Nat)
      /\ i + 1 \in DOMAIN blocks[block].restarts
  BY BlockIs
<1>2. p \in Nat
  BY <1>1
<1>3. Sound(block) => p < blocks[block].n
  BY <1>1 DEF Sound
<1>4. KeyAt(i) \in Nat
  <2>1. p < blocks[block].n => entries[blocks[block].first + p].key \in Nat
    BY <1>2, BlockIs, EntriesAre DEF Inv
  <2>2. blocks[block].garbage \in Nat
    BY BlocksAre DEF Inv
  <2> QED BY <2>1, <2>2 DEF KeyAt
<1> QED BY <1>2, <1>3, <1>4 DEF KeyAt

LEMMA ProbeStep ==
  ASSUME Inv, Probe
  PROVE  Inv'
<1>1. /\ phase = "probe" /\ ProbeInv /\ TypeInv /\ left < right
      /\ left \in Nat /\ right \in Nat /\ pos \in Nat /\ rows \in Seq(Nat)
      /\ block \in DOMAIN blocks
  BY DEF Probe, Inv, CallInv, TypeInv, ProbeInv
<1>2. /\ UNCHANGED <<fileVars, buildVars, query, block>>
      /\ UNCHANGED <<entries, blocks, phase, query, block, pos, rows>>
  BY DEF Probe, fileVars
<1> DEFINE mid == (left + right) \div 2
<1>3. mid \in Nat /\ left <= mid /\ mid < right /\ mid + 1 - 1 = mid
  BY <1>1
<1>4. \/ KeyAt(mid) < query.start /\ left' = mid + 1 /\ right' = right
      \/ right' = mid /\ left' = left
  BY DEF Probe
<1> HIDE DEF mid
<1>5. \A i : KeyAt(i)' = KeyAt(i)
  BY <1>2 DEF KeyAt
<1>6. left' \in Nat /\ right' \in Nat /\ left' <= right' /\ right' <= right
  BY <1>1, <1>3, <1>4
<1>7. left' > 0 => KeyAt(left' - 1) < query.start
  BY <1>1, <1>3, <1>4 DEF ProbeInv
<1>8. GetInv' /\ (Safe' => Exactly(blocks[block].first)')
  BY <1>1, <1>2 DEF ProbeInv, GetInv, MinKey, Safe, Sound, Exactly, Found, Asked
<1>9. ProbeInv'
  <2>1. right <= Len(blocks[block].restarts) /\ Len(blocks[block].restarts) \in Nat
    BY <1>1, BlockIs DEF ProbeInv
  <2>2. right' <= Len(blocks'[block'].restarts)
    BY <1>1, <1>2, <1>6, <2>1
  <2>3. left' > 0 => KeyAt(left - 1)' < query'.start
    BY <1>2, <1>5, <1>7
  <2> QED BY <1>1, <1>2, <1>6, <1>8, <2>2, <2>3 DEF ProbeInv
<1>10. CallInv'
  BY <1>1, <1>2, <1>9 DEF CallInv
<1> QED BY <1>1, <1>2, <1>6, <1>10, InBlock

\* The walk begins behind entries that are too small.
LEMMA LandStep ==
  ASSUME Inv, Land
  PROVE  Inv'
<1>1. /\ phase = "probe" /\ ProbeInv /\ TypeInv /\ left = right
      /\ left \in Nat /\ right \in Nat /\ rows \in Seq(Nat)
      /\ block \in DOMAIN blocks /\ left <= Len(blocks[block].restarts)
  BY DEF Land, Inv, CallInv, TypeInv, ProbeInv
<1>2. /\ UNCHANGED <<fileVars, buildVars, query, block>> /\ phase' = "walk"
      /\ UNCHANGED <<entries, blocks, query, block, left, right, rows>>
      /\ pos' = blocks[block].restarts[(IF left > 0 THEN left - 1 ELSE 0) + 1]
  BY DEF Land, fileVars
<1> DEFINE first == blocks[block].first
           i == IF left > 0 THEN left - 1 ELSE 0
<1>3. i \in Nat /\ i < Len(blocks[block].restarts) /\ pos' = blocks[block].restarts[i + 1]
  BY <1>1, <1>2, BlockIs
<1>4. /\ KeyAt(i) \in Nat /\ pos' \in Nat
      /\ Sound(block) => pos' < blocks[block].n /\ KeyAt(i) = entries[first + pos'].key
  BY <1>1, <1>3, KeyAtIs
<1>5. GetInv'
  BY <1>1, <1>2 DEF ProbeInv, GetInv, MinKey
<1>6. ASSUME Safe
      PROVE  /\ pos' <= blocks[block].n
             /\ \A e \in Asked : e < first <=> e < first + pos'
  <2>1. CASE left = 0
    BY <1>1, <1>2, <2>1, BlockIs
  <2>2. CASE left > 0
    <3>1. KeyAt(i) < query.start
      BY <1>1, <2>2 DEF ProbeInv
    <3>2. Sound(block)
      BY <1>1, <1>4, <1>6, <3>1 DEF Safe
    <3>3. /\ pos' < blocks[block].n /\ first + pos' \in DOMAIN entries /\ first \in Nat
          /\ entries[first + pos'].key < query.start /\ query.start \in Nat
          /\ blocks[block].n \in Nat
      BY <1>1, <1>4, <3>1, <3>2, BlockIs
    <3> HIDE DEF first
    <3>4. ASSUME NEW e \in Asked, e < first + pos' PROVE FALSE
      <4>1. e \in DOMAIN entries /\ entries[e].key >= query.start
        BY <1>1, <3>3, BlockIs, EntriesAre DEF Asked
      <4>2. entries[e].key < entries[first + pos'].key
        BY <1>1, <3>3, <3>4, <4>1, EntriesAre
      <4> QED BY <1>1, <3>3, <4>1, <4>2, EntriesAre
    <3>5. \A e \in Asked : e \in Nat
      BY <1>1, EntriesAre DEF Asked
    <3> QED BY <1>4, <3>3, <3>4, <3>5
  <2> QED BY <1>1, <2>1, <2>2
<1>7. Safe' => pos' <= blocks'[block'].n /\ Exactly(Here)'
  <2> SUFFICES ASSUME Safe' PROVE pos' <= blocks[block].n /\ Exactly(Here)'
    BY <1>2
  <2>1. Safe
    BY <1>2 DEF Safe, Sound
  <2>2. Found = {e \in Asked : e < first} /\ \A r, q \in DOMAIN rows : r < q => rows[r] < rows[q]
    BY <1>1, <2>1 DEF ProbeInv, Exactly
  <2>3. Found = {e \in Asked : e < first + pos'}
    BY <1>6, <2>1, <2>2
  <2>4. Here' = first + pos' /\ Found' = Found /\ Asked' = Asked
    BY <1>2 DEF Here, Found, Asked
  <2> QED BY <1>2, <1>6, <2>1, <2>2, <2>3, <2>4 DEF Exactly
<1>8. CallInv'
  BY <1>1, <1>2, <1>5, <1>7 DEF CallInv, WalkInv
<1> QED BY <1>1, <1>2, <1>4, <1>8, InBlock

\* Where the walk stands.
LEMMA WalkIs ==
  ASSUME Inv, phase = "walk"
  PROVE  /\ WalkInv /\ TypeInv /\ block \in DOMAIN blocks
         /\ Here \in Nat /\ pos \in Nat /\ rows \in Seq(Nat)
         /\ left \in Nat /\ right \in Nat /\ blocks[block].n \in Nat
         /\ pos < blocks[block].n => Here \in DOMAIN entries
         /\ query.start \in Nat /\ query.end \in Nat
         /\ \A e \in Asked : e \in DOMAIN entries /\ e \in Nat
         /\ \A e \in DOMAIN entries :
              e \in Asked <=> query.start <= entries[e].key /\ entries[e].key <= query.end
<1>1. WalkInv /\ TypeInv /\ block \in DOMAIN blocks
  BY DEF Inv, CallInv, WalkInv
<1>2. pos \in Nat /\ rows \in Seq(Nat) /\ left \in Nat /\ right \in Nat
  BY <1>1 DEF TypeInv
<1>3. /\ Here \in Nat /\ blocks[block].n \in Nat
      /\ pos < blocks[block].n => Here \in DOMAIN entries
      /\ query.start \in Nat /\ query.end \in Nat
  BY <1>1, <1>2, BlockIs DEF Here
<1>4. \A e \in Asked : e \in DOMAIN entries /\ e \in Nat
  BY <1>1, EntriesAre DEF Asked
<1>5. \A e \in DOMAIN entries :
        e \in Asked <=> query.start <= entries[e].key /\ entries[e].key <= query.end
  BY <1>1, <1>3, EntriesAre DEF Asked
<1> QED BY <1>1, <1>2, <1>3, <1>4, <1>5

LEMMA PassStep ==
  ASSUME Inv, Pass
  PROVE  Inv'
<1>1. /\ phase = "walk" /\ pos < blocks[block].n /\ entries[Here].key < query.start
      /\ pos' = pos + 1 /\ UNCHANGED <<fileVars, buildVars, query, block>>
      /\ UNCHANGED <<entries, blocks, phase, query, block, left, right, rows>>
  BY DEF Pass, fileVars
<1>2. /\ Here' = Here + 1 /\ Here \in Nat
  <2>1. Here \in Nat /\ block \in DOMAIN blocks /\ pos \in Nat
    BY <1>1, WalkIs
  <2>2. blocks[block].first \in Nat
    BY <2>1, BlockIs
  <2> QED BY <1>1, <2>1, <2>2 DEF Here
<1>3. \A e \in Asked : e < Here <=> e < Here + 1
  <2>1. Here \notin Asked
    BY <1>1, WalkIs, EntriesAre
  <2> QED BY <1>1, <1>2, <2>1, WalkIs
<1>4. GetInv'
  BY <1>1, WalkIs DEF WalkInv, GetInv, MinKey
<1>5. Safe' => pos' <= blocks'[block'].n /\ Exactly(Here)'
  <2> SUFFICES ASSUME Safe' PROVE pos' <= blocks[block].n /\ Exactly(Here)'
    BY <1>1
  <2>1. Safe
    BY <1>1 DEF Safe, Sound
  <2>2. Exactly(Here)
    BY <1>1, <2>1, WalkIs DEF WalkInv
  <2>3. Found' = Found /\ Asked' = Asked
    BY <1>1 DEF Found, Asked
  <2>4. Found = {e \in Asked : e < Here + 1}
    BY <1>3, <2>2 DEF Exactly
  <2>5. pos' <= blocks[block].n
    BY <1>1, WalkIs
  <2> QED BY <1>1, <1>2, <2>2, <2>3, <2>4, <2>5 DEF Exactly
<1>6. CallInv'
  BY <1>1, <1>4, <1>5, WalkIs DEF CallInv, WalkInv
<1>7. pos' \in Nat /\ left' \in Nat /\ right' \in Nat /\ rows' \in Seq(Nat)
  BY <1>1, WalkIs
<1> QED BY <1>1, <1>6, <1>7, InBlock

\* A call returns when there is nothing left that is asked for.
LEMMA ReturnsAll ==
  ASSUME Inv, phase = "walk", NEW r \in Seq(Nat), Return(r),
         UNCHANGED <<fileVars, buildVars, query>>,
         Safe => /\ {r[i] : i \in DOMAIN r} = Asked
                 /\ \A i, j \in DOMAIN r : i < j => r[i] < r[j]
  PROVE  Inv'
<1>1. /\ rows' = r /\ UNCHANGED <<entries, blocks, query>>
  BY DEF Return, fileVars
<1>2. query' \in QuerySet
  BY <1>1 DEF Inv, TypeInv, QuerySet
<1>3. \A e \in Asked : e < Len(entries) + 1
  <2>1. \A e \in DOMAIN entries : e < Len(entries) + 1
    BY EntriesAre DEF Inv
  <2> QED BY <2>1, WalkIs
<1>4. Safe' => Exactly(Len(entries) + 1)'
  <2> SUFFICES ASSUME Safe' PROVE Exactly(Len(entries) + 1)'
    OBVIOUS
  <2>1. Safe
    BY <1>1 DEF Safe, Sound
  <2>2. Found' = {r[i] : i \in DOMAIN r} /\ Asked' = Asked
    BY <1>1 DEF Found, Asked
  <2> QED BY <1>1, <1>3, <2>1, <2>2 DEF Exactly
<1> QED BY <1>1, <1>2, <1>4, ReturnInv

\* The found entry is the last of the rows.
LEMMA HitRows ==
  ASSUME Inv, Hit, Safe
  PROVE  /\ \A e \in Asked : (\E i \in DOMAIN rows' : rows'[i] = e) <=> e < Here + 1
         /\ \A i \in DOMAIN rows' : rows'[i] \in Asked
         /\ \A i, j \in DOMAIN rows' : i < j => rows'[i] < rows'[j]
<1>1. /\ phase = "walk" /\ pos < blocks[block].n
      /\ entries[Here].key \in query.start..query.end /\ rows' = Append(rows, Here)
  BY DEF Hit, Return
<1>2. /\ Here \in Asked /\ Here \in Nat /\ rows \in Seq(Nat) /\ Len(rows) \in Nat
      /\ Exactly(Here) /\ \A e \in Asked : e \in Nat
  BY <1>1, WalkIs DEF Asked, WalkInv
<1>3. /\ DOMAIN rows = 1..Len(rows)
      /\ DOMAIN rows' = 1..(Len(rows) + 1) /\ rows'[Len(rows) + 1] = Here
      /\ \A i \in DOMAIN rows : rows'[i] = rows[i]
  BY <1>1, <1>2
<1>4. \A i \in DOMAIN rows : rows[i] \in Asked /\ rows[i] < Here
  BY <1>2 DEF Exactly, Found
<1>5. \A i \in DOMAIN rows' : i \in DOMAIN rows \/ i = Len(rows) + 1
  BY <1>2, <1>3
<1>6. ASSUME NEW e \in Asked
      PROVE  (\E i \in DOMAIN rows' : rows'[i] = e) <=> e < Here + 1
  <2>1. (\E i \in DOMAIN rows : rows[i] = e) <=> e < Here
    BY <1>2 DEF Exactly, Found
  <2>2. e < Here + 1 <=> e < Here \/ e = Here
    BY <1>2
  <2>3. (\E i \in DOMAIN rows' : rows'[i] = e)
          <=> (\E i \in DOMAIN rows : rows[i] = e) \/ e = Here
    <3>1. Len(rows) + 1 \in DOMAIN rows' /\ DOMAIN rows \subseteq DOMAIN rows'
      BY <1>2, <1>3
    <3> QED BY <1>3, <1>5, <3>1
  <2> QED BY <2>1, <2>2, <2>3
<1>7. ASSUME NEW i \in DOMAIN rows', NEW j \in DOMAIN rows', i < j
      PROVE  rows'[i] < rows'[j]
  <2>1. i \in DOMAIN rows
    BY <1>2, <1>3, <1>7
  <2>2. CASE j \in DOMAIN rows
    BY <1>2, <1>3, <1>7, <2>1, <2>2 DEF Exactly
  <2>3. CASE j = Len(rows) + 1
    BY <1>3, <1>4, <2>1, <2>3
  <2> QED BY <1>5, <2>2, <2>3
<1>8. \A i \in DOMAIN rows' : rows'[i] \in Asked
  BY <1>2, <1>3, <1>4, <1>5
<1> QED BY <1>6, <1>7, <1>8

LEMMA HitStep ==
  ASSUME Inv, Hit
  PROVE  Inv'
<1>1. /\ phase = "walk" /\ pos < blocks[block].n
      /\ entries[Here].key \in query.start..query.end
      /\ UNCHANGED <<fileVars, buildVars, query>> /\ UNCHANGED <<entries, blocks, query>>
      /\ rows' = Append(rows, Here)
  BY DEF Hit, Return, fileVars
<1>2. /\ Here \in Asked /\ Here \in DOMAIN entries /\ Here \in Nat /\ rows' \in Seq(Nat)
  BY <1>1, WalkIs DEF Asked
<1>3. CASE query.get
  <2>1. Return(Append(rows, Here))
    BY <1>3 DEF Hit
  <2>2. \A e \in Asked : e = Here
    <3>1. query.start = query.end
      BY <1>1, <1>3, WalkIs DEF WalkInv, GetInv
    <3>2. \A e \in Asked : entries[e].key = entries[Here].key
      BY <1>1, <1>2, <3>1, WalkIs, EntriesAre DEF Inv
    <3>3. ASSUME NEW e \in Asked PROVE ~(e < Here) /\ ~(Here < e) /\ e \in Nat
      BY <1>1, <1>2, <3>2, WalkIs, EntriesAre
    <3> QED BY <1>2, <3>3
  <2>3. \A e \in Asked : e < Here + 1
    BY <1>2, <2>2
  <2>4. Safe => /\ {rows'[i] : i \in DOMAIN rows'} = Asked
                /\ \A i, j \in DOMAIN rows' : i < j => rows'[i] < rows'[j]
    BY <2>3, HitRows
  <2> QED BY <1>1, <1>2, <2>1, <2>4, ReturnsAll
<1>4. CASE ~query.get
  <2>1. pos' = pos + 1 /\ UNCHANGED <<phase, block, left, right>>
    BY <1>4 DEF Hit
  <2>2. Here' = Here + 1
    <3>1. block \in DOMAIN blocks /\ pos \in Nat
      BY <1>1, WalkIs
    <3>2. blocks[block].first \in Nat
      BY <3>1, BlockIs
    <3>3. Here' = blocks[block].first + (pos + 1) /\ Here = blocks[block].first + pos
      BY <1>1, <2>1 DEF Here
    <3> QED BY <3>1, <3>2, <3>3
  <2>3. GetInv' /\ block' \in DOMAIN blocks'
    BY <1>1, <1>4, <2>1, WalkIs DEF GetInv
  <2>4. Safe' => pos' <= blocks'[block'].n /\ Exactly(Here)'
    <3> SUFFICES ASSUME Safe' PROVE pos' <= blocks[block].n /\ Exactly(Here)'
      BY <1>1, <2>1
    <3>1. Safe
      BY <1>1 DEF Safe, Sound
    <3>2. pos' <= blocks[block].n
      BY <1>1, <2>1, WalkIs
    <3>3. Asked' = Asked
      BY <1>1 DEF Asked
    <3>4. {rows'[i] : i \in DOMAIN rows'} = {e \in Asked : e < Here + 1}
      BY <3>1, HitRows
    <3> QED BY <2>2, <3>1, <3>2, <3>3, <3>4, HitRows DEF Exactly, Found
  <2>5. CallInv'
    BY <1>1, <2>1, <2>3, <2>4 DEF CallInv, WalkInv
  <2>6. pos' \in Nat /\ left' \in Nat /\ right' \in Nat
    BY <1>1, <2>1, WalkIs
  <2> QED BY <1>1, <1>2, <2>1, <2>5, <2>6, InBlock
<1> QED BY <1>3, <1>4

\* Behind a block whose end has been reached, and behind an entry that is
\* too large, nothing is asked for before the next block.
LEMMA NextBlockIs ==
  ASSUME Inv, phase = "walk", Safe,
         pos < blocks[block].n => entries[Here].key > query.end
  PROVE  /\ Here <= End(block) /\ End(block) \in Nat
         /\ \A e \in Asked : e < Here <=> e < End(block)
<1>1. /\ block \in DOMAIN blocks /\ pos \in Nat /\ pos <= blocks[block].n
      /\ blocks[block].n \in Nat /\ blocks[block].first \in Nat /\ Here \in Nat
  BY WalkIs, BlockIs DEF WalkInv
<1>2. Here <= End(block) /\ End(block) \in Nat
  BY <1>1 DEF Here, End
<1>3. ASSUME NEW e \in Asked, Here <= e, e < End(block) PROVE FALSE
  <2>1. e \in DOMAIN entries /\ e \in Nat /\ entries[e].key <= query.end
    BY WalkIs
  <2>2. pos < blocks[block].n
    BY <1>1, <1>3, <2>1 DEF Here, End
  <2>3. Here \in DOMAIN entries /\ entries[Here].key > query.end /\ query.end \in Nat
    BY <2>2, WalkIs
  <2>4. e = Here \/ entries[Here].key < entries[e].key
    BY <1>1, <1>3, <2>1, <2>3, EntriesAre DEF Inv
  <2> QED BY <2>1, <2>3, <2>4, EntriesAre DEF Inv
<1>4. \A e \in Asked : e \in Nat
  BY WalkIs
<1> QED BY <1>1, <1>2, <1>3, <1>4

LEMMA LeaveBlockStep ==
  ASSUME Inv, LeaveBlock
  PROVE  Inv'
<1>1. /\ phase = "walk" /\ UNCHANGED <<fileVars, buildVars, query>>
      /\ UNCHANGED <<entries, blocks, query>>
      /\ pos < blocks[block].n => entries[Here].key > query.end
  BY DEF LeaveBlock, fileVars
<1>2. /\ TypeInv /\ FileInv /\ WalkInv /\ block \in DOMAIN blocks /\ rows \in Seq(Nat)
      /\ query.end \in Nat /\ query' \in QuerySet /\ block \in Nat
  BY <1>1, WalkIs, FileIsClosed DEF Inv, TypeInv, QuerySet
<1>3. block < Len(blocks) =>
        /\ block + 1 \in DOMAIN blocks /\ blocks[block + 1].first = End(block)
        /\ blocks[block + 1].first \in DOMAIN entries
  <2> SUFFICES ASSUME block < Len(blocks)
               PROVE  /\ block + 1 \in DOMAIN blocks
                      /\ blocks[block + 1].first = End(block)
                      /\ blocks[block + 1].first \in DOMAIN entries
    OBVIOUS
  <2>1. block + 1 \in DOMAIN blocks
    BY <1>1, <1>2, FileIsClosed
  <2>2. blocks[block + 1].first = End(block)
    BY <1>2, <2>1 DEF FileInv
  <2>3. blocks[block + 1].first \in DOMAIN entries
    BY <1>2, <2>1, BlocksAre
  <2> QED BY <2>1, <2>2, <2>3
<1>4. CASE ~query.get /\ block < Len(blocks) /\ MinKey(block + 1) <= query.end
  <2>1. PICK b \in DOMAIN blocks : b = block + 1
    BY <1>3, <1>4
  <2>2. Enter(b, rows) /\ rows' = rows
    BY <1>4, <2>1 DEF LeaveBlock, Enter
  <2>3. GetInv'
    BY <1>1, <1>4 DEF GetInv
  <2>4. Safe' => Exactly(blocks[b].first)'
    <3> SUFFICES ASSUME Safe' PROVE Exactly(blocks[b].first)'
      OBVIOUS
    <3>1. Safe
      BY <1>1 DEF Safe, Sound
    <3>2. Exactly(Here)
      BY <1>2, <3>1 DEF WalkInv
    <3>3. {e \in Asked : e < Here} = {e \in Asked : e < blocks[b].first}
      BY <1>1, <1>3, <1>4, <2>1, <3>1, NextBlockIs
    <3>4. Found' = Found /\ Asked' = Asked
      BY <1>1, <2>2 DEF Found, Asked
    <3> QED BY <1>1, <2>2, <3>2, <3>3, <3>4 DEF Exactly
  <2> QED BY <1>1, <1>2, <2>2, <2>3, <2>4, EnterInv
<1>5. CASE ~(~query.get /\ block < Len(blocks) /\ MinKey(block + 1) <= query.end)
  <2>1. Return(rows)
    BY <1>5 DEF LeaveBlock
  <2>2. ASSUME NEW e \in Asked PROVE e < End(block)
    <3>1. /\ e \in DOMAIN entries /\ e \in Nat /\ entries[e].key <= query.end
          /\ entries[e].key \in Nat /\ e <= Len(entries) /\ Len(entries) \in Nat
      BY <1>1, <1>2, WalkIs, EntriesAre
    <3>2. CASE block = Len(blocks)
      BY <1>1, <3>1, <3>2, FileIsClosed
    <3>3. CASE block < Len(blocks)
      <4>1. MinKey(block + 1) \in Nat
        BY <1>1, <1>3, <3>3, FileIsClosed
      <4>2. MinKey(block + 1) > query.end
        BY <1>2, <1>5, <3>3, <4>1 DEF WalkInv, GetInv
      <4>3. entries[End(block)].key > query.end /\ End(block) \in DOMAIN entries
        BY <1>3, <3>3, <4>2 DEF MinKey
      <4> QED BY <1>2, <3>1, <4>3, EntriesAre
    <3> QED BY <1>1, <1>2, <3>2, <3>3, FileIsClosed
  <2>3. Safe => /\ {rows[i] : i \in DOMAIN rows} = Asked
                /\ \A i, j \in DOMAIN rows : i < j => rows[i] < rows[j]
    <3> SUFFICES ASSUME Safe
                 PROVE  /\ {rows[i] : i \in DOMAIN rows} = Asked
                        /\ \A i, j \in DOMAIN rows : i < j => rows[i] < rows[j]
      OBVIOUS
    <3>1. Exactly(Here)
      BY <1>2 DEF WalkInv
    <3>2. \A e \in Asked : e < Here
      BY <1>1, <2>2, NextBlockIs
    <3> QED BY <3>1, <3>2 DEF Exactly, Found
  <2> QED BY <1>1, <1>2, <2>1, <2>3, ReturnsAll
<1> QED BY <1>4, <1>5

LEMMA AgainStep ==
  ASSUME Inv, Again
  PROVE  Inv'
<1>1. /\ phase = "done" /\ phase' = "open" /\ rows' = <<>>
      /\ query' = [get |-> TRUE, start |-> 0, end |-> 0]
      /\ block' = 1 /\ left' = 0 /\ right' = 0 /\ pos' = 0
      /\ UNCHANGED <<fileVars, buildVars>>
  BY DEF Again
<1>2. FileInv' /\ ClosedInv'
  BY <1>1, FileSame
<1>3. TypeInv'
  <2>1. query' \in [get : BOOLEAN, start : {0} \cup Key, end : {0} \cup Key]
    BY <1>1
  <2>2. rows' \in Seq(Nat)
    BY <1>1
  <2> QED BY <1>1, <2>1, <2>2 DEF Inv, TypeInv, fileVars, buildVars
<1>4. CallInv'
  BY <1>1 DEF CallInv
<1> QED BY <1>2, <1>3, <1>4 DEF Inv

-----------------------------------------------------------------------------
(* The invariant. *)

LEMMA InitInv == Init => Inv
<1> SUFFICES ASSUME Init PROVE Inv
  OBVIOUS
<1>1. /\ entries \in Tables /\ next = 1 /\ buf = EmptyBuf(1) /\ blocks = <<>>
      /\ bloom = [bytes |-> 0, set |-> {}] /\ phase = "write"
      /\ query = [get |-> TRUE, start |-> 0, end |-> 0]
      /\ block = 1 /\ left = 0 /\ right = 0 /\ pos = 0 /\ rows = <<>>
  BY DEF Init
<1>2. TypeInv
  <2>1. buf \in [first : Nat, size : Nat, n : Nat, restarts : Seq(Nat)]
    <3>1. <<0>> \in Seq(Nat)
      OBVIOUS
    <3> QED BY <1>1, <3>1 DEF EmptyBuf, Header
  <2>2. blocks \in Seq([first : Nat, n : Nat, restarts : Seq(Nat), garbage : {0} \cup Key])
        /\ rows \in Seq(Nat)
    BY <1>1
  <2>3. query \in [get : BOOLEAN, start : {0} \cup Key, end : {0} \cup Key]
    BY <1>1
  <2>4. bloom \in [bytes : Nat, set : SUBSET Nat]
    BY <1>1
  <2> QED BY <1>1, <2>1, <2>2, <2>3, <2>4 DEF TypeInv
<1>3. FileInv
  <2>1. Len(entries) \in Nat /\ Len(entries) >= 1
    BY <1>2, EntriesAre
  <2>2. buf.first = 1 /\ buf.n = 0 /\ buf.restarts = <<0>>
    BY <1>1 DEF EmptyBuf
  <2> QED BY <1>1, <2>1, <2>2 DEF FileInv
<1>4. ClosedInv /\ CallInv
  BY <1>1 DEF ClosedInv, CallInv
<1> QED BY <1>2, <1>3, <1>4 DEF Inv

LEMMA StepInv == Inv /\ [Next]_vars => Inv'
<1> SUFFICES ASSUME Inv, [Next]_vars PROVE Inv'
  OBVIOUS
<1>1. CASE Create
  BY <1>1, AddEntryInv, CloseBlockInv, FinishFileInv DEF Create
<1>2. CASE \E k \in Key : Get(k)
  BY <1>2, GetStep
<1>3. CASE \E start, end \in {0} \cup Key : Scan(start, end)
  BY <1>3, ScanStep
<1>4. CASE Read
  BY <1>4, ProbeStep, LandStep, PassStep, HitStep, LeaveBlockStep DEF Read
<1>5. CASE Again
  BY <1>5, AgainStep
<1>6. CASE UNCHANGED vars
  <2>1. UNCHANGED <<entries, blocks, bloom, next, buf, phase, query, block, left, right,
                    pos, rows>>
    BY <1>6 DEF vars, fileVars, buildVars, readVars
  <2>2. TypeInv' /\ FileInv' /\ ClosedInv'
    BY <2>1 DEF Inv, TypeInv, FileInv, ClosedInv, FilterInv, End
  <2>3. ProbeInv' = ProbeInv /\ WalkInv' = WalkInv
    BY <2>1 DEF ProbeInv, WalkInv, GetInv, MinKey, KeyAt, Here, Safe, Sound, Exactly,
                Found, Asked
  <2>4. (Safe => Exactly(Len(entries) + 1)) = (Safe => Exactly(Len(entries) + 1))'
    BY <2>1 DEF Safe, Sound, Exactly, Found, Asked
  <2>5. CallInv'
    BY <2>1, <2>3, <2>4 DEF Inv, CallInv
  <2> QED BY <2>2, <2>5 DEF Inv
<1> QED BY <1>1, <1>2, <1>3, <1>4, <1>5, <1>6 DEF Next

\* The blocks tile the table, the filter has every bit, and a call has found
\* what is asked for up to where it is.
LEMMA AlwaysInv == Spec => []Inv
BY InitInv, StepInv, PTL DEF Spec

\* A call that is over has found all that is asked for.
LEMMA DoneIs ==
  ASSUME Inv, phase = "done", Safe
  PROVE  /\ Found = Asked
         /\ \A r, q \in DOMAIN rows : r < q => rows[r] < rows[q]
<1>1. Exactly(Len(entries) + 1)
  BY DEF Inv, CallInv
<1>2. \A e \in Asked : e < Len(entries) + 1
  BY EntriesAre DEF Inv, Asked
<1> QED BY <1>1, <1>2 DEF Exactly

-----------------------------------------------------------------------------
(* The theorems. *)

\* Whatever the sizes of the entries and of the blocks, get() of a table
\* whose restart points all have an entry (src/sstable.cpp, SSTable::get)
\* finds a key if and only if the table has it.
THEOREM GetOfSoundAlwaysExact == Spec => []GetOfSoundIsExact
<1>1. Inv => GetOfSoundIsExact
  BY DoneIs DEF GetOfSoundIsExact, Safe
<1> QED BY <1>1, AlwaysInv, PTL

\* Whatever the sizes of the entries and of the blocks, scan() of such a
\* table, and scan() of any table from the empty string (src/sstable.cpp,
\* SSTable::scan), gives the entries of the range, each once and in order.
THEOREM ScanAlwaysExact == Spec => []ScanIsExact
<1>1. Inv => ScanIsExact
  BY DoneIs DEF ScanIsExact, Safe
<1> QED BY <1>1, AlwaysInv, PTL


=============================================================================
