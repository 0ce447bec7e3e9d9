---------------------------- MODULE ArenaProofs ----------------------------
(***************************************************************************)
(* What the arena hands out, for every block size and every sequence of    *)
(* calls: each call keeps Sound.                                           *)
(***************************************************************************)
EXTENDS Arena, TLAPS

LEMMA NewArenaSound == NewArena \in Arenas /\ Sound(NewArena)
BY DEF NewArena, Arenas, Sound, FreeIsFree

LEMMA SetOffset ==
  ASSUME NEW a \in Arenas, NEW o \in Nat, NEW n \in Nat
  PROVE  [a EXCEPT !.offset = o, !.remaining = n] \in Arenas
BY DEF Arenas

\* A piece that lies in its block and apart from the others may be handed out.
LEMMA HandOutSound ==
  ASSUME NEW a \in Arenas, Sound(a),
         NEW b \in DOMAIN a.blocks, NEW o \in Nat, NEW bytes \in Nat \ {0},
         NEW aligned \in BOOLEAN, b > 0,
         o + bytes <= a.blocks[b],
         aligned => o % Align = 0,
         b = a.block => o + bytes <= a.offset,
         \A c \in a.chunks : c.at[1] = b => c.at[2] + c.size <= o
  PROVE  /\ HandOut(a, <<b, o>>, bytes, aligned) \in Arenas
         /\ Sound(HandOut(a, <<b, o>>, bytes, aligned))
<1> DEFINE new == [at |-> <<b, o>>, size |-> bytes, aligned |-> aligned]
           z   == HandOut(a, <<b, o>>, bytes, aligned)
<1>1. /\ new \in Chunk /\ <<b, o>> \in Address
      /\ new.at[1] = b /\ new.at[2] = o /\ new.size = bytes /\ new.aligned = aligned
  BY DEF Chunk, Address, Arenas
<1> HIDE DEF new
<1>2. z = [a EXCEPT !.result = <<b, o>>, !.chunks = @ \cup {new}]
  BY DEF HandOut, new
<1> HIDE DEF z
<1>3. z \in Arenas
  BY <1>1, <1>2 DEF Arenas
<1>4. /\ z.blocks = a.blocks /\ z.block = a.block /\ z.offset = a.offset
      /\ z.remaining = a.remaining /\ z.chunks = a.chunks \cup {new}
  BY <1>2 DEF Arenas
<1>5. \A c \in a.chunks : c \in Chunk /\ c.at[1] \in Nat /\ c.at[2] \in Nat /\ c.size \in Nat
  BY DEF Arenas, Chunk, Address
<1>6. FreeIsFree(z)
  BY <1>1, <1>4, <1>5 DEF Sound, FreeIsFree
<1>7. \A c \in z.chunks :
        /\ c.at[1] \in DOMAIN z.blocks
        /\ c.at[2] + c.size <= z.blocks[c.at[1]]
        /\ c.aligned => c.at[2] % Align = 0
  BY <1>1, <1>4 DEF Sound
<1>8. \A c \in a.chunks : Apart(c, new) /\ Apart(new, c)
  BY <1>1, <1>5 DEF Apart
<1>9. \A c, d \in z.chunks : c # d => Apart(c, d)
  BY <1>4, <1>8 DEF Sound
<1> QED BY <1>3, <1>6, <1>7, <1>9 DEF Sound, z

\* The free bytes of the current block may be handed out.
LEMMA CutSound ==
  ASSUME NEW a \in Arenas, Sound(a), a.block # 0,
         NEW slop \in Nat, NEW bytes \in Nat \ {0}, NEW aligned \in BOOLEAN,
         slop + bytes <= a.remaining,
         aligned => (a.offset + slop) % Align = 0
  PROVE  /\ Cut(a, slop, bytes, aligned) \in Arenas
         /\ Sound(Cut(a, slop, bytes, aligned))
<1> DEFINE o == a.offset + slop
           z == [a EXCEPT !.offset = @ + slop + bytes,
                          !.remaining = @ - (slop + bytes)]
<1>1. /\ a.block \in DOMAIN a.blocks /\ a.block > 0
      /\ a.offset \in Nat /\ a.remaining \in Nat /\ o \in Nat
      /\ a.offset + a.remaining = a.blocks[a.block]
      /\ \A c \in a.chunks : c.at[1] = a.block => c.at[2] + c.size <= a.offset
      /\ a.blocks[a.block] \in Nat
  BY DEF Sound, FreeIsFree, Arenas
<1>2. \A c \in a.chunks : c.at[2] \in Nat /\ c.size \in Nat
  BY DEF Arenas, Chunk, Address
<1>3. z \in Arenas
  <2>1. /\ a.offset + slop + bytes \in Nat
        /\ a.remaining - (slop + bytes) \in Nat
    BY <1>1
  <2> QED BY <2>1, SetOffset
<1>4. /\ z.blocks = a.blocks /\ z.block = a.block /\ z.chunks = a.chunks
      /\ z.offset = o + bytes /\ z.remaining = a.remaining - (slop + bytes)
  BY <1>1 DEF Arenas
<1>5. Sound(z)
  BY <1>1, <1>2, <1>4 DEF Sound, FreeIsFree
<1>6. /\ HandOut(z, <<a.block, o>>, bytes, aligned) \in Arenas
      /\ Sound(HandOut(z, <<a.block, o>>, bytes, aligned))
  <2>1. /\ z.block \in DOMAIN z.blocks /\ o + bytes <= z.blocks[z.block]
        /\ \A c \in z.chunks : c.at[1] = z.block => c.at[2] + c.size <= o
    BY <1>1, <1>2, <1>4
  <2>2. o + bytes <= z.offset /\ z.block > 0
    BY <1>1, <1>4
  <2> HIDE DEF z
  <2>3. aligned => o % Align = 0
    OBVIOUS
  <2> HIDE DEF o
  <2> QED BY <1>1, <1>3, <1>4, <1>5, <2>1, <2>2, <2>3, HandOutSound
<1>7. Cut(a, slop, bytes, aligned) = HandOut(z, <<a.block, o>>, bytes, aligned)
  BY DEF Cut, HandOut, Arenas
<1> QED BY <1>6, <1>7

\* A new block is nobody's.
LEMMA NewBlockSound ==
  ASSUME NEW a \in Arenas, Sound(a), NEW bytes \in Nat
  PROVE  /\ AllocateNewBlock(a, bytes) \in Arenas
         /\ Sound(AllocateNewBlock(a, bytes))
         /\ AllocateNewBlock(a, bytes).blocks = Append(a.blocks, bytes)
         /\ AllocateNewBlock(a, bytes).block = a.block
         /\ AllocateNewBlock(a, bytes).chunks = a.chunks
<1> DEFINE z == AllocateNewBlock(a, bytes)
<1>1. z \in Arenas
  <2>1. Append(a.blocks, bytes) \in Seq(Nat) /\ a.usage + bytes + Pointer \in Nat
    BY DEF Arenas, Pointer
  <2> QED BY <2>1 DEF AllocateNewBlock, Arenas
<1>2. /\ z.blocks = Append(a.blocks, bytes) /\ z.block = a.block
      /\ z.offset = a.offset /\ z.remaining = a.remaining /\ z.chunks = a.chunks
  BY DEF AllocateNewBlock, Arenas
<1> HIDE DEF z
<1>3. \A b \in DOMAIN a.blocks : b \in DOMAIN z.blocks /\ z.blocks[b] = a.blocks[b]
  BY <1>2 DEF Arenas
<1>4. Sound(z)
  BY <1>2, <1>3 DEF Sound, FreeIsFree
<1> QED BY <1>1, <1>2, <1>4 DEF z

LEMMA FallbackSound ==
  ASSUME NEW a \in Arenas, Sound(a), NEW bytes \in Nat \ {0},
         NEW aligned \in BOOLEAN
  PROVE  /\ AllocateFallback(a, bytes, aligned) \in Arenas
         /\ Sound(AllocateFallback(a, bytes, aligned))
<1> DEFINE b == Len(a.blocks) + 1
<1>1. /\ Len(a.blocks) \in Nat /\ b > 0 /\ b \notin DOMAIN a.blocks /\ a.block # b
      /\ \A c \in a.chunks : c.at[1] # b
  BY DEF Arenas, Sound, FreeIsFree
<1>2. 0 % Align = 0
  BY DEF Align
<1>3. CASE bytes > kBlockSize \div 4
  <2> DEFINE z == AllocateNewBlock(a, bytes)
  <2>1. /\ z \in Arenas /\ Sound(z) /\ z.blocks = Append(a.blocks, bytes)
        /\ z.block = a.block /\ z.chunks = a.chunks
    BY NewBlockSound
  <2>2. b \in DOMAIN z.blocks /\ z.blocks[b] = bytes
    BY <1>1, <2>1 DEF Arenas
  <2>3. \A c \in z.chunks : c.at[1] # b
    BY <1>1, <2>1
  <2> HIDE DEF z, b
  <2>4. /\ HandOut(z, <<b, 0>>, bytes, aligned) \in Arenas
        /\ Sound(HandOut(z, <<b, 0>>, bytes, aligned))
    BY <1>1, <1>2, <2>1, <2>2, <2>3, HandOutSound
  <2> QED BY <1>3, <2>4 DEF AllocateFallback, z, b
<1>4. CASE ~(bytes > kBlockSize \div 4)
  <2> DEFINE y == AllocateNewBlock(a, kBlockSize)
             z == [y EXCEPT !.block = b, !.offset = 0, !.remaining = kBlockSize]
  <2>1. /\ kBlockSize \in Nat /\ bytes <= kBlockSize
    BY <1>4, ArenaAssumption
  <2>2. /\ y \in Arenas /\ Sound(y) /\ y.blocks = Append(a.blocks, kBlockSize)
        /\ y.chunks = a.chunks
    BY <2>1, NewBlockSound
  <2> HIDE DEF y
  <2>3. /\ z \in Arenas /\ z.blocks = y.blocks /\ z.chunks = y.chunks
        /\ z.block = b /\ z.offset = 0 /\ z.remaining = kBlockSize
    <3>1. b \in Nat /\ 0 \in Nat
      BY <1>1
    <3> HIDE DEF b
    <3> QED BY <2>1, <2>2, <3>1 DEF Arenas
  <2>4. b \in DOMAIN z.blocks /\ z.blocks[b] = kBlockSize
    BY <1>1, <2>1, <2>2, <2>3 DEF Arenas
  <2>5. Sound(z)
    BY <1>1, <2>1, <2>2, <2>3, <2>4 DEF Sound, FreeIsFree
  <2> HIDE DEF z, b
  <2>6. /\ z \in Arenas /\ z.block # 0 /\ 0 \in Nat /\ 0 + bytes <= z.remaining
        /\ (z.offset + 0) % Align = 0
    BY <1>1, <1>2, <2>1, <2>3
  <2>7. /\ Cut(z, 0, bytes, aligned) \in Arenas /\ Sound(Cut(z, 0, bytes, aligned))
    <3> HIDE DEF b
    <3> QED BY <2>5, <2>6, CutSound
  <2> QED BY <1>4, <2>7 DEF AllocateFallback, y, z, b
<1> QED BY <1>3, <1>4

\* Who gets bytes from the current block has one.
LEMMA HasBlock ==
  ASSUME NEW a \in Arenas, Sound(a), NEW bytes \in Nat \ {0}, bytes <= a.remaining
  PROVE  a.block # 0
BY DEF Sound, FreeIsFree, Arenas

\* Allocate() cuts a piece off that no one else has.
LEMMA AllocateSound ==
  ASSUME NEW a \in Arenas, Sound(a), NEW bytes \in Nat \ {0}
  PROVE  Allocate(a, bytes) \in Arenas /\ Sound(Allocate(a, bytes))
<1>1. CASE bytes <= a.remaining
  <2>1. a.block # 0 /\ 0 + bytes <= a.remaining
    BY <1>1, HasBlock
  <2>2. Cut(a, 0, bytes, FALSE) \in Arenas /\ Sound(Cut(a, 0, bytes, FALSE))
    BY <2>1, CutSound
  <2> QED BY <1>1, <2>2 DEF Allocate
<1>2. CASE ~(bytes <= a.remaining)
  BY <1>2, FallbackSound DEF Allocate
<1> QED BY <1>1, <1>2

LEMMA SlopAligns ==
  ASSUME NEW a \in Arenas
  PROVE  Slop(a) \in Nat /\ (a.offset + Slop(a)) % Align = 0
<1>1. a.offset \in Nat
  BY DEF Arenas
<1> QED BY <1>1 DEF Slop, Align

\* AllocateAligned() does so at an aligned byte.
LEMMA AllocateAlignedSound ==
  ASSUME NEW a \in Arenas, Sound(a), NEW bytes \in Nat \ {0}
  PROVE  AllocateAligned(a, bytes) \in Arenas /\ Sound(AllocateAligned(a, bytes))
<1>1. Slop(a) \in Nat /\ (a.offset + Slop(a)) % Align = 0
  BY SlopAligns
<1>2. CASE bytes + Slop(a) <= a.remaining
  <2>1. bytes <= a.remaining /\ Slop(a) + bytes <= a.remaining
    BY <1>1, <1>2 DEF Arenas
  <2>2. a.block # 0
    BY <2>1, HasBlock
  <2>3. Cut(a, Slop(a), bytes, TRUE) \in Arenas /\ Sound(Cut(a, Slop(a), bytes, TRUE))
    BY <1>1, <2>1, <2>2, CutSound
  <2> QED BY <1>2, <2>3 DEF AllocateAligned
<1>3. CASE ~(bytes + Slop(a) <= a.remaining)
  BY <1>3, FallbackSound DEF AllocateAligned
<1> QED BY <1>2, <1>3

=============================================================================
