------------------------------- MODULE Arena -------------------------------
(***************************************************************************)
(* The arena of a memtable (src/arena.h): memory is cut from the front of  *)
(* the current block, or from a block of its own when the piece is large,  *)
(* and freed with the arena only.                                          *)
(*                                                                         *)
(* An arena is a record; each operator gives the arena after a call, with  *)
(* the address the call returns in "result".  An address is a block and a  *)
(* byte of it.  new char[] aligns a block, so a byte of a block is aligned *)
(* when its number is.                                                     *)
(***************************************************************************)
EXTENDS Integers, Sequences, FiniteSets

CONSTANTS kBlockSize,  \* bytes of a block (4096)
          nullptr      \* no address

ASSUME ArenaAssumption == kBlockSize \in Nat \ {0}

\* The alignment and the size of a pointer on the 64-bit builds.
Align   == 8
Pointer == 8

Address == (Nat \ {0}) \X Nat

\* A piece of memory that was handed out, and whether AllocateAligned did.
Chunk == [at : Address, size : Nat \ {0}, aligned : BOOLEAN]

Arenas ==
  [blocks : Seq(Nat),        \* the sizes of blocks_
   block : Nat,              \* the block alloc_ptr_ is in, 0 for none
   offset : Nat,             \* alloc_ptr_ within it
   remaining : Nat,          \* alloc_bytes_remaining_
   usage : Nat,              \* memory_usage_
   result : Address \cup {nullptr},
   chunks : SUBSET Chunk]    \* history: what has been handed out

NewArena == [blocks |-> <<>>, block |-> 0, offset |-> 0, remaining |-> 0,
             usage |-> 0, result |-> nullptr, chunks |-> {}]

AllocateNewBlock(a, bytes) ==
  [a EXCEPT !.blocks = Append(@, bytes), !.usage = @ + bytes + Pointer]

HandOut(a, address, bytes, aligned) ==
  [a EXCEPT !.result = address,
            !.chunks = @ \cup {[at |-> address, size |-> bytes,
                                aligned |-> aligned]}]

\* The next bytes of the current block, after slop bytes that are wasted.
Cut(a, slop, bytes, aligned) ==
  [HandOut(a, <<a.block, a.offset + slop>>, bytes, aligned)
     EXCEPT !.offset = @ + slop + bytes, !.remaining = @ - (slop + bytes)]

\* A large piece gets a block of its own and leaves the current one alone;
\* otherwise the rest of the current block is wasted.
AllocateFallback(a, bytes, aligned) ==
  LET b == Len(a.blocks) + 1
  IN  IF bytes > kBlockSize \div 4
      THEN HandOut(AllocateNewBlock(a, bytes), <<b, 0>>, bytes, aligned)
      ELSE Cut([AllocateNewBlock(a, kBlockSize) EXCEPT
                  !.block = b, !.offset = 0, !.remaining = kBlockSize],
               0, bytes, aligned)

Allocate(a, bytes) ==
  IF bytes <= a.remaining THEN Cut(a, 0, bytes, FALSE)
                          ELSE AllocateFallback(a, bytes, FALSE)

Slop(a) == IF a.offset % Align = 0 THEN 0 ELSE Align - (a.offset % Align)

\* Mistake: the slop is skipped but not taken from what remains.
AllocateAlignedForgets(a, bytes) ==
  IF bytes + Slop(a) <= a.remaining
  THEN [Cut(a, Slop(a), bytes, TRUE) EXCEPT !.remaining = a.remaining - bytes]
  ELSE AllocateFallback(a, bytes, TRUE)

AllocateAligned(a, bytes) ==
  IF bytes + Slop(a) <= a.remaining THEN Cut(a, Slop(a), bytes, TRUE)
                                    ELSE AllocateFallback(a, bytes, TRUE)

-----------------------------------------------------------------------------
(* What an arena promises. *)

\* Two pieces share no byte.
Apart(c, d) ==
  \/ c.at[1] # d.at[1]
  \/ c.at[2] + c.size <= d.at[2]
  \/ d.at[2] + d.size <= c.at[2]

\* The free bytes are the end of the current block and nobody has them.
FreeIsFree(a) ==
  IF a.block = 0 THEN a.remaining = 0 /\ a.offset = 0
  ELSE /\ a.block \in DOMAIN a.blocks
       /\ a.offset + a.remaining = a.blocks[a.block]
       /\ \A c \in a.chunks :
            c.at[1] = a.block => c.at[2] + c.size <= a.offset

\* Every piece lies in a block, the aligned ones at an aligned byte, and no
\* two overlap: what a reader sees through a pointer is never written again.
Sound(a) ==
  /\ FreeIsFree(a)
  /\ \A c \in a.chunks :
       /\ c.at[1] \in DOMAIN a.blocks
       /\ c.at[2] + c.size <= a.blocks[c.at[1]]
       /\ c.aligned => c.at[2] % Align = 0
  /\ \A c, d \in a.chunks : c # d => Apart(c, d)

=============================================================================
