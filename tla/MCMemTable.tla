----------------------------- MODULE MCMemTable -----------------------------
(***************************************************************************)
(* A finite instance of MemTable with the block size of the code: a long   *)
(* key and values of a quarter of a block and one byte more reach a second *)
(* block and blocks of their own within a few puts.                        *)
(***************************************************************************)
EXTENDS MemTable

SomeKeySizes == [k \in Key |-> IF k = 1 THEN 880 ELSE IF k = 2 THEN 1000 ELSE 3]

SomeValueSizes ==
  [k \in Key |-> IF k = 1 THEN {0, 1024} ELSE IF k = 2 THEN {1025} ELSE {9, 1024}]

\* All keys; a get is a scan of one.
SomeRanges == {<<1, 3>>}

=============================================================================
