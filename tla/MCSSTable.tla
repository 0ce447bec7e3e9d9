----------------------------- MODULE MCSSTable -----------------------------
(***************************************************************************)
(* Finite instances of SSTable: small keys, entries of a few sizes, and    *)
(* hash values that collide.                                               *)
(***************************************************************************)
EXTENDS SSTable

CONSTANT EntrySize

\* The table with the keys of D, the entry of k being size[k] bytes long.
TableOf(D, size) ==
  [i \in 1..Cardinality(D) |->
     LET k == CHOOSE k \in D : Cardinality({j \in D : j <= k}) = i
     IN  [key |-> k, size |-> size[k]]]

AllTables ==
  UNION {{TableOf(D, size) : size \in [D -> EntrySize]} :
           D \in (SUBSET Key) \ {{}}}

\* Two hash values of a key.
TwoHashes == [k \in Key |-> {k * 5, k * 5 + 9}]

=============================================================================
