-------------------------- MODULE MCStorageEngine --------------------------
(***************************************************************************)
(* Finite instances of StorageEngine: two node ids, the one of the engine  *)
(* and one whose registers arrive from the network; keys are 1 and 2.      *)
(***************************************************************************)
EXTENDS StorageEngine

CONSTANTS self, peer

\* Registers of the peer, one of them newer than the other.
SomeIncoming ==
  {[value |-> 1, clock |-> [ZeroClock EXCEPT ![peer] = c]] : c \in {1, 2}}

NothingIncoming == [k \in Key |-> {}]

\* Both arrive for key 1, and what the peer made of the newer of them and of
\* the first put of this node; the older one arrives for key 2.
MixedIncoming ==
  [k \in Key |->
     IF k = 1
     THEN SomeIncoming \cup {[value |-> 2, clock |-> [n \in Node |-> IF n = peer THEN 2 ELSE 1]]}
     ELSE {reg \in SomeIncoming : reg.clock[peer] = 1}]

\* Every key is put.
PutAll == [k \in Key |-> {1}]

\* Both keys are put, and key 1 is removed.
RemoveOne == [k \in Key |-> IF k = 1 THEN {0, 1} ELSE {1}]

=============================================================================
