--------------------------- MODULE MCReplication ---------------------------
(***************************************************************************)
(* Finite instances of Replication.  A thread is a pair of the node it     *)
(* calls and a number.                                                     *)
(***************************************************************************)
EXTENDS Replication

CONSTANTS A, B

\* Two nodes that are peers of each other.
TwoPeers == [n \in Node |-> Node \ {n}]

\* One client thread at each node.
OneClientEach == {A, B} \X {1}

\* Two client threads at node A.
TwoClientsAtA == {A} \X {1, 2}

\* Two client threads at node A and one at node B.
TwoAtAOneAtB == {<<A, 1>>, <<A, 2>>, <<B, 1>>}

\* One gossiper thread at each node.
OneGossiperEach == {A, B} \X {0}

\* A gossiper thread at A only.
GossiperAtA == {A} \X {0}

\* A put that others watch, or a restart, once at node A.
OnceAtA == [n \in Node |-> IF n = A THEN 1 ELSE 0]

OnceEach == [n \in Node |-> 1]

Never == [n \in Node |-> 0]

HomeOfThread == [t \in Thread |-> t[1]]

AllWrite == [k \in Key |-> Node]

\* Every key has one writer: A the odd ones, B the even ones.
OneWriterEach == [k \in Key |-> IF k % 2 = 1 THEN {A} ELSE {B}]

\* Key 1 is written by all nodes, any other by A.
OneShared == [k \in Key |-> IF k = 1 THEN Node ELSE {A}]

=============================================================================
