---------------------------- MODULE GossipStore ----------------------------
(***************************************************************************)
(* What nodes make of each other's registers, without threads, calls,      *)
(* queue, receivers, cuts or memtables: at any time a node may publish     *)
(* what comes of merging registers of a key that it holds or has held, for *)
(* some keys at once, and any node may receive any of those under way, in  *)
(* any order, more than once, or never.  Replication implements this; what *)
(* it says beyond is the order of messages and who gets them.              *)
(***************************************************************************)
EXTENDS LWWRegister

CONSTANTS Key, Written, Writer

VARIABLES held,     \* held[n][k]: the register of k at n
          kept,     \* kept[n][k]: the older ones that n can still find
          clock,    \* clock[n]: what n counts
          onWay     \* the registers under way, each with its key

vars == <<held, kept, clock, onWay>>

Init ==
  /\ held = [n \in Node |-> [k \in Key |-> Absent]]
  /\ kept = [n \in Node |-> [k \in Key |-> {Absent}]]
  /\ clock = [n \in Node |-> ZeroClock]
  /\ onWay = {}

\* A node finds again only what it has held, and may forget it.
Keep ==
  \A n \in Node, k \in Key : \A reg \in kept'[n][k] :
    reg = held'[n][k] \/ reg \in kept[n][k]

\* The next event of n.
Put(n, k, v) ==
  /\ n \in Writer[k]
  /\ clock' = [clock EXCEPT ![n] = Increment(@, n)]
  /\ held' = [held EXCEPT ![n][k] = [value |-> v, clock |-> clock'[n]]]
  /\ UNCHANGED onWay

\* A removed key is not published.
Publish(n) ==
  /\ UNCHANGED <<held, clock>>
  /\ onWay \subseteq onWay'
  /\ \A x \in onWay' \ onWay :
       /\ x.reg.value # Empty
       /\ \E V \in SUBSET (kept[n][x.key] \cup {held[n][x.key]}) :
            V # {} /\ x.reg \in Merges(V)

\* What comes in is merged with what has a value; x may come again.
Receive(n, x) ==
  /\ clock' = [clock EXCEPT ![n] = MergeClock(@, x.reg.clock)]
  /\ held' = [held EXCEPT ![n][x.key] =
                IF @.value = Empty THEN x.reg ELSE Merge(x.reg, @)]
  /\ onWay' \in {onWay, onWay \ {x}}

\* Registers are cut off from their receiver.
Lose ==
  /\ UNCHANGED <<held, clock>>
  /\ onWay' \subseteq onWay

\* A restart: what n counted is lost, and what it had still to send.
Restart(n) ==
  /\ clock' = [clock EXCEPT ![n] = ZeroClock]
  /\ UNCHANGED held
  /\ onWay' \subseteq onWay

Next ==
  /\ Keep
  /\ \/ Lose
     \/ \E n \in Node, k \in Key, v \in Written : Put(n, k, v)
     \/ \E n \in Node : Publish(n)
     \/ \E n \in Node : \E x \in onWay : Receive(n, x)
     \/ \E n \in Node : Restart(n)

Spec == Init /\ [][Next]_vars

=============================================================================
