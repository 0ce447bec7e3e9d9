---------------------------- MODULE Replication ----------------------------
(***************************************************************************)
(* The replication layer: the nodes (src/node.cpp), the bus between them   *)
(* (MockTransport in src/transport.h) and the two put() of the engine      *)
(* (src/db.cpp) as the nodes see them.                                     *)
(*                                                                         *)
(* Every public call of Node runs in a client thread: Put writes locally,  *)
(* reads the register back and sends it to each peer, and each of these is *)
(* a step of its own, because nothing is locked across them.  Threads that *)
(* run MockTransport::DeliverAll pop a message under the lock of the bus   *)
(* and hand it to the receiver after they have released it.                *)
(*                                                                         *)
(* The engine of a node is one register per key for the writers, which     *)
(* exclude each other by writer_mutex_.  get_crdt and scan_crdt take no    *)
(* lock: they may find the full memtable neither active nor in the list    *)
(* while a put rotates it, and scan_crdt merges every version that is left *)
(* in a memtable or a file.  So the model also keeps the older versions;   *)
(* how they get into files, and what a crash leaves of them, is the        *)
(* business of StorageEngine, and what a reader sees of a memtable while   *)
(* bytes are written into it that of MemTable: here a register is read     *)
(* whole.                                                                  *)
(***************************************************************************)
EXTENDS LWWRegister, Sequences, FiniteSets

CONSTANTS Key,          \* keys; their order is the order of the strings
          Client,       \* threads that call Node::Put
          Gossiper,     \* threads that call Node::TriggerAntiEntropy
          Deliverer,    \* threads that run MockTransport::DeliverAll
          Home,         \* the node a client or gossiper thread calls
          Peers,        \* the peers_ of each node
          Written,      \* the values clients put; Empty is a remove
          Writer,       \* the nodes whose clients write a key
          NoMsg, NoKey, \* nothing in hand, no key to read back
          NoThread,     \* nobody holds writer_mutex_
          NoScan,       \* no scan under way
          MaxSlow,      \* bound on the puts at a node that others can watch
          MaxPuts,      \* bound on the calls of Node::Put
          MaxQueue,     \* bound on the bus when anti-entropy starts
          GossipAfter,  \* bound: the puts before which nobody gossips
          MaxRestarts,  \* bound on the restarts of a node
          Unreachable   \* the nodes Partition() may cut off

Thread == Client \cup Gossiper

Message == [to : Node, key : Key, reg : Register]

\* What scan_crdt has loaded and read: the number of the memtable that was
\* active, the keys it has still to visit there, and what it found there.
Scan == [to : Node, table : Nat, left : SUBSET Key, seen : [Key -> Register]]

ASSUME ReplicationAssumption ==
  /\ Key \subseteq Nat /\ Key # {}
  /\ Home \in [Thread -> Node]
  /\ Peers \in [Node -> SUBSET Node]
  /\ Written \subseteq Value
  /\ Writer \in [Key -> SUBSET Node]
  /\ NoMsg \notin Message
  /\ NoKey \notin Key
  /\ NoThread \notin Thread \cup Deliverer
  /\ Client \cap Deliverer = {}
  /\ NoScan \notin Scan
  /\ MaxSlow \in [Node -> Nat] /\ MaxRestarts \in [Node -> Nat]
  /\ MaxPuts \in Nat /\ MaxQueue \in Nat /\ GossipAfter \in Nat
  /\ Unreachable \subseteq Node

VARIABLES
  store,       \* store[n][k]: the newest register of k in the engine of n
  localClock,  \* localClock[n]: local_clock_ of the engine of n
  frozen,      \* frozen[n]: the store of n at each rotation of its memtable,
               \* for the versions in immutable memtables and in files;
               \* Nothing where a restart found no file of it
  writing,     \* writing[n]: the thread whose put holds writer_mutex_ of n
               \* when another looks at it
  hidden,      \* the nodes whose full memtable is not active any more and
               \* not yet in the list
  queue,       \* queue_ of the bus
  inHand,      \* inHand[d]: the message d popped and has not delivered
  partitioned, \* partitioned_ of the bus: the receivers that are cut off
  fetching,    \* fetching[t]: the key t has put and not yet read back
  scanning,    \* scanning[t]: the scan of t for a TriggerAntiEntropy
  outbox,      \* outbox[t]: the messages t is about to Send
  issued,      \* history: issued[n][i] is the key of the i-th Put at n
  restarted,   \* history: the nodes that have been restarted
  deleted,     \* history: the keys that have been removed
  dropped,     \* history: the keys a message of which was lost, or of which
               \* an older register than the newest was sent, or none
  puts,        \* number of calls of Node::Put so far
  slow,        \* number of puts at each node that others could watch
  restarts     \* number of restarts of each node

engineVars  == <<store, localClock>>
tableVars   == <<frozen, writing, hidden>>
busVars     == <<queue, inHand, partitioned>>
threadVars  == <<fetching, scanning, outbox>>
historyVars == <<issued, restarted, deleted, dropped>>
vars == <<engineVars, tableVars, busVars, threadVars, historyVars, puts, slow,
          restarts>>

Idle(t) == fetching[t] = NoKey /\ scanning[t] = NoScan /\ outbox[t] = {}

-----------------------------------------------------------------------------
(* The engine. *)

\* No version of any key.
Nothing == [k \in Key |-> Absent]

\* Mistake: a copy of the local clock is incremented.
EnginePutReusesStamp(n, k, v) ==
  /\ UNCHANGED localClock
  /\ store' = [store EXCEPT ![n][k] =
                 [value |-> v, clock |-> Increment(localClock[n], n)]]

\* ZenithDB::put(key, value): a new event of this node, written whatever
\* the engine holds for the key.
EnginePut(n, k, v) ==
  LET c == Increment(localClock[n], n)
  IN  /\ localClock' = [localClock EXCEPT ![n] = c]
      /\ store' = [store EXCEPT ![n][k] = [value |-> v, clock |-> c]]

\* Mistake: what arrives last wins.
ResolveTakesIncoming(existing, incoming) == incoming

\* What put(key, crdt) writes: get_crdt hides an empty register, so it is
\* merged only with a register that has a value.
Resolve(existing, incoming) ==
  IF existing.value = Empty THEN incoming ELSE Merge(incoming, existing)

\* Mistake: the local clock does not learn of the peer's history.
EnginePutCrdtKeepsClock(n, k, incoming) ==
  /\ UNCHANGED localClock
  /\ store' = [store EXCEPT ![n][k] = Resolve(@, incoming)]

\* ZenithDB::put(key, crdt)
EnginePutCrdt(n, k, incoming) ==
  /\ localClock' = [localClock EXCEPT ![n] = MergeClock(@, incoming.clock)]
  /\ store' = [store EXCEPT ![n][k] = Resolve(@, incoming)]

\* What is behind the active memtable: the newest of the versions that were
\* rotated out, or after a restart whatever compactions have made of those
\* that are in files, in whatever order they are listed there.
Behind(n, k) ==
  LET versions == {frozen[n][i][k] : i \in DOMAIN frozen[n]}
  IN  IF frozen[n] = <<>> THEN {Absent}
      ELSE IF n \notin restarted THEN {frozen[n][Len(frozen[n])][k]}
      ELSE {Absent} \cup UNION {Merges(V) : V \in (SUBSET versions) \ {{}}}

\* What get_crdt may find without the mutex.  While a put is under way the
\* range strings of the active memtable are being assigned, or it is full and
\* nowhere to be found.
Reads(n, k) ==
  (IF n \in hidden THEN {} ELSE {store[n][k]})
    \cup (IF writing[n] = NoThread THEN {} ELSE Behind(n, k))

\* A put of thread p takes the mutex of n, and has returned before anybody
\* looks, or not.
Take(n, p) ==
  /\ writing[n] = NoThread
  /\ \/ UNCHANGED <<writing, slow>>
     \/ /\ slow[n] < MaxSlow[n]
        /\ slow' = [slow EXCEPT ![n] = @ + 1]
        /\ writing' = [writing EXCEPT ![n] = p]

\* The memtable is full, and a fresh one becomes the active one.
Swap(n) ==
  /\ writing[n] # NoThread
  /\ hidden' = hidden \cup {n}
  /\ UNCHANGED <<engineVars, frozen, writing, busVars, threadVars, historyVars,
                 puts, slow, restarts>>

\* The full memtable, if it was, is linked, and the put returns.
EndPut(n) ==
  /\ writing[n] # NoThread
  /\ writing' = [writing EXCEPT ![n] = NoThread]
  /\ frozen' = IF n \in hidden THEN [frozen EXCEPT ![n] = Append(@, store[n])]
               ELSE frozen
  /\ hidden' = hidden \ {n}
  /\ UNCHANGED <<engineVars, busVars, threadVars, historyVars, puts, slow,
                 restarts>>

-----------------------------------------------------------------------------
(* The client threads. *)

\* Node::Put, first statement; v = Empty is ZenithDB::remove.
Put(t, k, v) ==
  /\ Idle(t)
  /\ Home[t] \in Writer[k]
  /\ puts < MaxPuts
  /\ Take(Home[t], t)
  /\ EnginePut(Home[t], k, v)
  /\ fetching' = [fetching EXCEPT ![t] = k]
  /\ deleted' = IF v = Empty THEN deleted \cup {k} ELSE deleted
  /\ issued' = [issued EXCEPT ![Home[t]] = Append(@, k)]
  /\ puts' = puts + 1
  /\ UNCHANGED <<frozen, hidden, busVars, scanning, outbox, restarted, dropped,
                 restarts>>

\* Node::Put, second statement: read the register back and, if there is
\* one, PushToReplicas: one message for each peer.
FetchForPush(t) ==
  /\ fetching[t] # NoKey
  /\ writing[Home[t]] # t
  /\ LET n == Home[t]
         k == fetching[t]
     IN \E reg \in Reads(n, k) :
          /\ outbox' = [outbox EXCEPT ![t] =
                          IF reg.value = Empty THEN {}
                          ELSE [to : Peers[n], key : {k}, reg : {reg}]]
          /\ dropped' = IF reg = store[n][k] THEN dropped ELSE dropped \cup {k}
  /\ fetching' = [fetching EXCEPT ![t] = NoKey]
  /\ UNCHANGED <<engineVars, tableVars, busVars, scanning, issued, restarted,
                 deleted, puts, slow, restarts>>

\* The memtables of n by their numbers: the last but for the fresh one is the
\* one that is being written.
Table(n, i) ==
  IF i \in DOMAIN frozen[n] THEN frozen[n][i]
  ELSE IF i = Len(frozen[n]) + 1 THEN store[n] ELSE Nothing

\* The scan c at n reads the least key it has not visited.
Visit(n, c) ==
  LET k == CHOOSE j \in c.left : \A i \in c.left : j <= i
  IN  [c EXCEPT !.left = @ \ {k}, !.seen[k] = Table(n, c.table)[k]]

\* Node::TriggerAntiEntropy(target) calls scan_crdt, which takes no lock: it
\* loads the active memtable first, the fresh one if the full one is hidden.
\* It reads the first key there at the same time: a later read finds what one
\* just before the memtable is replaced finds, or any time if it never is.
TriggerAntiEntropy(t, target) ==
  /\ Idle(t)
  /\ target \in Peers[Home[t]]
  /\ Len(queue) < MaxQueue
  /\ puts >= GossipAfter
  /\ LET n == Home[t]
     IN scanning' = [scanning EXCEPT ![t] =
          Visit(n, [to |-> target, left |-> Key, seen |-> Nothing,
                    table |-> Len(frozen[n]) + IF n \in hidden THEN 2 ELSE 1])]
  /\ UNCHANGED <<engineVars, tableVars, busVars, fetching, outbox, historyVars,
                 puts, slow, restarts>>

\* scan_crdt walks the keys of that memtable in ascending order and reads
\* each at a time of its own.
ScanNext(t) ==
  /\ scanning[t] # NoScan
  /\ scanning[t].left # {}
  /\ scanning' = [scanning EXCEPT ![t] = Visit(Home[t], @)]
  /\ UNCHANGED <<engineVars, tableVars, busVars, fetching, outbox, historyVars,
                 puts, slow, restarts>>

\* The versions of a key that a scan of n has before it: what it has seen,
\* and what is in the list and in the files.
ToMerge(n, k, seen) == {seen[k]} \cup {frozen[n][i][k] : i \in DOMAIN frozen[n]}

\* Mistake: empty registers are sent too.
ScanListKeepsEmpty(t) ==
  /\ scanning[t] # NoScan
  /\ scanning[t].left = {}
  /\ LET found == [k \in Key |-> Merges(ToMerge(Home[t], k, scanning[t].seen))]
     IN \E result \in [Key -> UNION {found[k] : k \in Key}] :
          /\ \A k \in Key : result[k] \in found[k]
          /\ outbox' = [outbox EXCEPT ![t] =
               {[to |-> scanning[t].to, key |-> k, reg |-> result[k]] : k \in Key}]
  /\ scanning' = [scanning EXCEPT ![t] = NoScan]
  /\ UNCHANGED <<engineVars, tableVars, busVars, fetching, historyVars, puts,
                 slow, restarts>>

\* scan_crdt loads the list and the layout, which do not change under it, and
\* merges all versions of each key; TriggerAntiEntropy makes a message of
\* every result that has a value.
ScanList(t) ==
  /\ scanning[t] # NoScan
  /\ scanning[t].left = {}
  /\ LET found == [k \in Key |-> Merges(ToMerge(Home[t], k, scanning[t].seen))]
     IN \E result \in [Key -> UNION {found[k] : k \in Key}] :
          /\ \A k \in Key : result[k] \in found[k]
          /\ outbox' = [outbox EXCEPT ![t] =
               {[to |-> scanning[t].to, key |-> k, reg |-> result[k]] :
                  k \in {j \in Key : result[j].value # Empty}}]
  /\ scanning' = [scanning EXCEPT ![t] = NoScan]
  /\ UNCHANGED <<engineVars, tableVars, busVars, fetching, historyVars, puts,
                 slow, restarts>>

\* MockTransport::Send: a push sends one key to every peer, anti-entropy
\* sends the keys in ascending order to one.
Send(t) ==
  /\ scanning[t] = NoScan
  /\ \E m \in outbox[t] :
       /\ \A o \in outbox[t] : m.key <= o.key
       /\ queue' = Append(queue, m)
       /\ outbox' = [outbox EXCEPT ![t] = @ \ {m}]
  /\ UNCHANGED <<engineVars, tableVars, inHand, partitioned, fetching, scanning,
                 historyVars, puts, slow, restarts>>

-----------------------------------------------------------------------------
(* The bus. *)

\* Mistake: the newest message is popped.
PopNewest(d) ==
  /\ inHand[d] = NoMsg
  /\ queue # <<>>
  /\ inHand' = [inHand EXCEPT ![d] = queue[Len(queue)]]
  /\ queue' = SubSeq(queue, 1, Len(queue) - 1)
  /\ UNCHANGED <<engineVars, tableVars, partitioned, threadVars, historyVars,
                 puts, slow, restarts>>

\* DeliverAll, the part under the lock.
Pop(d) ==
  /\ inHand[d] = NoMsg
  /\ \A n \in Node : writing[n] # d
  /\ queue # <<>>
  /\ inHand' = [inHand EXCEPT ![d] = Head(queue)]
  /\ queue' = Tail(queue)
  /\ UNCHANGED <<engineVars, tableVars, partitioned, threadVars, historyVars,
                 puts, slow, restarts>>

\* DeliverAll after the unlock: a message to a node that is cut off is
\* dropped, any other is handed to Node::OnMessage.
Deliver(d) ==
  /\ inHand[d] # NoMsg
  /\ LET m == inHand[d]
     IN IF m.to \in partitioned
        THEN /\ dropped' = dropped \cup {m.key}
             /\ UNCHANGED <<engineVars, writing, slow>>
        ELSE /\ Take(m.to, d)
             /\ EnginePutCrdt(m.to, m.key, m.reg)
             /\ UNCHANGED dropped
  /\ inHand' = [inHand EXCEPT ![d] = NoMsg]
  /\ UNCHANGED <<frozen, hidden, queue, partitioned, threadVars, issued,
                 restarted, deleted, puts, restarts>>

\* MockTransport::Partition(n, cut)
Partition(n, cut) ==
  /\ n \in Unreachable
  /\ partitioned' = IF cut THEN partitioned \cup {n} ELSE partitioned \ {n}
  /\ UNCHANGED <<engineVars, tableVars, queue, inHand, threadVars, historyVars,
                 puts, slow, restarts>>

\* A node goes away between two calls of its threads' and is opened again on
\* the same directory: the log gives the registers back, and of the older
\* versions those are there that had been flushed; but local_clock_ is
\* default-constructed, and what its threads had still to send is lost.
Restart(n) ==
  /\ restarts[n] < MaxRestarts[n]
  /\ writing[n] = NoThread
  /\ LET own  == {t \in Thread : Home[t] = n}
         lost == {m.key : m \in UNION {outbox[t] : t \in own}}
                   \cup ({fetching[t] : t \in own} \ {NoKey})
     IN /\ fetching' = [t \in Thread |-> IF t \in own THEN NoKey
                                                      ELSE fetching[t]]
        /\ scanning' = [t \in Thread |-> IF t \in own THEN NoScan
                                                      ELSE scanning[t]]
        /\ outbox' = [t \in Thread |-> IF t \in own THEN {} ELSE outbox[t]]
        /\ dropped' = dropped \cup lost
  /\ \E F \in SUBSET (DOMAIN frozen[n]) :
       frozen' = [frozen EXCEPT ![n] =
                    [i \in DOMAIN @ |-> IF i \in F THEN @[i] ELSE Nothing]]
  /\ localClock' = [localClock EXCEPT ![n] = ZeroClock]
  /\ restarted' = restarted \cup {n}
  /\ restarts' = [restarts EXCEPT ![n] = @ + 1]
  /\ UNCHANGED <<store, writing, hidden, busVars, issued, deleted, puts, slow>>

-----------------------------------------------------------------------------
Init ==
  /\ store = [n \in Node |-> Nothing]
  /\ localClock = [n \in Node |-> ZeroClock]
  /\ frozen = [n \in Node |-> <<>>]
  /\ writing = [n \in Node |-> NoThread]
  /\ hidden = {}
  /\ queue = <<>>
  /\ inHand = [d \in Deliverer |-> NoMsg]
  /\ partitioned = {}
  /\ fetching = [t \in Thread |-> NoKey]
  /\ scanning = [t \in Thread |-> NoScan]
  /\ outbox = [t \in Thread |-> {}]
  /\ issued = [n \in Node |-> <<>>]
  /\ restarted = {} /\ deleted = {} /\ dropped = {}
  /\ puts = 0
  /\ slow = [n \in Node |-> 0] /\ restarts = [n \in Node |-> 0]

Next ==
  \/ \E t \in Client, k \in Key, v \in Written : Put(t, k, v)
  \/ \E t \in Client : FetchForPush(t)
  \/ \E t \in Gossiper, target \in Node : TriggerAntiEntropy(t, target)
  \/ \E t \in Gossiper : ScanNext(t)
  \/ \E t \in Gossiper : ScanList(t)
  \/ \E t \in Thread : Send(t)
  \/ \E d \in Deliverer : Pop(d)
  \/ \E d \in Deliverer : Deliver(d)
  \/ \E n \in Node, cut \in BOOLEAN : Partition(n, cut)
  \/ \E n \in Node : Swap(n)
  \/ \E n \in Node : EndPut(n)
  \/ \E n \in Node : Restart(n)

Spec == Init /\ [][Next]_vars

\* A thread that is inside a call goes on, the bus is pumped, and
\* every gossiper calls TriggerAntiEntropy again and again for every peer.
\* The last is what the documents ask of the caller ("periodically").
Fairness ==
  /\ \A t \in Client : WF_vars(FetchForPush(t))
  /\ \A n \in Node : WF_vars(EndPut(n))
  /\ \A t \in Gossiper : WF_vars(ScanNext(t)) /\ WF_vars(ScanList(t))
  /\ \A t \in Thread : WF_vars(Send(t))
  /\ \A d \in Deliverer : WF_vars(Pop(d)) /\ WF_vars(Deliver(d))
  /\ \A t \in Gossiper, n \in Node : SF_vars(TriggerAntiEntropy(t, n))

FairSpec == Spec /\ Fairness

-----------------------------------------------------------------------------
(* Properties. *)

TypeOK ==
  /\ store \in [Node -> [Key -> Register]]
  /\ localClock \in [Node -> Clock]
  /\ frozen \in [Node -> Seq([Key -> Register])]
  /\ writing \in [Node -> Thread \cup Deliverer \cup {NoThread}]
  /\ hidden \in SUBSET {n \in Node : writing[n] # NoThread}
  /\ queue \in Seq(Message)
  /\ inHand \in [Deliverer -> Message \cup {NoMsg}]
  /\ partitioned \in SUBSET Node
  /\ fetching \in [Thread -> Key \cup {NoKey}]
  /\ scanning \in [Thread -> Scan \cup {NoScan}]
  /\ outbox \in [Thread -> SUBSET Message]
  /\ issued \in [Node -> Seq(Key)]
  /\ restarted \in SUBSET Node
  /\ deleted \in SUBSET Key
  /\ dropped \in SUBSET Key
  /\ puts \in Nat
  /\ slow \in [Node -> Nat] /\ restarts \in [Node -> Nat]

\* The local clock of a node that has not been restarted is at least the
\* clock of everything its engine holds: a local put, which never looks at
\* what it overwrites, therefore wins over it everywhere.
LocalClockCovers ==
  \A n \in Node \ restarted, k \in Key : Leq(store[n][k].clock, localClock[n])

\* The older versions of a key that are left somewhere, and those that a scan
\* has read.
OldVersions(k) ==
  (UNION {{frozen[n][i][k] : i \in DOMAIN frozen[n]} : n \in Node})
    \cup {scanning[t].seen[k] : t \in {u \in Thread : scanning[u] # NoScan}}

\* The clocks that are somewhere in the system: stored, counted by an
\* engine, or on their way.
KnownClocks ==
  {store[n][k].clock : n \in Node, k \in Key}
    \cup {reg.clock : reg \in UNION {OldVersions(k) : k \in Key}}
    \cup {localClock[n] : n \in Node}
    \cup {queue[i].reg.clock : i \in 1..Len(queue)}
    \cup {inHand[d].reg.clock : d \in {e \in Deliverer : inHand[e] # NoMsg}}
    \cup {m.reg.clock : m \in UNION {outbox[t] : t \in Thread}}

\* Nobody knows an event of a node that the node has not counted: two
\* puts of a node that has not been restarted never carry the same stamp.
OwnCounterLeads ==
  \A m \in Node \ restarted : \A c \in KnownClocks : c[m] <= localClock[m][m]

\* The register of a key that is not deleted never goes back in causal
\* history, whatever is delivered and in which order, at a node that has
\* not been restarted.
LiveNeverRegresses ==
  [][\A n \in Node \ restarted, k \in Key :
       store[n][k].value # Empty
         => Leq(store[n][k].clock, store'[n][k].clock)]_vars

\* Nothing is on its way.
Quiescent ==
  /\ queue = <<>>
  /\ \A d \in Deliverer : inHand[d] = NoMsg
  /\ \A t \in Thread : Idle(t)

\* The keys whose newest register was pushed by every put that read it back,
\* and whose messages were delivered.  A read back beside the put of another
\* thread may miss the register, and then nothing repairs it but gossip or
\* another put.
Replicated == Key \ (deleted \cup dropped)

\* When nothing is on its way all nodes know the same history of a key,
\* whatever threads and messages overtook each other.  (With the full mesh
\* of peers, without a restart, and for the keys no read back of which missed
\* the newest register.)
QuiescentClocksAgree ==
  Quiescent /\ restarted = {} =>
    \A k \in Replicated, n, m \in Node :
      store[n][k].clock = store[m][k].clock

\* When nothing is on its way all nodes hold the same register of a key
\* that only one node writes, under the same conditions on the key.
SoleWriterConverged ==
  Quiescent =>
    \A k \in Replicated, n, m \in Node :
      Cardinality(Writer[k]) = 1 => store[n][k] = store[m][k]

\* A node that shows a register shows everything it depends on: if a
\* register at n knows the i-th put of m, the register of the key of that
\* put knows it too.  (Again for the keys no read back of which missed the
\* newest register: a put that is not pushed is overtaken by any later one.)
CausalDelivery ==
  restarted = {} =>
    \A n, m \in Node : \A i \in DOMAIN issued[m] :
      LET k == issued[m][i]
      IN k \in Replicated /\ (\E j \in Key : store[n][j].clock[m] >= i)
           => store[n][k].clock[m] >= i

\* When writers stop and the cuts end, gossip makes all nodes know the same
\* history, even if pushed messages were dropped.
EventualClockAgreement ==
  <>[](partitioned = {}) =>
  <>[](\A k \in Key, n, m \in Node : store[n][k].clock = store[m][k].clock)

\* When writers stop, gossip makes all nodes hold the same registers.
EventualConvergence ==
  <>[](\A k \in Key, n, m \in Node : store[n][k] = store[m][k])

-----------------------------------------------------------------------------
(* The abstract network. *)

\* The messages that have been read from a store and not yet delivered.
InTransit ==
  {queue[i] : i \in 1..Len(queue)}
    \cup {inHand[d] : d \in {e \in Deliverer : inHand[e] # NoMsg}}
    \cup (UNION {outbox[t] : t \in Thread})

\* The versions of a key behind the newest that a node, or a scan of it, can
\* still find.
Findable(n, k) ==
  {Absent} \cup {frozen[n][i][k] : i \in DOMAIN frozen[n]}
    \cup {scanning[t].seen[k] :
            t \in {u \in Thread : Home[u] = n /\ scanning[u] # NoScan}}

Gossip == INSTANCE GossipStore
            WITH held <- store, clock <- localClock,
                 kept <- [n \in Node |-> [k \in Key |-> Findable(n, k)]],
                 onWay <- {[key |-> m.key, reg |-> m.reg] : m \in InTransit}

\* Whatever threads interleave, whatever memtables are rotated under a read,
\* and whatever is queued, popped, cut off or lost in a restart, a node
\* receives only what a node made of registers of the key that it had held,
\* and with a value, and what else it holds it put itself: the read back of a
\* put, the scan key by key and the two halves of a delivery cannot be seen.
ImplementsGossip == Gossip!Spec

=============================================================================
