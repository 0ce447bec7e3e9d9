------------------------- MODULE ReplicationProofs -------------------------
(***************************************************************************)
(* Theorems about Replication, for every set of nodes, keys, values and    *)
(* threads and every bound, and for every mesh of peers but where FullMesh *)
(* is assumed; causal delivery is about two nodes.  TypeOK is inductive,   *)
(* LocalClockCovers and OwnCounterLeads are each inductive relative to it, *)
(* the agreement of quiescent nodes follows from AgreeInv and SoleInv,     *)
(* causal delivery from CausalInv, and the refinement of GossipStore from  *)
(* Private.                                                                *)
(***************************************************************************)
EXTENDS Replication, LWWRegisterProofs, SequenceTheorems, FiniteSetTheorems

-----------------------------------------------------------------------------
(* Type correctness. *)

\* The register that put(key, crdt) writes is a register.
LEMMA ResolveType ==
  ASSUME NEW a \in Register, NEW b \in Register
  PROVE  Resolve(a, b) \in Register
  BY MergeType DEF Resolve

LEMMA AbsentType == Absent \in Register
  BY ValueAssumption, ClockType DEF ValueAssumption, Absent, Register, Empty

LEMMA NothingType == Nothing \in [Key -> Register]
  BY AbsentType DEF Nothing

LEMMA TypeInit == Init => TypeOK
  BY NothingType, ClockType, ReplicationAssumption
  DEF Init, TypeOK, ReplicationAssumption

\* A put that takes the mutex leaves the types alone.
LEMMA TypeTake ==
  ASSUME TypeOK, NEW n \in Node, NEW p \in Thread \cup Deliverer, Take(n, p)
  PROVE  /\ writing' \in [Node -> Thread \cup Deliverer \cup {NoThread}]
         /\ slow' \in [Node -> Nat]
         /\ hidden \in SUBSET {m \in Node : writing'[m] # NoThread}
<1>1. p # NoThread
  BY ReplicationAssumption DEF ReplicationAssumption
<1>2. \A m \in Node : writing[m] # NoThread => writing'[m] # NoThread
  BY <1>1 DEF Take, TypeOK
<1>3. CASE UNCHANGED <<writing, slow>>
  BY <1>3 DEF TypeOK
<1>4. CASE /\ slow' = [slow EXCEPT ![n] = @ + 1]
           /\ writing' = [writing EXCEPT ![n] = p]
  BY <1>2, <1>4 DEF TypeOK
<1> QED BY <1>3, <1>4 DEF Take

LEMMA TypePut ==
  ASSUME TypeOK, NEW t \in Client, NEW k \in Key, NEW v \in Written, Put(t, k, v)
  PROVE  TypeOK'
<1> DEFINE n == Home[t]
           c == Increment(localClock[n], n)
<1>1. n \in Node /\ t \in Thread /\ v \in Value
  BY ReplicationAssumption DEF ReplicationAssumption, Thread
<1>2. c \in Clock
  BY <1>1, ClockType DEF TypeOK
<1>3. localClock' = [localClock EXCEPT ![n] = c]
  BY DEF Put, EnginePut
<1>4. store' = [store EXCEPT ![n][k] = [value |-> v, clock |-> c]]
  BY DEF Put, EnginePut
<1>5. [value |-> v, clock |-> c] \in Register
  BY <1>1, <1>2 DEF Register
<1>6. store' \in [Node -> [Key -> Register]]
  BY <1>1, <1>4, <1>5 DEF TypeOK
<1>7. localClock' \in [Node -> Clock]
  BY <1>1, <1>2, <1>3 DEF TypeOK
<1>8. issued' \in [Node -> Seq(Key)]
  <2>1. Append(issued[n], k) \in Seq(Key)
    BY <1>1, AppendProperties DEF TypeOK
  <2> QED BY <1>1, <2>1 DEF TypeOK, Put
<1>9. fetching' \in [Thread -> Key \cup {NoKey}]
  BY <1>1 DEF TypeOK, Put
<1>10. deleted' \in SUBSET Key /\ puts' \in Nat
  BY DEF TypeOK, Put
<1>11. /\ writing' \in [Node -> Thread \cup Deliverer \cup {NoThread}]
       /\ slow' \in [Node -> Nat]
       /\ hidden' \in SUBSET {m \in Node : writing'[m] # NoThread}
  BY <1>1, TypeTake DEF Put
<1> QED
  BY <1>6, <1>7, <1>8, <1>9, <1>10, <1>11 DEF TypeOK, Put, busVars

\* The older versions of a key are finitely many registers.
LEMMA VersionsType ==
  ASSUME TypeOK, NEW n \in Node, NEW k \in Key
  PROVE  /\ {frozen[n][i][k] : i \in DOMAIN frozen[n]} \in SUBSET Register
         /\ IsFiniteSet({frozen[n][i][k] : i \in DOMAIN frozen[n]})
<1>1. /\ Len(frozen[n]) \in Nat /\ DOMAIN frozen[n] = 1..Len(frozen[n])
      /\ \A i \in 1..Len(frozen[n]) : frozen[n][i] \in [Key -> Register]
  BY DEF TypeOK
<1>2. IsFiniteSet(1..Len(frozen[n]))
  BY <1>1, FS_Interval
<1> DEFINE version == [i \in 1..Len(frozen[n]) |-> frozen[n][i][k]]
<1>3. IsFiniteSet({version[i] : i \in 1..Len(frozen[n])})
  BY <1>2, ImageFinite
<1>4. {version[i] : i \in 1..Len(frozen[n])} = {frozen[n][i][k] : i \in DOMAIN frozen[n]}
  BY <1>1
<1>5. {frozen[n][i][k] : i \in DOMAIN frozen[n]} \in SUBSET Register
  BY <1>1
<1> QED BY <1>3, <1>4, <1>5

\* What get_crdt finds is the newest register, or it comes of versions that
\* were rotated out, which are those themselves until the node restarts.
LEMMA ReadsAre ==
  ASSUME TypeOK, NEW n \in Node, NEW k \in Key, NEW reg \in Reads(n, k)
  PROVE  \/ reg = store[n][k]
         \/ reg = Absent
         \/ n \notin restarted /\ \E i \in DOMAIN frozen[n] : reg = frozen[n][i][k]
         \/ \E V \in SUBSET {frozen[n][i][k] : i \in DOMAIN frozen[n]} :
              V # {} /\ reg \in Merges(V)
<1>1. CASE reg = store[n][k]
  BY <1>1
<1>2. CASE reg \in Behind(n, k)
  <2>1. CASE frozen[n] = <<>>
    BY <1>2, <2>1 DEF Behind
  <2>2. CASE frozen[n] # <<>> /\ n \notin restarted
    <3>1. Len(frozen[n]) \in DOMAIN frozen[n]
      BY <2>2 DEF TypeOK
    <3> QED BY <1>2, <2>2, <3>1 DEF Behind
  <2>3. CASE frozen[n] # <<>> /\ n \in restarted
    <3> DEFINE W == {frozen[n][i][k] : i \in DOMAIN frozen[n]}
    <3>1. Behind(n, k) = {Absent} \cup UNION {Merges(V) : V \in (SUBSET W) \ {{}}}
      BY <2>3 DEF Behind
    <3> HIDE DEF W
    <3>2. reg = Absent \/ \E V \in (SUBSET W) \ {{}} : reg \in Merges(V)
      BY <1>2, <3>1
    <3>3. reg = Absent \/ \E V \in SUBSET W : V # {} /\ reg \in Merges(V)
      BY <3>2
    <3> QED BY <3>3 DEF W
  <2> QED BY <2>1, <2>2, <2>3
<1> QED BY <1>1, <1>2 DEF Reads

LEMMA MergesType ==
  ASSUME NEW V \in SUBSET Register, IsFiniteSet(V)
  PROVE  Merges(V) \subseteq Register
<1>1. \A a, b \in Register : Merge(a, b) \in Register
  BY MergeType
<1> QED BY <1>1, MergesStay

LEMMA ReadsType ==
  ASSUME TypeOK, NEW n \in Node, NEW k \in Key
  PROVE  Reads(n, k) \subseteq Register
<1> SUFFICES ASSUME NEW reg \in Reads(n, k) PROVE reg \in Register
  OBVIOUS
<1> DEFINE W == {frozen[n][i][k] : i \in DOMAIN frozen[n]}
<1>1. W \subseteq Register /\ IsFiniteSet(W)
  BY VersionsType
<1>2. store[n][k] \in Register /\ Absent \in Register
  BY AbsentType DEF TypeOK
<1>3. \A V \in SUBSET W : Merges(V) \subseteq Register
  BY <1>1, FS_Subset, MergesType
<1>4. \A i \in DOMAIN frozen[n] : frozen[n][i][k] \in W
  OBVIOUS
<1> HIDE DEF W
<1>5. \/ reg = store[n][k] \/ reg = Absent \/ reg \in W
      \/ \E V \in SUBSET W : reg \in Merges(V)
  BY <1>4, ReadsAre DEF W
<1> QED BY <1>1, <1>2, <1>3, <1>5

LEMMA TypeFetchForPush ==
  ASSUME TypeOK, NEW t \in Client, FetchForPush(t)
  PROVE  TypeOK'
<1> DEFINE n   == Home[t]
           k   == fetching[t]
           new(reg) == IF reg.value = Empty THEN {}
                       ELSE [to : Peers[n], key : {k}, reg : {reg}]
<1>1. n \in Node /\ t \in Thread /\ Peers[n] \subseteq Node
  BY ReplicationAssumption DEF ReplicationAssumption, Thread
<1>2. k \in Key
  BY <1>1 DEF TypeOK, FetchForPush
<1>3. PICK reg \in Reads(n, k) :
        /\ outbox' = [outbox EXCEPT ![t] = new(reg)]
        /\ dropped' = IF reg = store[n][k] THEN dropped ELSE dropped \cup {k}
  BY DEF FetchForPush
<1>4. reg \in Register
  BY <1>1, <1>2, ReadsType
<1>5. new(reg) \subseteq Message
  BY <1>1, <1>2, <1>4 DEF Message
<1> HIDE DEF new
<1>6. outbox' \in [Thread -> SUBSET Message]
  BY <1>1, <1>3, <1>5 DEF TypeOK
<1>7. fetching' \in [Thread -> Key \cup {NoKey}]
  BY <1>1 DEF TypeOK, FetchForPush
<1>8. dropped' \in SUBSET Key
  BY <1>2, <1>3 DEF TypeOK
<1> QED
  BY <1>6, <1>7, <1>8
  DEF TypeOK, FetchForPush, engineVars, tableVars, busVars

LEMMA TypeSwap ==
  ASSUME TypeOK, NEW n \in Node, Swap(n)
  PROVE  TypeOK'
  BY DEF TypeOK, Swap, engineVars, busVars, threadVars, historyVars

LEMMA TypeEndPut ==
  ASSUME TypeOK, NEW n \in Node, EndPut(n)
  PROVE  TypeOK'
<1>1. Append(frozen[n], store[n]) \in Seq([Key -> Register])
  BY AppendProperties DEF TypeOK
<1>2. frozen' \in [Node -> Seq([Key -> Register])]
  BY <1>1 DEF TypeOK, EndPut
<1>3. writing' \in [Node -> Thread \cup Deliverer \cup {NoThread}]
  BY DEF TypeOK, EndPut
<1>4. hidden' \in SUBSET {m \in Node : writing'[m] # NoThread}
  <2>1. \A m \in Node \ {n} : writing'[m] = writing[m]
    BY DEF TypeOK, EndPut
  <2> QED BY <2>1 DEF TypeOK, EndPut
<1> QED
  BY <1>2, <1>3, <1>4
  DEF TypeOK, EndPut, engineVars, busVars, threadVars, historyVars

\* The images of memtables are stores.
LEMMA TableType ==
  ASSUME TypeOK, NEW n \in Node, NEW i
  PROVE  /\ Table(n, i) \in [Key -> Register]
         /\ \/ Table(n, i) = store[n] \/ Table(n, i) = Nothing
            \/ \E j \in DOMAIN frozen[n] : Table(n, i) = frozen[n][j]
<1>1. CASE i \in DOMAIN frozen[n]
  BY <1>1 DEF Table, TypeOK
<1>2. CASE i \notin DOMAIN frozen[n]
  BY <1>2, NothingType DEF Table, TypeOK
<1> QED BY <1>1, <1>2

\* A visit reads one key.
LEMMA VisitIs ==
  ASSUME TypeOK, NEW n \in Node, NEW c \in Scan, c.left # {}
  PROVE  \E k \in c.left :
           Visit(n, c) = [to |-> c.to, table |-> c.table, left |-> c.left \ {k},
                          seen |-> [c.seen EXCEPT ![k] = Table(n, c.table)[k]]]
<1> DEFINE k == CHOOSE j \in c.left : \A i \in c.left : j <= i
<1>1. c.left \in SUBSET Nat
  BY ReplicationAssumption DEF ReplicationAssumption, Scan
<1>2. k \in c.left
  BY <1>1, LeastExists
<1>3. Visit(n, c) = [c EXCEPT !.left = @ \ {k}, !.seen[k] = Table(n, c.table)[k]]
  BY DEF Visit
<1> HIDE DEF k
<1>4. c = [to |-> c.to, table |-> c.table, left |-> c.left, seen |-> c.seen]
  BY DEF Scan
<1> QED BY <1>2, <1>3, <1>4

LEMMA VisitType ==
  ASSUME TypeOK, NEW n \in Node, NEW c \in Scan, c.left # {}
  PROVE  Visit(n, c) \in Scan
<1>1. PICK k \in c.left :
        Visit(n, c) = [to |-> c.to, table |-> c.table, left |-> c.left \ {k},
                       seen |-> [c.seen EXCEPT ![k] = Table(n, c.table)[k]]]
  BY VisitIs
<1>2. k \in Key /\ Table(n, c.table) \in [Key -> Register]
  BY TableType DEF Scan
<1>3. [c.seen EXCEPT ![k] = Table(n, c.table)[k]] \in [Key -> Register]
  BY <1>2 DEF Scan
<1> QED BY <1>1, <1>3 DEF Scan

\* The scan that TriggerAntiEntropy starts.
Started(n, target) ==
  [to |-> target, left |-> Key, seen |-> Nothing,
   table |-> Len(frozen[n]) + IF n \in hidden THEN 2 ELSE 1]

LEMMA StartedType ==
  ASSUME TypeOK, NEW n \in Node, NEW target \in Node
  PROVE  Started(n, target) \in Scan /\ Started(n, target).left # {}
<1>1. Len(frozen[n]) \in Nat
  BY DEF TypeOK
<1>2. (Len(frozen[n]) + IF n \in hidden THEN 2 ELSE 1) \in Nat
  <2>1. Len(frozen[n]) + 1 \in Nat /\ Len(frozen[n]) + 2 \in Nat
    BY <1>1
  <2> QED BY <2>1, Zenon
<1> QED BY <1>2, NothingType, ReplicationAssumption
        DEF ReplicationAssumption, Started, Scan

LEMMA TypeTriggerAntiEntropy ==
  ASSUME TypeOK, NEW t \in Gossiper, NEW target \in Node,
         TriggerAntiEntropy(t, target)
  PROVE  TypeOK'
<1>1. t \in Thread /\ Home[t] \in Node
  BY ReplicationAssumption DEF ReplicationAssumption, Thread
<1>2. scanning' = [scanning EXCEPT ![t] = Visit(Home[t], Started(Home[t], target))]
  BY DEF TriggerAntiEntropy, Started
<1>3. Visit(Home[t], Started(Home[t], target)) \in Scan
  BY <1>1, StartedType, VisitType
<1>4. scanning' \in [Thread -> Scan \cup {NoScan}]
  BY <1>1, <1>2, <1>3 DEF TypeOK
<1> QED
  BY <1>4
  DEF TypeOK, TriggerAntiEntropy, engineVars, tableVars, busVars, historyVars

LEMMA TypeScanNext ==
  ASSUME TypeOK, NEW t \in Gossiper, ScanNext(t)
  PROVE  TypeOK'
<1>1. t \in Thread /\ Home[t] \in Node
  BY ReplicationAssumption DEF ReplicationAssumption, Thread
<1>2. scanning[t] \in Scan /\ scanning[t].left # {}
  BY <1>1 DEF TypeOK, ScanNext
<1>3. Visit(Home[t], scanning[t]) \in Scan
  BY <1>1, <1>2, VisitType
<1>4. scanning' \in [Thread -> Scan \cup {NoScan}]
  BY <1>1, <1>3 DEF TypeOK, ScanNext
<1> QED
  BY <1>4 DEF TypeOK, ScanNext, engineVars, tableVars, busVars, historyVars

\* What a scan merges are finitely many registers.
LEMMA ToMergeType ==
  ASSUME TypeOK, NEW t \in Thread, scanning[t] # NoScan, NEW k \in Key
  PROVE  /\ ToMerge(Home[t], k, scanning[t].seen) \in SUBSET Register
         /\ IsFiniteSet(ToMerge(Home[t], k, scanning[t].seen))
<1>1. Home[t] \in Node /\ scanning[t].seen[k] \in Register
  BY ReplicationAssumption DEF ReplicationAssumption, TypeOK, Scan
<1>2. IsFiniteSet({scanning[t].seen[k]})
  BY FS_Singleton
<1> QED BY <1>1, <1>2, VersionsType, FS_Union DEF ToMerge

\* A scan ends with messages of its results.
LEMMA ScanListIs ==
  ASSUME TypeOK, NEW t \in Gossiper, ScanList(t)
  PROVE  \E new \in SUBSET Message :
           /\ outbox' = [outbox EXCEPT ![t] = new]
           /\ \A y \in new :
                /\ y.reg.value # Empty
                /\ y.reg \in Merges(ToMerge(Home[t], y.key, scanning[t].seen))
<1> DEFINE found == [k \in Key |-> Merges(ToMerge(Home[t], k, scanning[t].seen))]
<1>1. t \in Thread /\ scanning[t] \in Scan /\ scanning[t] # NoScan
  BY DEF Thread, TypeOK, ScanList
<1>2. PICK result \in [Key -> UNION {found[k] : k \in Key}] :
        /\ \A k \in Key : result[k] \in found[k]
        /\ outbox' = [outbox EXCEPT ![t] =
             {[to |-> scanning[t].to, key |-> k, reg |-> result[k]] :
                k \in {j \in Key : result[j].value # Empty}}]
  BY DEF ScanList
<1> DEFINE new == {[to |-> scanning[t].to, key |-> k, reg |-> result[k]] :
                     k \in {j \in Key : result[j].value # Empty}}
<1>3. \A k \in Key : result[k] \in Merges(ToMerge(Home[t], k, scanning[t].seen))
  BY <1>2
<1>4. \A k \in Key : result[k] \in Register
  BY <1>1, <1>3, ToMergeType, MergesType
<1>5. new \in SUBSET Message
  BY <1>1, <1>4 DEF Message, Scan
<1>6. \A y \in new :
        /\ y.reg.value # Empty
        /\ y.reg \in Merges(ToMerge(Home[t], y.key, scanning[t].seen))
  BY <1>3
<1> QED BY <1>2, <1>5, <1>6

LEMMA TypeScanList ==
  ASSUME TypeOK, NEW t \in Gossiper, ScanList(t)
  PROVE  TypeOK'
<1>1. PICK new \in SUBSET Message : outbox' = [outbox EXCEPT ![t] = new]
  BY ScanListIs
<1>2. outbox' \in [Thread -> SUBSET Message]
  BY <1>1 DEF TypeOK
<1>3. scanning' \in [Thread -> Scan \cup {NoScan}]
  BY DEF TypeOK, ScanList
<1> QED
  BY <1>2, <1>3 DEF TypeOK, ScanList, engineVars, tableVars, busVars, historyVars

LEMMA TypeSend ==
  ASSUME TypeOK, NEW t \in Thread, Send(t)
  PROVE  TypeOK'
<1>1. PICK m \in outbox[t] : /\ queue' = Append(queue, m)
                             /\ outbox' = [outbox EXCEPT ![t] = @ \ {m}]
  BY DEF Send
<1>2. m \in Message
  BY DEF TypeOK
<1>3. queue' \in Seq(Message)
  BY <1>1, <1>2, AppendProperties DEF TypeOK
<1>4. outbox' \in [Thread -> SUBSET Message]
  BY <1>1 DEF TypeOK
<1> QED
  BY <1>3, <1>4 DEF TypeOK, Send, engineVars, tableVars, historyVars

LEMMA TypePop ==
  ASSUME TypeOK, NEW d \in Deliverer, Pop(d)
  PROVE  TypeOK'
<1>1. Head(queue) \in Message /\ Tail(queue) \in Seq(Message)
  BY HeadTailProperties DEF TypeOK, Pop
<1>2. inHand' \in [Deliverer -> Message \cup {NoMsg}]
  BY <1>1 DEF TypeOK, Pop
<1> QED
  BY <1>1, <1>2 DEF TypeOK, Pop, engineVars, tableVars, threadVars, historyVars

LEMMA TypeDeliver ==
  ASSUME TypeOK, NEW d \in Deliverer, Deliver(d)
  PROVE  TypeOK'
<1> DEFINE m == inHand[d]
<1>1. m \in Message
  BY DEF TypeOK, Deliver
<1>2. m.to \in Node /\ m.key \in Key /\ m.reg \in Register /\ m.reg.clock \in Clock
  BY <1>1 DEF Message, Register
<1>3. store' \in [Node -> [Key -> Register]] /\ localClock' \in [Node -> Clock]
      /\ dropped' \in SUBSET Key
  <2>1. CASE m.to \in partitioned
    BY <1>2, <2>1 DEF TypeOK, Deliver, engineVars
  <2>2. CASE m.to \notin partitioned
    <3>1. store[m.to][m.key] \in Register /\ localClock[m.to] \in Clock
      BY <1>2 DEF TypeOK
    <3>2. Resolve(store[m.to][m.key], m.reg) \in Register
      BY <1>2, <3>1, ResolveType
    <3>3. MergeClock(localClock[m.to], m.reg.clock) \in Clock
      BY <1>2, <3>1, ClockType
    <3>4. store' = [store EXCEPT ![m.to][m.key] =
                      Resolve(store[m.to][m.key], m.reg)]
      BY <2>2, <1>2 DEF Deliver, EnginePutCrdt, TypeOK
    <3>5. localClock' = [localClock EXCEPT ![m.to] =
                           MergeClock(localClock[m.to], m.reg.clock)]
      BY <2>2, <1>2 DEF Deliver, EnginePutCrdt, TypeOK
    <3>6. dropped' = dropped
      BY <2>2 DEF Deliver
    <3> QED BY <1>2, <3>2, <3>3, <3>4, <3>5, <3>6 DEF TypeOK
  <2> QED BY <2>1, <2>2
<1>4. inHand' \in [Deliverer -> Message \cup {NoMsg}]
  BY DEF TypeOK, Deliver
<1>5. /\ writing' \in [Node -> Thread \cup Deliverer \cup {NoThread}]
      /\ slow' \in [Node -> Nat]
      /\ hidden' \in SUBSET {n \in Node : writing'[n] # NoThread}
  <2>1. CASE m.to \in partitioned
    BY <2>1 DEF Deliver, TypeOK
  <2>2. CASE m.to \notin partitioned
    BY <1>2, <2>2, TypeTake DEF Deliver
  <2> QED BY <2>1, <2>2
<1> QED
  BY <1>3, <1>4, <1>5 DEF TypeOK, Deliver, threadVars

LEMMA TypePartition ==
  ASSUME TypeOK, NEW n \in Node, NEW cut \in BOOLEAN, Partition(n, cut)
  PROVE  TypeOK'
  BY DEF TypeOK, Partition, engineVars, tableVars, threadVars, historyVars

LEMMA TypeRestart ==
  ASSUME TypeOK, NEW n \in Node, Restart(n)
  PROVE  TypeOK'
<1>1. fetching' \in [Thread -> Key \cup {NoKey}]
  BY DEF TypeOK, Restart
<1>2. scanning' \in [Thread -> Scan \cup {NoScan}]
  BY DEF TypeOK, Restart
<1>3. outbox' \in [Thread -> SUBSET Message]
  BY DEF TypeOK, Restart
<1>4. dropped' \in SUBSET Key
  <2> DEFINE own  == {t \in Thread : Home[t] = n}
             sent == {m.key : m \in UNION {outbox[t] : t \in own}}
             read == {fetching[t] : t \in own} \ {NoKey}
  <2>1. sent \subseteq Key
    BY DEF TypeOK, Message
  <2>2. read \subseteq Key
    BY DEF TypeOK
  <2>3. dropped' = dropped \cup (sent \cup read)
    BY DEF Restart
  <2> QED BY <2>1, <2>2, <2>3 DEF TypeOK
<1>5. localClock' \in [Node -> Clock]
  BY ClockType DEF TypeOK, Restart
<1>6. frozen' \in [Node -> Seq([Key -> Register])]
  <2>1. PICK F \in SUBSET (DOMAIN frozen[n]) :
          frozen' = [frozen EXCEPT ![n] =
                       [i \in DOMAIN frozen[n] |-> IF i \in F THEN frozen[n][i]
                                                   ELSE Nothing]]
    BY DEF Restart, TypeOK
  <2>2. frozen[n] \in Seq([Key -> Register])
    BY DEF TypeOK
  <2>3. [i \in DOMAIN frozen[n] |-> IF i \in F THEN frozen[n][i] ELSE Nothing]
          \in Seq([Key -> Register])
    BY <2>2, NothingType
  <2> QED BY <2>1, <2>3 DEF TypeOK
<1>7. restarts' \in [Node -> Nat]
  BY DEF TypeOK, Restart
<1> QED
  BY <1>1, <1>2, <1>3, <1>4, <1>5, <1>6, <1>7 DEF TypeOK, Restart, busVars

LEMMA TypeStep == TypeOK /\ [Next]_vars => TypeOK'
<1> SUFFICES ASSUME TypeOK, [Next]_vars
             PROVE  TypeOK'
  OBVIOUS
<1>1. CASE Next
  BY <1>1, TypePut, TypeFetchForPush, TypeTriggerAntiEntropy, TypeScanNext,
     TypeScanList, TypeSend, TypePop, TypeDeliver, TypePartition, TypeSwap,
     TypeEndPut, TypeRestart DEF Next
<1>2. CASE UNCHANGED vars
  BY <1>2 DEF vars, TypeOK, engineVars, tableVars, busVars, threadVars, historyVars
<1> QED BY <1>1, <1>2

\* Every variable keeps its type: in particular no clock and no register
\* leaves its set, whatever is merged with whatever.
THEOREM TypeCorrect == Spec => []TypeOK
  BY TypeInit, TypeStep, PTL DEF Spec

-----------------------------------------------------------------------------
(* The local clock covers the engine, and a live register never goes back. *)

\* What put(key, crdt) writes is at least the incoming register, at least
\* the stored one if that has a value, and at most any bound of both.
LEMMA ResolveClock ==
  ASSUME NEW a \in Register, NEW b \in Register
  PROVE  /\ Resolve(a, b).clock \in Clock
         /\ Leq(b.clock, Resolve(a, b).clock)
         /\ a.value # Empty => Leq(a.clock, Resolve(a, b).clock)
         /\ \A e \in Clock : Leq(a.clock, e) /\ Leq(b.clock, e)
                               => Leq(Resolve(a, b).clock, e)
<1>1. a.clock \in Clock /\ b.clock \in Clock
  BY DEF Register
<1>2. CASE a.value = Empty
  BY <1>1, <1>2, LeqIsPartialOrder DEF Resolve
<1>3. CASE a.value # Empty
  <2>1. Resolve(a, b).clock = MergeClock(b.clock, a.clock)
    BY <1>3, MergeJoinsClocks DEF Resolve
  <2> QED BY <1>1, <2>1, ClockType, MergeClockIsJoin
<1> QED BY <1>2, <1>3

\* What a step does to the engines: nothing, one local put, one delivered
\* register, or a restart.
PutStep(n, k, v) ==
  /\ EnginePut(n, k, v)
  /\ UNCHANGED restarted

DeliverStep(n, k, reg) ==
  /\ \E y \in InTransit : y.key = k /\ y.reg = reg
  /\ EnginePutCrdt(n, k, reg)
  /\ UNCHANGED restarted

RestartStep(n) ==
  /\ UNCHANGED store
  /\ localClock' = [localClock EXCEPT ![n] = ZeroClock]
  /\ restarted' = restarted \cup {n}

LEMMA EngineSteps ==
  ASSUME TypeOK, [Next]_vars
  PROVE  \/ UNCHANGED <<store, localClock, restarted>>
         \/ \E n \in Node, k \in Key, v \in Value : PutStep(n, k, v)
         \/ \E n \in Node, k \in Key, reg \in Register : DeliverStep(n, k, reg)
         \/ \E n \in Node : RestartStep(n)
<1>1. ASSUME NEW t \in Client, NEW k \in Key, NEW v \in Written, Put(t, k, v)
      PROVE  \E n \in Node, j \in Key, w \in Value : PutStep(n, j, w)
  <2>1. Home[t] \in Node /\ v \in Value
    BY ReplicationAssumption DEF ReplicationAssumption, Thread
  <2>2. PutStep(Home[t], k, v)
    BY <1>1 DEF Put, PutStep
  <2> QED BY <2>1, <2>2
<1>2. ASSUME NEW d \in Deliverer, Deliver(d)
      PROVE  \/ UNCHANGED <<store, localClock, restarted>>
             \/ \E n \in Node, k \in Key, reg \in Register :
                  DeliverStep(n, k, reg)
  <2>1. inHand[d] \in Message
    BY <1>2 DEF TypeOK, Deliver
  <2>2. /\ inHand[d].to \in Node /\ inHand[d].key \in Key
        /\ inHand[d].reg \in Register
    BY <2>1 DEF Message
  <2>3. CASE inHand[d].to \in partitioned
    BY <1>2, <2>3 DEF Deliver, engineVars
  <2>4. CASE inHand[d].to \notin partitioned
    <3>1. inHand[d] \in InTransit
      BY <1>2 DEF Deliver, InTransit
    <3>2. DeliverStep(inHand[d].to, inHand[d].key, inHand[d].reg)
      BY <1>2, <2>4, <3>1 DEF Deliver, DeliverStep
    <3> QED BY <2>2, <3>2
  <2> QED BY <2>3, <2>4
<1>3. ASSUME NEW n \in Node, Restart(n)
      PROVE  RestartStep(n)
  BY <1>3 DEF Restart, RestartStep
<1>4. ASSUME NEW t \in Thread,
             \/ FetchForPush(t)
             \/ \E target \in Node : TriggerAntiEntropy(t, target)
             \/ ScanNext(t)
             \/ ScanList(t)
             \/ Send(t)
      PROVE  UNCHANGED <<store, localClock, restarted>>
  BY <1>4 DEF FetchForPush, TriggerAntiEntropy, ScanNext, ScanList, Send,
              engineVars, historyVars
<1>5. ASSUME NEW d \in Deliverer, Pop(d)
      PROVE  UNCHANGED <<store, localClock, restarted>>
  BY <1>5 DEF Pop, engineVars, historyVars
<1>6. ASSUME NEW n \in Node,
             Swap(n) \/ EndPut(n) \/ \E cut \in BOOLEAN : Partition(n, cut)
      PROVE  UNCHANGED <<store, localClock, restarted>>
  BY <1>6 DEF Swap, EndPut, Partition, engineVars, historyVars
<1>7. CASE Next
  BY <1>1, <1>2, <1>3, <1>4, <1>5, <1>6, <1>7 DEF Next, Thread
<1>8. CASE UNCHANGED vars
  BY <1>8 DEF vars, engineVars, historyVars
<1> QED BY <1>7, <1>8

\* A local put raises the local clock, and only at its node.
LEMMA IncrementRaises ==
  ASSUME NEW c \in Clock, NEW n \in Node
  PROVE  /\ Leq(c, Increment(c, n))
         /\ Increment(c, n)[n] = c[n] + 1
         /\ \A m \in Node \ {n} : Increment(c, n)[m] = c[m]
  BY DEF Clock, Leq, Increment

LEMMA CoversInit == Init => LocalClockCovers
<1> SUFFICES ASSUME Init, NEW n \in Node \ restarted, NEW k \in Key
             PROVE  Leq(store[n][k].clock, localClock[n])
  BY DEF LocalClockCovers
<1>1. store[n][k].clock = ZeroClock /\ localClock[n] = ZeroClock
  BY DEF Init, Nothing, Absent
<1> QED BY <1>1, ClockType, LeqIsPartialOrder

LEMMA CoversStep ==
  TypeOK /\ LocalClockCovers /\ [Next]_vars => LocalClockCovers'
<1> SUFFICES ASSUME TypeOK, LocalClockCovers, [Next]_vars,
                    NEW n \in Node \ restarted', NEW k \in Key
             PROVE  Leq(store'[n][k].clock, localClock'[n])
  BY DEF LocalClockCovers
<1>0. /\ store[n][k] \in Register /\ store[n][k].clock \in Clock
      /\ localClock[n] \in Clock
  BY DEF TypeOK, Register
<1>1. CASE UNCHANGED <<store, localClock, restarted>>
  BY <1>1 DEF LocalClockCovers
<1>2. ASSUME NEW m \in Node, NEW j \in Key, NEW v \in Value, PutStep(m, j, v)
      PROVE  Leq(store'[n][k].clock, localClock'[n])
  <2> DEFINE c == Increment(localClock[m], m)
  <2>1. /\ localClock' = [localClock EXCEPT ![m] = c]
        /\ store' = [store EXCEPT ![m][j] = [value |-> v, clock |-> c]]
        /\ n \notin restarted
    BY <1>2 DEF PutStep, EnginePut
  <2>2. localClock[m] \in Clock /\ c \in Clock
    BY ClockType DEF TypeOK
  <2>3. Leq(store[n][k].clock, localClock[n])
    BY <2>1 DEF LocalClockCovers
  <2>4. CASE m # n
    BY <2>1, <2>3, <2>4 DEF TypeOK
  <2>5. CASE m = n /\ j = k
    <3>1. store'[n][k].clock = c /\ localClock'[n] = c
      BY <2>1, <2>5 DEF TypeOK
    <3> QED BY <2>2, <3>1, LeqIsPartialOrder
  <2>6. CASE m = n /\ j # k
    <3>1. store'[n][k] = store[n][k] /\ localClock'[n] = c
      BY <2>1, <2>6 DEF TypeOK
    <3>2. Leq(localClock[n], c)
      BY <2>2, <2>6, IncrementRaises
    <3> QED BY <1>0, <2>2, <2>3, <3>1, <3>2, LeqIsPartialOrder
  <2> QED BY <2>4, <2>5, <2>6
<1>3. ASSUME NEW m \in Node, NEW j \in Key, NEW reg \in Register,
             DeliverStep(m, j, reg)
      PROVE  Leq(store'[n][k].clock, localClock'[n])
  <2> DEFINE c == MergeClock(localClock[m], reg.clock)
             r == Resolve(store[m][j], reg)
  <2>1. /\ localClock' = [localClock EXCEPT ![m] = c]
        /\ store' = [store EXCEPT ![m][j] = r]
        /\ n \notin restarted
    BY <1>3 DEF DeliverStep, EnginePutCrdt, TypeOK
  <2>2. /\ localClock[m] \in Clock /\ reg.clock \in Clock /\ c \in Clock
        /\ store[m][j] \in Register
    BY ClockType DEF TypeOK, Register
  <2>3. Leq(store[n][k].clock, localClock[n])
    BY <2>1 DEF LocalClockCovers
  <2>4. Leq(localClock[m], c) /\ Leq(reg.clock, c)
    BY <2>2, MergeClockIsJoin
  <2>5. CASE m # n
    BY <2>1, <2>3, <2>5 DEF TypeOK
  <2>6. CASE m = n /\ j = k
    <3>1. store'[n][k] = r /\ localClock'[n] = c
      BY <2>1, <2>6 DEF TypeOK
    <3>2. Leq(store[n][k].clock, c)
      BY <1>0, <2>2, <2>3, <2>4, <2>6, LeqIsPartialOrder
    <3> QED BY <2>2, <2>4, <2>6, <3>1, <3>2, ResolveClock
  <2>7. CASE m = n /\ j # k
    <3>1. store'[n][k] = store[n][k] /\ localClock'[n] = c
      BY <2>1, <2>7 DEF TypeOK
    <3> QED BY <1>0, <2>2, <2>3, <2>4, <2>7, <3>1, LeqIsPartialOrder
  <2> QED BY <2>5, <2>6, <2>7
<1>4. ASSUME NEW m \in Node, RestartStep(m)
      PROVE  Leq(store'[n][k].clock, localClock'[n])
  <2>1. n # m /\ n \notin restarted
    BY <1>4 DEF RestartStep
  <2> QED BY <1>4, <2>1 DEF RestartStep, LocalClockCovers, TypeOK
<1> QED BY <1>1, <1>2, <1>3, <1>4, EngineSteps

\* The local clock of a node that was not restarted covers its engine, so a
\* local put dominates whatever it overwrites unread.
THEOREM LocalClockAlwaysCovers == Spec => []LocalClockCovers
<1>1. Init => TypeOK /\ LocalClockCovers
  BY TypeInit, CoversInit
<1>2. (TypeOK /\ LocalClockCovers) /\ [Next]_vars
        => (TypeOK /\ LocalClockCovers)'
  BY TypeStep, CoversStep
<1> QED BY <1>1, <1>2, PTL DEF Spec

\* One step of LiveNeverRegresses.
LiveStep ==
  \A n \in Node \ restarted, k \in Key :
    store[n][k].value # Empty => Leq(store[n][k].clock, store'[n][k].clock)

LEMMA LiveStepHolds == TypeOK /\ LocalClockCovers /\ [Next]_vars => LiveStep
<1> SUFFICES ASSUME TypeOK, LocalClockCovers, [Next]_vars,
                    NEW n \in Node \ restarted, NEW k \in Key,
                    store[n][k].value # Empty
             PROVE  Leq(store[n][k].clock, store'[n][k].clock)
  BY DEF LiveStep
<1>0. /\ store[n][k] \in Register /\ store[n][k].clock \in Clock
      /\ localClock[n] \in Clock
      /\ Leq(store[n][k].clock, localClock[n])
  BY DEF TypeOK, Register, LocalClockCovers
<1>1. CASE UNCHANGED store
  BY <1>0, <1>1, LeqIsPartialOrder
<1>2. ASSUME NEW m \in Node, NEW j \in Key, NEW v \in Value, PutStep(m, j, v)
      PROVE  Leq(store[n][k].clock, store'[n][k].clock)
  <2> DEFINE c == Increment(localClock[m], m)
  <2>1. store' = [store EXCEPT ![m][j] = [value |-> v, clock |-> c]]
    BY <1>2 DEF PutStep, EnginePut
  <2>2. CASE m = n /\ j = k
    <3>1. store'[n][k].clock = Increment(localClock[n], n)
      BY <2>1, <2>2 DEF TypeOK
    <3>2. Leq(localClock[n], Increment(localClock[n], n))
      BY <1>0, IncrementRaises
    <3>3. Increment(localClock[n], n) \in Clock
      BY <1>0, ClockType
    <3> QED BY <1>0, <3>1, <3>2, <3>3, LeqIsPartialOrder
  <2>3. CASE ~(m = n /\ j = k)
    BY <1>0, <2>1, <2>3, LeqIsPartialOrder DEF TypeOK
  <2> QED BY <2>2, <2>3
<1>3. ASSUME NEW m \in Node, NEW j \in Key, NEW reg \in Register,
             DeliverStep(m, j, reg)
      PROVE  Leq(store[n][k].clock, store'[n][k].clock)
  <2>1. store' = [store EXCEPT ![m][j] = Resolve(store[m][j], reg)]
    BY <1>3 DEF DeliverStep, EnginePutCrdt, TypeOK
  <2>2. CASE m = n /\ j = k
    <3>1. store'[n][k] = Resolve(store[n][k], reg)
      BY <2>1, <2>2 DEF TypeOK
    <3> QED BY <1>0, <3>1, ResolveClock
  <2>3. CASE ~(m = n /\ j = k)
    BY <1>0, <2>1, <2>3, LeqIsPartialOrder DEF TypeOK
  <2> QED BY <2>2, <2>3
<1> QED BY <1>1, <1>2, <1>3, EngineSteps DEF RestartStep

\* A register that is not deleted never goes back in causal history.
THEOREM LiveRegistersNeverRegress == Spec => LiveNeverRegresses
<1>1. Init => TypeOK /\ LocalClockCovers
  BY TypeInit, CoversInit
<1>2. (TypeOK /\ LocalClockCovers) /\ [Next]_vars
        => (TypeOK /\ LocalClockCovers)'
  BY TypeStep, CoversStep
<1>3. (TypeOK /\ LocalClockCovers) /\ [Next]_vars => [LiveStep]_vars
  BY LiveStepHolds
<1> QED BY <1>1, <1>2, <1>3, PTL DEF Spec, LiveNeverRegresses, LiveStep

-----------------------------------------------------------------------------
(* No two puts of a node carry the same stamp. *)

LEMMA InTransitType == TypeOK => InTransit \subseteq Message
<1> SUFFICES ASSUME TypeOK PROVE InTransit \subseteq Message
  OBVIOUS
<1>1. \A i \in 1..Len(queue) : queue[i] \in Message
  BY ElementOfSeq DEF TypeOK
<1>2. \A d \in Deliverer : inHand[d] # NoMsg => inHand[d] \in Message
  BY DEF TypeOK
<1>3. \A t \in Thread : outbox[t] \subseteq Message
  BY DEF TypeOK
<1> QED BY <1>1, <1>2, <1>3 DEF InTransit

\* What it is to be an old version of a key somewhere, or at a node.
LEMMA FindableIs ==
  ASSUME NEW n, NEW k, NEW reg
  PROVE  /\ reg \in Findable(n, k) <=>
              \/ reg = Absent
              \/ \E i \in DOMAIN frozen[n] : reg = frozen[n][i][k]
              \/ \E t \in Thread : /\ Home[t] = n /\ scanning[t] # NoScan
                                   /\ reg = scanning[t].seen[k]
         /\ reg \in Findable(n, k)' <=>
              \/ reg = Absent
              \/ \E i \in DOMAIN frozen'[n] : reg = frozen'[n][i][k]
              \/ \E t \in Thread : /\ Home[t] = n /\ scanning'[t] # NoScan
                                   /\ reg = scanning'[t].seen[k]
<1>1. /\ reg \in Findable(n, k) <=>
              \/ reg = Absent
              \/ \E i \in DOMAIN frozen[n] : reg = frozen[n][i][k]
              \/ \E t \in Thread : /\ Home[t] = n /\ scanning[t] # NoScan
                                   /\ reg = scanning[t].seen[k]
  BY Zenon DEF Findable
<1>2.  reg \in Findable(n, k)' <=>
              \/ reg = Absent
              \/ \E i \in DOMAIN frozen'[n] : reg = frozen'[n][i][k]
              \/ \E t \in Thread : /\ Home[t] = n /\ scanning'[t] # NoScan
                                   /\ reg = scanning'[t].seen[k]
  BY Zenon DEF Findable
<1> QED BY <1>1, <1>2

LEMMA OldVersionsAre ==
  ASSUME NEW k, NEW reg
  PROVE  /\ reg \in OldVersions(k) <=>
              \/ \E n \in Node : \E i \in DOMAIN frozen[n] : reg = frozen[n][i][k]
              \/ \E t \in Thread : scanning[t] # NoScan /\ reg = scanning[t].seen[k]
         /\ reg \in OldVersions(k)' <=>
              \/ \E n \in Node : \E i \in DOMAIN frozen'[n] : reg = frozen'[n][i][k]
              \/ \E t \in Thread : scanning'[t] # NoScan /\ reg = scanning'[t].seen[k]
<1>1. ASSUME NEW f, NEW s
      PROVE  reg \in (UNION {{f[n][i][k] : i \in DOMAIN f[n]} : n \in Node})
                       \cup {s[t].seen[k] : t \in {u \in Thread : s[u] # NoScan}}
             <=> \/ \E n \in Node : \E i \in DOMAIN f[n] : reg = f[n][i][k]
                 \/ \E t \in Thread : s[t] # NoScan /\ reg = s[t].seen[k]
  <2> DEFINE F(n) == {f[n][i][k] : i \in DOMAIN f[n]}
  <2>1. \A n : reg \in F(n) <=> \E i \in DOMAIN f[n] : reg = f[n][i][k]
    OBVIOUS
  <2>2. reg \in {s[t].seen[k] : t \in {u \in Thread : s[u] # NoScan}}
          <=> \E t \in Thread : s[t] # NoScan /\ reg = s[t].seen[k]
    OBVIOUS
  <2> HIDE DEF F
  <2>3. reg \in (UNION {F(n) : n \in Node}) <=> \E n \in Node : reg \in F(n)
    OBVIOUS
  <2>4. UNION {{f[n][i][k] : i \in DOMAIN f[n]} : n \in Node} = UNION {F(n) : n \in Node}
    BY DEF F
  <2>5. (\E n \in Node : reg \in F(n))
          <=> \E n \in Node : \E i \in DOMAIN f[n] : reg = f[n][i][k]
    BY <2>1
  <2> QED BY <2>2, <2>3, <2>4, <2>5, Zenon
<1>2. reg \in OldVersions(k) <=>
              \/ \E n \in Node : \E i \in DOMAIN frozen[n] : reg = frozen[n][i][k]
              \/ \E t \in Thread : scanning[t] # NoScan /\ reg = scanning[t].seen[k]
  BY <1>1 DEF OldVersions
<1>3. reg \in OldVersions(k)' <=>
              \/ \E n \in Node : \E i \in DOMAIN frozen'[n] : reg = frozen'[n][i][k]
              \/ \E t \in Thread : scanning'[t] # NoScan /\ reg = scanning'[t].seen[k]
  BY <1>1 DEF OldVersions
<1> QED BY <1>2, <1>3

\* What it is to be on its way.
LEMMA InTransitIs ==
  ASSUME NEW y
  PROVE  /\ y \in InTransit <=>
              \/ \E i \in 1..Len(queue) : y = queue[i]
              \/ \E d \in Deliverer : inHand[d] # NoMsg /\ y = inHand[d]
              \/ \E t \in Thread : y \in outbox[t]
         /\ y \in InTransit' <=>
              \/ \E i \in 1..Len(queue') : y = queue'[i]
              \/ \E d \in Deliverer : inHand'[d] # NoMsg /\ y = inHand'[d]
              \/ \E t \in Thread : y \in outbox'[t]
<1>1. y \in InTransit <=>
        \/ \E i \in 1..Len(queue) : y = queue[i]
        \/ \E d \in Deliverer : inHand[d] # NoMsg /\ y = inHand[d]
        \/ \E t \in Thread : y \in outbox[t]
  BY DEF InTransit
<1>2. y \in InTransit' <=>
        \/ \E i \in 1..Len(queue') : y = queue'[i]
        \/ \E d \in Deliverer : inHand'[d] # NoMsg /\ y = inHand'[d]
        \/ \E t \in Thread : y \in outbox'[t]
  BY DEF InTransit
<1> QED BY <1>1, <1>2

LEMMA KnownClocksType == TypeOK => KnownClocks \subseteq Clock
<1> SUFFICES ASSUME TypeOK PROVE KnownClocks \subseteq Clock
  OBVIOUS
<1>1. \A n \in Node, k \in Key : store[n][k].clock \in Clock
  BY DEF TypeOK, Register
<1>2. \A n \in Node : localClock[n] \in Clock
  BY DEF TypeOK
<1>3. \A k \in Key : \A reg \in OldVersions(k) : reg.clock \in Clock
  <2> TAKE k \in Key
  <2>1. \A n \in Node : {frozen[n][i][k] : i \in DOMAIN frozen[n]} \subseteq Register
    BY VersionsType
  <2>2. \A t \in Thread : scanning[t] # NoScan => scanning[t].seen[k] \in Register
    BY DEF TypeOK, Scan
  <2>3. \A n \in Node : \A i \in DOMAIN frozen[n] : frozen[n][i][k] \in Register
    BY <2>1
  <2>4. OldVersions(k) \subseteq Register
    BY <2>2, <2>3, OldVersionsAre
  <2> QED BY <2>4 DEF Register
<1>4. \A y \in InTransit : y.reg.clock \in Clock
  BY InTransitType DEF Message, Register
<1> QED BY <1>1, <1>2, <1>3, <1>4 DEF KnownClocks, InTransit

\* What can be found behind the newest register of a key is a register.
LEMMA FindableType ==
  ASSUME TypeOK, NEW n \in Node, NEW k \in Key
  PROVE  Findable(n, k) \subseteq Register
<1>1. {frozen[n][i][k] : i \in DOMAIN frozen[n]} \subseteq Register
  BY VersionsType
<1>2. \A t \in Thread : scanning[t] # NoScan => scanning[t].seen[k] \in Register
  BY DEF TypeOK, Scan
<1> QED BY <1>1, <1>2, AbsentType DEF Findable

\* It is Absent or an old version.
LEMMA FindableOld ==
  ASSUME NEW n \in Node, NEW k, NEW reg \in Findable(n, k)
  PROVE  reg = Absent \/ reg \in OldVersions(k)
<1>1. CASE \E i \in DOMAIN frozen[n] : reg = frozen[n][i][k]
  BY <1>1, OldVersionsAre
<1>2. CASE \E t \in Thread : /\ Home[t] = n /\ scanning[t] # NoScan
                             /\ reg = scanning[t].seen[k]
  BY <1>2, OldVersionsAre
<1> QED BY <1>1, <1>2, FindableIs

\* The steps that change what can be found.
LEMMA TableSteps ==
  ASSUME [Next]_vars
  PROVE  \/ UNCHANGED <<frozen, scanning>>
         \/ \E n \in Node : EndPut(n) \/ Restart(n)
         \/ \E t \in Gossiper, target \in Node : TriggerAntiEntropy(t, target)
         \/ \E t \in Gossiper : ScanNext(t) \/ ScanList(t)
<1>1. ASSUME NEW t \in Thread,
             \/ \E k \in Key, v \in Written : Put(t, k, v)
             \/ FetchForPush(t)
             \/ Send(t)
      PROVE  UNCHANGED <<frozen, scanning>>
  BY <1>1 DEF Put, FetchForPush, Send, tableVars
<1>2. ASSUME NEW d \in Deliverer, Pop(d) \/ Deliver(d)
      PROVE  UNCHANGED <<frozen, scanning>>
  BY <1>2 DEF Pop, Deliver, tableVars, threadVars
<1>3. ASSUME NEW n \in Node, Swap(n) \/ \E cut \in BOOLEAN : Partition(n, cut)
      PROVE  UNCHANGED <<frozen, scanning>>
  BY <1>3 DEF Swap, Partition, tableVars, threadVars
<1>4. CASE UNCHANGED vars
  BY <1>4 DEF vars, tableVars, threadVars
<1>5. CASE Next
  BY <1>1, <1>2, <1>3, <1>5 DEF Next, Thread
<1> QED BY <1>4, <1>5

\* A scan sees registers of its node.
LEMMA VisitSeen ==
  ASSUME TypeOK, NEW n \in Node, NEW c \in Scan, c.left # {}, NEW k \in Key
  PROVE  Visit(n, c).seen[k] \in {c.seen[k], store[n][k]} \cup Findable(n, k)
<1>1. PICK j \in c.left :
        Visit(n, c) = [to |-> c.to, table |-> c.table, left |-> c.left \ {j},
                       seen |-> [c.seen EXCEPT ![j] = Table(n, c.table)[j]]]
  BY VisitIs
<1>2. Table(n, c.table)[k] \in {store[n][k]} \cup Findable(n, k)
  BY TableType DEF Findable, Nothing
<1>3. Visit(n, c).seen[k] = c.seen[k] \/ Visit(n, c).seen[k] = Table(n, c.table)[k]
  BY <1>1 DEF Scan
<1> QED BY <1>2, <1>3

\* A node finds again only what it has held.
LEMMA FindableSteps ==
  ASSUME TypeOK, [Next]_vars, NEW n \in Node, NEW k \in Key,
         NEW reg \in Findable(n, k)'
  PROVE  \/ reg \in Findable(n, k)
         \/ reg = store[n][k] /\ reg = store'[n][k]
<1>0. \A t \in Gossiper : t \in Thread /\ Home[t] \in Node
  BY ReplicationAssumption DEF ReplicationAssumption, Thread
<1>1. CASE UNCHANGED <<frozen, scanning>>
  BY <1>1 DEF Findable
<1>2. ASSUME NEW m \in Node, EndPut(m)
      PROVE  reg \in Findable(n, k) \/ (reg = store[n][k] /\ reg = store'[n][k])
  <2>1. UNCHANGED <<store, scanning>>
    BY <1>2 DEF EndPut, engineVars, threadVars
  <2>2. \/ frozen'[n] = frozen[n]
        \/ frozen'[n] = Append(frozen[n], store[n])
    BY <1>2 DEF EndPut, TypeOK
  <2>3. frozen[n] \in Seq([Key -> Register])
    BY DEF TypeOK
  <2>4. \A i \in DOMAIN frozen'[n] :
          \/ i \in DOMAIN frozen[n] /\ frozen'[n][i] = frozen[n][i]
          \/ frozen'[n][i] = store[n]
    BY <2>2, <2>3
  <2>5. CASE \E i \in DOMAIN frozen'[n] : reg = frozen'[n][i][k]
    BY <2>1, <2>4, <2>5, FindableIs
  <2>6. CASE ~ \E i \in DOMAIN frozen'[n] : reg = frozen'[n][i][k]
    BY <2>1, <2>6, FindableIs
  <2> QED BY <2>5, <2>6
<1>3. ASSUME NEW m \in Node, Restart(m)
      PROVE  reg \in Findable(n, k)
  <2>1. \A t \in Thread : scanning'[t] = scanning[t] \/ scanning'[t] = NoScan
    BY <1>3 DEF Restart
  <2>2. PICK F \in SUBSET (DOMAIN frozen[m]) :
          frozen' = [frozen EXCEPT ![m] =
                       [i \in DOMAIN frozen[m] |-> IF i \in F THEN frozen[m][i]
                                                   ELSE Nothing]]
    BY <1>3 DEF Restart, TypeOK
  <2>3. \A i \in DOMAIN frozen'[n] :
          /\ i \in DOMAIN frozen[n]
          /\ frozen'[n][i] = frozen[n][i] \/ frozen'[n][i] = Nothing
    BY <2>2 DEF TypeOK
  <2> QED BY <2>1, <2>3 DEF Findable, Nothing
<1>4. ASSUME NEW t \in Gossiper,
             NEW c \in Scan, c.left # {},
             scanning' = [scanning EXCEPT ![t] = Visit(Home[t], c)],
             c.seen = Nothing \/ scanning[t] = c,
             UNCHANGED <<store, frozen>>
      PROVE  reg \in Findable(n, k) \/ (reg = store[n][k] /\ reg = store'[n][k])
  <2>1. /\ scanning'[t] = Visit(Home[t], c)
        /\ \A u \in Thread : u # t => scanning'[u] = scanning[u]
    BY <1>0, <1>4 DEF TypeOK
  <2>2. Visit(Home[t], c).seen[k]
          \in {c.seen[k], store[Home[t]][k]} \cup Findable(Home[t], k)
    BY <1>0, <1>4, VisitSeen
  <2>3. c.seen[k] \in Findable(Home[t], k)
    <3>1. CASE c.seen = Nothing
      BY <3>1 DEF Findable, Nothing
    <3>2. CASE scanning[t] = c
      <4>1. c # NoScan
        BY <1>4, ReplicationAssumption DEF ReplicationAssumption
      <4> QED BY <1>0, <3>2, <4>1 DEF Findable
    <3> QED BY <1>4, <3>1, <3>2
  <2>4. ASSUME NEW u \in Thread, Home[u] = n, scanning'[u] # NoScan,
               reg = scanning'[u].seen[k]
        PROVE  reg \in Findable(n, k) \/ reg = store[n][k]
    <3>1. CASE u = t
      BY <2>1, <2>2, <2>3, <2>4, <3>1
    <3>2. CASE u # t
      BY <2>1, <2>4, <3>2 DEF Findable
    <3> QED BY <3>1, <3>2
  <2>5. \/ reg \in Findable(n, k)
        \/ \E u \in Thread : /\ Home[u] = n /\ scanning'[u] # NoScan
                             /\ reg = scanning'[u].seen[k]
    <3>1. frozen' = frozen
      BY <1>4
    <3>2. \A i \in DOMAIN frozen[n] : frozen[n][i][k] \in Findable(n, k)
      BY FindableIs
    <3>3. Absent \in Findable(n, k)
      BY FindableIs
    <3> QED BY <3>1, <3>2, <3>3, FindableIs
  <2> QED BY <1>4, <2>4, <2>5
<1>5. ASSUME NEW t \in Gossiper, NEW target \in Node, TriggerAntiEntropy(t, target)
      PROVE  reg \in Findable(n, k) \/ (reg = store[n][k] /\ reg = store'[n][k])
  <2>1. /\ scanning' = [scanning EXCEPT ![t] = Visit(Home[t], Started(Home[t], target))]
        /\ UNCHANGED <<store, frozen>>
    BY <1>5 DEF TriggerAntiEntropy, Started, engineVars, tableVars
  <2>2. /\ Started(Home[t], target) \in Scan /\ Started(Home[t], target).left # {}
        /\ Started(Home[t], target).seen = Nothing
    BY <1>0, StartedType DEF Started
  <2> QED BY <1>4, <2>1, <2>2
<1>6. ASSUME NEW t \in Gossiper, ScanNext(t)
      PROVE  reg \in Findable(n, k) \/ (reg = store[n][k] /\ reg = store'[n][k])
  <2>1. /\ scanning' = [scanning EXCEPT ![t] = Visit(Home[t], scanning[t])]
        /\ UNCHANGED <<store, frozen>>
    BY <1>0, <1>6 DEF ScanNext, TypeOK, engineVars, tableVars
  <2>2. scanning[t] \in Scan /\ scanning[t].left # {}
    BY <1>0, <1>6 DEF ScanNext, TypeOK
  <2> QED BY <1>4, <2>1, <2>2
<1>7. ASSUME NEW t \in Gossiper, ScanList(t) PROVE reg \in Findable(n, k)
  <2>1. /\ frozen' = frozen
        /\ \A u \in Thread : scanning'[u] = scanning[u] \/ scanning'[u] = NoScan
    BY <1>7 DEF ScanList, TypeOK, tableVars
  <2> QED BY <2>1 DEF Findable
<1> QED BY <1>1, <1>2, <1>3, <1>5, <1>6, <1>7, TableSteps

\* What a node may make of the registers of a key it holds or can find.
Made(n, k, reg) ==
  \E V \in SUBSET (Findable(n, k) \cup {store[n][k]}) :
    V # {} /\ IsFiniteSet(V) /\ reg \in Merges(V)

LEMMA MadeStays ==
  ASSUME NEW n, NEW k, NEW reg, Made(n, k, reg),
         NEW S, Findable(n, k) \cup {store[n][k]} \subseteq S,
         \A a, b \in S : Merge(a, b) \in S
  PROVE  reg \in S
<1>1. PICK V \in SUBSET (Findable(n, k) \cup {store[n][k]}) :
        IsFiniteSet(V) /\ reg \in Merges(V)
  BY DEF Made
<1>2. V \subseteq S
  OBVIOUS
<1> QED BY <1>1, <1>2, MergesStay

LEMMA MadeOfOne ==
  ASSUME NEW n, NEW k, NEW reg \in Register,
         reg \in Findable(n, k) \cup {store[n][k]}
  PROVE  Made(n, k, reg)
<1>1. /\ {reg} \in SUBSET (Findable(n, k) \cup {store[n][k]})
      /\ {reg} # {} /\ IsFiniteSet({reg}) /\ reg \in Merges({reg})
  BY FS_Singleton, MergesOfOne
<1> QED BY <1>1 DEF Made

\* What get_crdt finds, a node may make.
LEMMA ReadsMade ==
  ASSUME TypeOK, NEW n \in Node, NEW k \in Key, NEW reg \in Reads(n, k)
  PROVE  Made(n, k, reg)
<1> DEFINE W == {frozen[n][i][k] : i \in DOMAIN frozen[n]}
<1>1. W \subseteq Findable(n, k) /\ Absent \in Findable(n, k) /\ IsFiniteSet(W)
  BY VersionsType DEF Findable
<1>2. reg \in Register
  BY ReadsType
<1>3. \/ reg \in Findable(n, k) \cup {store[n][k]}
      \/ \E V \in SUBSET W : V # {} /\ reg \in Merges(V)
  <2>1. \A i \in DOMAIN frozen[n] : frozen[n][i][k] \in W
    OBVIOUS
  <2> HIDE DEF W
  <2>2. \/ reg = store[n][k] \/ reg = Absent \/ reg \in W
        \/ \E V \in SUBSET W : V # {} /\ reg \in Merges(V)
    BY <2>1, ReadsAre DEF W
  <2> QED BY <1>1, <2>2
<1> HIDE DEF W
<1>4. ASSUME NEW V \in SUBSET W, V # {}, reg \in Merges(V) PROVE Made(n, k, reg)
  <2>1. IsFiniteSet(V) /\ V \in SUBSET (Findable(n, k) \cup {store[n][k]})
    BY <1>1, FS_Subset
  <2> QED BY <1>4, <2>1 DEF Made
<1> QED BY <1>2, <1>3, <1>4, MadeOfOne

\* What a scan sends, a node may make.
LEMMA ScanMade ==
  ASSUME TypeOK, NEW t \in Thread, scanning[t] # NoScan, NEW k \in Key,
         NEW reg \in Merges(ToMerge(Home[t], k, scanning[t].seen))
  PROVE  Made(Home[t], k, reg)
<1> DEFINE V == ToMerge(Home[t], k, scanning[t].seen)
<1>1. V # {} /\ V \subseteq Findable(Home[t], k)
  BY DEF ToMerge, Findable
<1>2. IsFiniteSet(V)
  BY ToMergeType
<1> HIDE DEF V
<1>3. V \in SUBSET (Findable(Home[t], k) \cup {store[Home[t]][k]})
  BY <1>1
<1>4. reg \in Merges(V)
  BY DEF V
<1> QED BY <1>1, <1>2, <1>3, <1>4 DEF Made

\* What a push and a scan send has a value, and the node has made it.
LEMMA FetchMessages ==
  ASSUME TypeOK, NEW t \in Client, FetchForPush(t), NEW y \in InTransit'
  PROVE  \/ y \in InTransit
         \/ /\ y.key \in Key /\ y.reg.value # Empty
            /\ Made(Home[t], y.key, y.reg)
<1>1. t \in Thread /\ Home[t] \in Node
  BY ReplicationAssumption DEF ReplicationAssumption, Thread
<1>2. fetching[t] \in Key
  BY <1>1 DEF FetchForPush, TypeOK
<1>3. PICK reg \in Reads(Home[t], fetching[t]) :
        outbox' = [outbox EXCEPT ![t] =
                     IF reg.value = Empty THEN {}
                     ELSE [to : Peers[Home[t]], key : {fetching[t]}, reg : {reg}]]
  BY DEF FetchForPush
<1> DEFINE new == IF reg.value = Empty THEN {}
                  ELSE [to : Peers[Home[t]], key : {fetching[t]}, reg : {reg}]
<1>4. \A x \in new : x.key = fetching[t] /\ x.reg = reg /\ reg.value # Empty
  OBVIOUS
<1> HIDE DEF new
<1>5. /\ UNCHANGED <<queue, inHand>>
      /\ \A u \in Thread : outbox'[u] = outbox[u] \/ outbox'[u] = new
  BY <1>1, <1>3 DEF FetchForPush, busVars, TypeOK, new
<1>6. y \in InTransit \/ y \in new
  BY <1>5, InTransitIs
<1>7. Made(Home[t], fetching[t], reg)
  BY <1>1, <1>2, ReadsMade
<1> QED BY <1>2, <1>4, <1>6, <1>7

LEMMA ScanMessages ==
  ASSUME TypeOK, NEW t \in Gossiper, ScanList(t), NEW y \in InTransit'
  PROVE  \/ y \in InTransit
         \/ /\ y.key \in Key /\ y.reg.value # Empty
            /\ Made(Home[t], y.key, y.reg)
<1>1. t \in Thread
  BY DEF Thread
<1>2. PICK new \in SUBSET Message :
        /\ outbox' = [outbox EXCEPT ![t] = new]
        /\ \A x \in new :
             /\ x.reg.value # Empty
             /\ x.reg \in Merges(ToMerge(Home[t], x.key, scanning[t].seen))
  BY ScanListIs
<1>3. \A u \in Thread : \A x \in outbox'[u] : x \in outbox[u] \/ x \in new
  BY <1>1, <1>2 DEF TypeOK
<1>4. UNCHANGED <<queue, inHand>>
  BY DEF ScanList, busVars
<1>5. y \in InTransit \/ y \in new
  BY <1>3, <1>4, InTransitIs
<1>6. ASSUME y \in new PROVE y.key \in Key /\ Made(Home[t], y.key, y.reg)
  <2>1. y.key \in Key /\ scanning[t] # NoScan
    BY <1>6 DEF Message, ScanList
  <2> QED BY <1>1, <1>2, <1>6, <2>1, ScanMade
<1> QED BY <1>2, <1>5, <1>6

\* A message is one of those that were on their way, or a node has made it.
LEMMA MessageSteps ==
  ASSUME TypeOK, [Next]_vars, NEW y \in InTransit'
  PROVE  \/ y \in InTransit
         \/ y.key \in Key /\ \E n \in Node : Made(n, y.key, y.reg)
<1>0. \A t \in Client \cup Gossiper : t \in Thread /\ Home[t] \in Node
  BY ReplicationAssumption DEF ReplicationAssumption, Thread
<1>1. ASSUME UNCHANGED <<queue, inHand, outbox>> PROVE y \in InTransit
  BY <1>1 DEF InTransit
<1>2. ASSUME NEW t \in Client, FetchForPush(t)
      PROVE  \/ y \in InTransit
             \/ y.key \in Key /\ \E n \in Node : Made(n, y.key, y.reg)
  BY <1>0, <1>2, FetchMessages
<1>3. ASSUME NEW t \in Gossiper, ScanList(t)
      PROVE  \/ y \in InTransit
             \/ y.key \in Key /\ \E n \in Node : Made(n, y.key, y.reg)
  BY <1>0, <1>3, ScanMessages
<1>4. ASSUME NEW t \in Thread, Send(t) PROVE y \in InTransit
  <2>1. PICK m \in outbox[t] : /\ queue' = Append(queue, m)
                               /\ outbox' = [outbox EXCEPT ![t] = @ \ {m}]
    BY <1>4 DEF Send
  <2>2. m \in Message /\ m \in InTransit
    BY DEF TypeOK, InTransit
  <2>3. \A i \in 1..Len(queue') :
          queue'[i] = m \/ (i \in 1..Len(queue) /\ queue'[i] = queue[i])
    BY <2>1, <2>2, AppendProperties, LenProperties DEF TypeOK
  <2>4. \A u \in Thread : outbox'[u] \subseteq outbox[u]
    BY <2>1 DEF TypeOK
  <2>5. inHand' = inHand
    BY <1>4 DEF Send
  <2> QED BY <2>2, <2>3, <2>4, <2>5 DEF InTransit
<1>5. ASSUME NEW d \in Deliverer, Pop(d) PROVE y \in InTransit
  <2>1. /\ queue \in Seq(Message) /\ queue # <<>>
        /\ queue' = Tail(queue)
        /\ inHand' = [inHand EXCEPT ![d] = Head(queue)]
    BY <1>5 DEF TypeOK, Pop
  <2>2. 1 \in 1..Len(queue) /\ Head(queue) = queue[1]
    BY <2>1, HeadTailProperties, LenProperties
  <2>3. \A i \in 1..Len(queue') : i + 1 \in 1..Len(queue) /\ queue'[i] = queue[i + 1]
    BY <2>1, HeadTailProperties, LenProperties
  <2>4. \A x \in Deliverer : inHand'[x] = inHand[x] \/ inHand'[x] = queue[1]
    BY <2>1, <2>2 DEF TypeOK
  <2>5. outbox' = outbox
    BY <1>5 DEF Pop, threadVars
  <2> QED BY <2>2, <2>3, <2>4, <2>5 DEF InTransit
<1>6. ASSUME NEW d \in Deliverer, Deliver(d) PROVE y \in InTransit
  <2>1. \A e \in Deliverer : inHand'[e] # NoMsg => inHand'[e] = inHand[e]
    BY <1>6 DEF Deliver, TypeOK
  <2>2. UNCHANGED <<queue, outbox>>
    BY <1>6 DEF Deliver, threadVars
  <2> QED BY <2>1, <2>2 DEF InTransit
<1>7. ASSUME NEW n \in Node, Restart(n) PROVE y \in InTransit
  <2>1. \A t \in Thread : outbox'[t] \subseteq outbox[t]
    BY <1>7 DEF Restart
  <2> QED BY <1>7, <2>1 DEF Restart, busVars, InTransit
<1>8. ASSUME NEW t \in Thread,
             \/ \E k \in Key, v \in Written : Put(t, k, v)
             \/ \E target \in Node : TriggerAntiEntropy(t, target)
             \/ ScanNext(t)
      PROVE  UNCHANGED <<queue, inHand, outbox>>
  BY <1>8 DEF Put, TriggerAntiEntropy, ScanNext, busVars
<1>9. ASSUME NEW n \in Node,
             Swap(n) \/ EndPut(n) \/ \E cut \in BOOLEAN : Partition(n, cut)
      PROVE  UNCHANGED <<queue, inHand, outbox>>
  BY <1>9 DEF Swap, EndPut, Partition, busVars, threadVars
<1>10. CASE UNCHANGED vars
  BY <1>1, <1>10 DEF vars, busVars, threadVars
<1>11. CASE Next
  BY <1>0, <1>1, <1>2, <1>3, <1>4, <1>5, <1>6, <1>7, <1>8, <1>9, <1>11 DEF Next
<1> QED BY <1>10, <1>11

\* Where a clock comes from in a step: it is the new local clock of a node
\* that puts, or it comes of joining clocks that were there.
Derived(e) ==
  \A S \in SUBSET Clock :
    /\ KnownClocks \cup {ZeroClock} \subseteq S
    /\ \A a, b \in S : MergeClock(a, b) \in S
    => e \in S

Provenance(e) ==
  \/ Derived(e)
  \/ \E n \in Node : /\ e = Increment(localClock[n], n)
                     /\ e = localClock'[n]

\* The clocks of what a node makes come of joining clocks that were there.
LEMMA MadeDerived ==
  ASSUME TypeOK, NEW n \in Node, NEW k \in Key, NEW reg, Made(n, k, reg)
  PROVE  Derived(reg.clock)
<1> SUFFICES ASSUME NEW S \in SUBSET Clock,
                    KnownClocks \cup {ZeroClock} \subseteq S,
                    \A a, b \in S : MergeClock(a, b) \in S
             PROVE  reg.clock \in S
  BY DEF Derived
<1> DEFINE T == {a \in Register : a.clock \in S}
<1>1. Findable(n, k) \cup {store[n][k]} \subseteq T
  <2>1. Findable(n, k) \cup {store[n][k]} \subseteq Register
    BY FindableType DEF TypeOK
  <2>2. Findable(n, k) \subseteq {Absent} \cup OldVersions(k)
    BY FindableOld
  <2>3. \A a \in OldVersions(k) : a.clock \in KnownClocks
    BY DEF KnownClocks
  <2>4. store[n][k].clock \in KnownClocks
    BY DEF KnownClocks
  <2> QED BY <2>1, <2>2, <2>3, <2>4 DEF Absent
<1>2. \A a, b \in T : Merge(a, b) \in T
  BY MergeType, MergeJoinsClocks
<1> HIDE DEF T
<1>3. reg \in T
  BY <1>1, <1>2, MadeStays
<1> QED BY <1>3 DEF T

LEMMA ProvenanceStep ==
  ASSUME TypeOK, [Next]_vars, NEW e \in KnownClocks'
  PROVE  Provenance(e)
<1>1. \A c \in KnownClocks \cup {ZeroClock} : Derived(c)
  BY DEF Derived
<1>2. \A a, b \in KnownClocks : Derived(MergeClock(a, b))
  BY DEF Derived
<1>3. /\ \A n \in Node, k \in Key : store[n][k].clock \in KnownClocks
      /\ \A n \in Node : localClock[n] \in KnownClocks
      /\ \A y \in InTransit : y.reg.clock \in KnownClocks
  BY DEF KnownClocks, InTransit
<1>4. ASSUME NEW n \in Node, NEW k \in Key, e = store'[n][k].clock \/ e = localClock'[n]
      PROVE  Provenance(e)
  <2>1. CASE UNCHANGED <<store, localClock, restarted>>
    BY <1>1, <1>3, <1>4, <2>1 DEF Provenance
  <2>2. ASSUME NEW m \in Node, NEW j \in Key, NEW v \in Value, PutStep(m, j, v)
        PROVE  Provenance(e)
    <3> DEFINE c == Increment(localClock[m], m)
    <3>1. /\ localClock' = [localClock EXCEPT ![m] = c]
          /\ store' = [store EXCEPT ![m][j] = [value |-> v, clock |-> c]]
      BY <2>2 DEF PutStep, EnginePut
    <3>2. c = localClock'[m]
      BY <3>1 DEF TypeOK
    <3>3. e = c \/ e = store[n][k].clock \/ e = localClock[n]
      BY <1>4, <3>1 DEF TypeOK
    <3> QED BY <1>1, <1>3, <3>2, <3>3 DEF Provenance
  <2>3. ASSUME NEW m \in Node, NEW j \in Key, NEW reg \in Register,
               DeliverStep(m, j, reg)
        PROVE  Provenance(e)
    <3> DEFINE c == MergeClock(localClock[m], reg.clock)
               r == Resolve(store[m][j], reg)
    <3>1. /\ localClock' = [localClock EXCEPT ![m] = c]
          /\ store' = [store EXCEPT ![m][j] = r]
          /\ reg.clock \in KnownClocks
      BY <1>3, <2>3 DEF DeliverStep, EnginePutCrdt, TypeOK
    <3>2. r.clock = reg.clock \/ r.clock = MergeClock(reg.clock, store[m][j].clock)
      <4>1. store[m][j] \in Register
        BY DEF TypeOK
      <4> QED BY <4>1, MergeJoinsClocks DEF Resolve
    <3>3. Derived(c) /\ Derived(r.clock)
      BY <1>1, <1>2, <1>3, <3>1, <3>2
    <3> HIDE DEF c, r
    <3>4. e = c \/ e = r.clock \/ e = store[n][k].clock \/ e = localClock[n]
      BY <1>4, <3>1 DEF TypeOK
    <3> QED BY <1>1, <1>3, <3>3, <3>4 DEF Provenance
  <2>4. ASSUME NEW m \in Node, RestartStep(m) PROVE Provenance(e)
    <3>1. e = ZeroClock \/ e = store[n][k].clock \/ e = localClock[n]
      BY <1>4, <2>4 DEF RestartStep, TypeOK
    <3> QED BY <1>1, <1>3, <3>1 DEF Provenance
  <2> QED BY <2>1, <2>2, <2>3, <2>4, EngineSteps
<1>5. ASSUME NEW k \in Key, NEW reg \in OldVersions(k)', e = reg.clock
      PROVE  Provenance(e)
  <2>1. \A t \in Thread : Home[t] \in Node
    BY ReplicationAssumption DEF ReplicationAssumption
  <2>2. PICK n \in Node : reg \in Findable(n, k)'
    <3>1. CASE \E n \in Node : \E i \in DOMAIN frozen'[n] : reg = frozen'[n][i][k]
      BY <3>1, FindableIs
    <3>2. CASE \E t \in Thread : scanning'[t] # NoScan /\ reg = scanning'[t].seen[k]
      BY <2>1, <3>2, FindableIs
    <3> QED BY <1>5, <3>1, <3>2, OldVersionsAre
  <2>3. reg \in Findable(n, k) \/ reg = store[n][k]
    BY <2>2, FindableSteps
  <2>4. Findable(n, k) \subseteq {Absent} \cup OldVersions(k)
    BY FindableOld
  <2>5. reg.clock \in KnownClocks \cup {ZeroClock}
    BY <1>3, <2>3, <2>4 DEF KnownClocks, Absent
  <2> QED BY <1>1, <1>5, <2>5 DEF Provenance
<1>6. ASSUME NEW y \in InTransit', e = y.reg.clock PROVE Provenance(e)
  BY <1>1, <1>3, <1>6, MessageSteps, MadeDerived DEF Provenance
<1>7. \/ \E n \in Node, k \in Key : e = store'[n][k].clock
      \/ \E n \in Node : e = localClock'[n]
      \/ \E k \in Key : \E reg \in OldVersions(k)' : e = reg.clock
      \/ \E y \in InTransit' : e = y.reg.clock
  BY DEF KnownClocks, InTransit
<1>8. Key # {}
  BY ReplicationAssumption DEF ReplicationAssumption
<1> QED BY <1>4, <1>5, <1>6, <1>7, <1>8

LEMMA OwnCounterGrows ==
  ASSUME TypeOK, [Next]_vars, NEW m \in Node \ restarted'
  PROVE  /\ m \notin restarted
         /\ localClock[m][m] <= localClock'[m][m]
<1>0. localClock[m] \in Clock /\ localClock[m][m] \in Nat
  BY DEF TypeOK, Clock
<1>1. CASE UNCHANGED <<store, localClock, restarted>>
  BY <1>0, <1>1
<1>2. ASSUME NEW n \in Node, NEW k \in Key, NEW v \in Value, PutStep(n, k, v)
      PROVE  m \notin restarted /\ localClock[m][m] <= localClock'[m][m]
  <2>1. localClock' = [localClock EXCEPT ![n] = Increment(localClock[n], n)]
    BY <1>2 DEF PutStep, EnginePut
  <2>2. Increment(localClock[m], m)[m] = localClock[m][m] + 1
    BY <1>0, IncrementRaises
  <2> QED BY <1>0, <1>2, <2>1, <2>2 DEF TypeOK, PutStep
<1>3. ASSUME NEW n \in Node, NEW k \in Key, NEW reg \in Register,
             DeliverStep(n, k, reg)
      PROVE  m \notin restarted /\ localClock[m][m] <= localClock'[m][m]
  <2>1. localClock' = [localClock EXCEPT ![n] =
                         MergeClock(localClock[n], reg.clock)]
    BY <1>3 DEF DeliverStep, EnginePutCrdt, TypeOK
  <2>2. localClock[m][m] <= MergeClock(localClock[m], reg.clock)[m]
    BY <1>0, MergeClockIsJoin DEF Register, Leq
  <2> QED BY <1>0, <1>3, <2>1, <2>2 DEF TypeOK, DeliverStep
<1>4. ASSUME NEW n \in Node, RestartStep(n)
      PROVE  m \notin restarted /\ localClock[m][m] <= localClock'[m][m]
  <2>1. m # n /\ m \notin restarted
    BY <1>4 DEF RestartStep
  <2> QED BY <1>0, <1>4, <2>1 DEF RestartStep, TypeOK
<1> QED BY <1>1, <1>2, <1>3, <1>4, EngineSteps

LEMMA OwnCounterInit == Init => OwnCounterLeads
<1> SUFFICES ASSUME Init, NEW m \in Node, NEW e \in KnownClocks
             PROVE  e[m] <= localClock[m][m]
  BY DEF OwnCounterLeads
<1>1. e = ZeroClock /\ localClock[m] = ZeroClock
  <2>1. \A k \in Key : \A reg \in OldVersions(k) : reg = Absent
    BY DEF Init, OldVersions
  <2> QED BY <2>1 DEF Init, KnownClocks, Nothing, Absent
<1> QED BY <1>1 DEF ZeroClock

LEMMA OwnCounterStep ==
  TypeOK /\ OwnCounterLeads /\ [Next]_vars => OwnCounterLeads'
<1> SUFFICES ASSUME TypeOK, OwnCounterLeads, [Next]_vars,
                    NEW m \in Node \ restarted', NEW e \in KnownClocks'
             PROVE  e[m] <= localClock'[m][m]
  BY DEF OwnCounterLeads
<1>1. /\ m \notin restarted
      /\ localClock[m][m] <= localClock'[m][m]
  BY OwnCounterGrows
<1>2. localClock[m][m] \in Nat /\ localClock'[m][m] \in Nat
  BY TypeStep DEF TypeOK, Clock
<1>3. \A c \in KnownClocks : c[m] \in Nat /\ c[m] <= localClock[m][m]
  BY <1>1, KnownClocksType DEF OwnCounterLeads, Clock
<1>4. CASE Derived(e)
  <2> DEFINE S == {c \in Clock : c[m] <= localClock'[m][m]}
  <2>1. KnownClocks \cup {ZeroClock} \subseteq S
    <3>1. KnownClocks \cup {ZeroClock} \subseteq Clock
      BY KnownClocksType, ClockType
    <3>2. \A c \in KnownClocks : c[m] <= localClock'[m][m]
      BY <1>1, <1>2, <1>3
    <3>3. ZeroClock[m] <= localClock'[m][m]
      BY <1>2 DEF ZeroClock
    <3> QED BY <3>1, <3>2, <3>3
  <2>2. \A a, b \in S : MergeClock(a, b) \in S
    <3> TAKE a, b \in S
    <3>1. MergeClock(a, b) \in Clock
      BY ClockType
    <3>2. MergeClock(a, b)[m] = a[m] \/ MergeClock(a, b)[m] = b[m]
      BY DEF MergeClock, Larger
    <3> QED BY <3>1, <3>2
  <2>3. S \in SUBSET Clock
    OBVIOUS
  <2> HIDE DEF S
  <2>4. e \in S
    BY <1>4, <2>1, <2>2, <2>3 DEF Derived
  <2> QED BY <2>4 DEF S
<1>5. ASSUME NEW n \in Node, e = Increment(localClock[n], n),
             e = localClock'[n]
      PROVE  e[m] <= localClock'[m][m]
  <2>1. CASE n = m
    BY <1>2, <1>5, <2>1
  <2>2. CASE n # m
    <3>1. localClock[n] \in KnownClocks /\ localClock[n] \in Clock
      BY DEF KnownClocks, TypeOK
    <3>2. \A x \in Node \ {n} : Increment(localClock[n], n)[x] = localClock[n][x]
      BY <3>1, IncrementRaises
    <3>3. e[m] = localClock[n][m]
      BY <1>5, <2>2, <3>2
    <3> QED BY <1>1, <1>2, <1>3, <3>1, <3>3
  <2> QED BY <2>1, <2>2
<1> QED BY <1>4, <1>5, ProvenanceStep DEF Provenance

\* Nobody ever knows an event of a node that the node has not counted: the
\* stamps of the puts of a node that is not restarted are all different.
THEOREM OwnCounterAlwaysLeads == Spec => []OwnCounterLeads
<1>1. Init => TypeOK /\ OwnCounterLeads
  BY TypeInit, OwnCounterInit
<1>2. (TypeOK /\ OwnCounterLeads) /\ [Next]_vars
        => (TypeOK /\ OwnCounterLeads)'
  BY TypeStep, OwnCounterStep
<1> QED BY <1>1, <1>2, PTL DEF Spec

-----------------------------------------------------------------------------
(* What is on its way.                                                     *)

\* A thread that has still to read back what it put, or that is scanning, has
\* nothing to send: what it makes overwrites no message.
Private ==
  \A t \in Thread :
    /\ fetching[t] # NoKey => scanning[t] = NoScan /\ outbox[t] = {}
    /\ scanning[t] # NoScan => outbox[t] = {}

LEMMA PrivateStep == TypeOK /\ Private /\ [Next]_vars => Private'
<1> SUFFICES ASSUME TypeOK, Private, [Next]_vars PROVE Private'
  OBVIOUS
<1>0. Client \subseteq Thread /\ Gossiper \subseteq Thread
  BY DEF Thread
<1>1. ASSUME NEW t \in Client, NEW k \in Key, NEW v \in Written, Put(t, k, v)
      PROVE  Private'
  BY <1>1 DEF Put, Idle, Private, TypeOK
<1>2. ASSUME NEW t \in Client, FetchForPush(t) PROVE Private'
  <2>1. t \in Thread /\ fetching[t] # NoKey /\ scanning[t] = NoScan
    BY <1>0, <1>2 DEF FetchForPush, Private
  <2>2. /\ scanning' = scanning /\ fetching'[t] = NoKey
        /\ \A u \in Thread : u # t => fetching'[u] = fetching[u] /\ outbox'[u] = outbox[u]
    BY <1>2, <2>1 DEF FetchForPush, TypeOK
  <2> QED BY <2>1, <2>2 DEF Private
<1>3. ASSUME NEW t \in Gossiper, NEW target \in Node, TriggerAntiEntropy(t, target)
      PROVE  Private'
  <2>1. t \in Thread /\ Idle(t)
    BY <1>0, <1>3 DEF TriggerAntiEntropy
  <2>2. /\ UNCHANGED <<fetching, outbox>>
        /\ \A u \in Thread : u # t => scanning'[u] = scanning[u]
    BY <1>3 DEF TriggerAntiEntropy, TypeOK
  <2> QED BY <2>1, <2>2 DEF Idle, Private
<1>4. ASSUME NEW t \in Gossiper, ScanNext(t) \/ ScanList(t) PROVE Private'
  <2>1. /\ fetching' = fetching /\ t \in Thread /\ fetching[t] = NoKey
        /\ scanning[t] # NoScan /\ outbox[t] = {}
    BY <1>0, <1>4 DEF ScanNext, ScanList, Private
  <2>2. /\ \A u \in Thread : u # t => scanning'[u] = scanning[u] /\ outbox'[u] = outbox[u]
        /\ outbox' = outbox \/ scanning'[t] = NoScan
    BY <1>4, <2>1 DEF ScanNext, ScanList, TypeOK
  <2> QED BY <2>1, <2>2 DEF Private
<1>5. ASSUME NEW t \in Thread, Send(t) PROVE Private'
  <2>1. PICK m \in outbox[t] : outbox' = [outbox EXCEPT ![t] = outbox[t] \ {m}]
    BY <1>5 DEF Send, TypeOK
  <2>2. \A u \in Thread : outbox'[u] \subseteq outbox[u]
    BY <2>1 DEF TypeOK
  <2> QED BY <1>5, <2>2 DEF Send, Private
<1>6. ASSUME NEW d \in Deliverer, Pop(d) \/ Deliver(d) PROVE Private'
  BY <1>6 DEF Pop, Deliver, Private, threadVars
<1>7. ASSUME NEW n \in Node,
             Swap(n) \/ EndPut(n) \/ \E cut \in BOOLEAN : Partition(n, cut)
      PROVE  Private'
  BY <1>7 DEF Swap, EndPut, Partition, Private, threadVars
<1>8. ASSUME NEW n \in Node, Restart(n) PROVE Private'
  BY <1>8 DEF Restart, Private
<1>9. CASE UNCHANGED vars
  BY <1>9 DEF vars, threadVars, Private
<1> QED BY <1>1, <1>2, <1>3, <1>4, <1>5, <1>6, <1>7, <1>8, <1>9 DEF Next

\* What a step does to the messages and the stores while no node restarts.

\* A message goes on from one place to the next, or nothing happens.
PassStep ==
  /\ UNCHANGED <<store, fetching, deleted, dropped>>
  /\ InTransit' = InTransit

\* A client writes.
WriteStep(t, k, v) ==
  /\ EnginePut(Home[t], k, v)
  /\ Home[t] \in Writer[k]
  /\ fetching[t] = NoKey /\ outbox[t] = {}
  /\ fetching' = [fetching EXCEPT ![t] = k]
  /\ deleted' = IF v = Empty THEN deleted \cup {k} ELSE deleted
  /\ dropped' = dropped
  /\ InTransit' = InTransit

\* A client reads back a register of the key it wrote and sets out to send it
\* to its peers; if it is not the newest, the key counts as dropped.
PushStep(t) ==
  LET n == Home[t]
      k == fetching[t]
  IN  \E reg \in Reads(n, k) :
        /\ k # NoKey
        /\ fetching' = [fetching EXCEPT ![t] = NoKey]
        /\ UNCHANGED <<store, deleted>>
        /\ dropped' = IF reg = store[n][k] THEN dropped ELSE dropped \cup {k}
        /\ InTransit' = InTransit \cup
                          (IF reg.value = Empty THEN {}
                           ELSE [to : Peers[n], key : {k}, reg : {reg}])

\* A scan is over.
ScanStep ==
  /\ UNCHANGED <<store, fetching, deleted, dropped>>
  /\ InTransit \subseteq InTransit'
  /\ \A y \in InTransit' : y \in InTransit \/ y.reg.value # Empty

\* The message m reaches its receiver, or is lost.
ArriveStep(m) ==
  /\ m \in InTransit
  /\ UNCHANGED <<fetching, deleted>>
  /\ InTransit' \subseteq InTransit
  /\ InTransit \subseteq InTransit' \cup {m}
  /\ \/ dropped' = dropped \cup {m.key} /\ UNCHANGED store
     \/ EnginePutCrdt(m.to, m.key, m.reg) /\ UNCHANGED dropped

LEMMA WriteSteps ==
  ASSUME TypeOK, NEW t \in Client, NEW k \in Key, NEW v \in Written, Put(t, k, v)
  PROVE  WriteStep(t, k, v)
<1>1. UNCHANGED <<queue, inHand, outbox>>
  BY DEF Put, busVars
<1>2. InTransit' = InTransit
  BY <1>1 DEF InTransit
<1> QED BY <1>2 DEF Put, WriteStep, Idle

LEMMA PushSteps ==
  ASSUME TypeOK, Private, NEW t \in Client, FetchForPush(t)
  PROVE  PushStep(t)
<1> DEFINE n == Home[t]
           k == fetching[t]
<1>1. t \in Thread /\ outbox[t] = {}
  BY DEF Private, FetchForPush, Thread
<1>2. PICK reg \in Reads(n, k) :
        /\ outbox' = [outbox EXCEPT ![t] =
                        IF reg.value = Empty THEN {}
                        ELSE [to : Peers[n], key : {k}, reg : {reg}]]
        /\ dropped' = IF reg = store[n][k] THEN dropped ELSE dropped \cup {k}
  BY DEF FetchForPush
<1> DEFINE new == IF reg.value = Empty THEN {}
                  ELSE [to : Peers[n], key : {k}, reg : {reg}]
<1>3. /\ outbox' = [outbox EXCEPT ![t] = new]
      /\ UNCHANGED <<queue, inHand, store, deleted>>
      /\ fetching' = [fetching EXCEPT ![t] = NoKey] /\ k # NoKey
  BY <1>2 DEF FetchForPush, busVars, engineVars
<1> HIDE DEF new
<1>4. outbox'[t] = new /\ \A u \in Thread : u # t => outbox'[u] = outbox[u]
  BY <1>1, <1>3 DEF TypeOK
<1>5. UNION {outbox'[u] : u \in Thread} = (UNION {outbox[u] : u \in Thread}) \cup new
  BY <1>1, <1>4
<1>6. InTransit' = InTransit \cup new
  BY <1>3, <1>5 DEF InTransit
<1> QED BY <1>2, <1>3, <1>6 DEF PushStep, new

LEMMA ScanSteps ==
  ASSUME TypeOK, Private, NEW t \in Gossiper, ScanList(t)
  PROVE  ScanStep
<1>1. t \in Thread /\ outbox[t] = {}
  BY DEF Private, ScanList, Thread
<1>2. PICK new \in SUBSET Message :
        /\ outbox' = [outbox EXCEPT ![t] = new]
        /\ \A x \in new : x.reg.value # Empty
  BY ScanListIs
<1>3. UNCHANGED <<queue, inHand, store, fetching, deleted, dropped>>
  BY DEF ScanList, busVars, engineVars, historyVars
<1>4. outbox'[t] = new /\ \A u \in Thread : u # t => outbox'[u] = outbox[u]
  BY <1>1, <1>2 DEF TypeOK
<1>5. \A y : (\E u \in Thread : y \in outbox[u]) => \E u \in Thread : y \in outbox'[u]
  BY <1>1, <1>4
<1>6. InTransit \subseteq InTransit'
  <2> SUFFICES ASSUME NEW y \in InTransit PROVE y \in InTransit'
    OBVIOUS
  <2> QED BY <1>3, <1>5, InTransitIs
<1>7. ASSUME NEW y \in InTransit' PROVE y \in InTransit \/ y \in new
  BY <1>3, <1>4, InTransitIs
<1> QED BY <1>2, <1>3, <1>6, <1>7 DEF ScanStep

LEMMA SendSteps ==
  ASSUME TypeOK, NEW t \in Thread, Send(t)
  PROVE  PassStep
<1>1. PICK m \in outbox[t] : /\ queue' = Append(queue, m)
                             /\ outbox' = [outbox EXCEPT ![t] = @ \ {m}]
  BY DEF Send
<1>2. queue \in Seq(Message) /\ m \in Message
  BY DEF TypeOK
<1>3. {queue'[i] : i \in 1..Len(queue')} = {queue[i] : i \in 1..Len(queue)} \cup {m}
  BY <1>1, <1>2
<1>4. (UNION {outbox'[u] : u \in Thread}) \cup {m} = UNION {outbox[u] : u \in Thread}
  <2>1. outbox'[t] = outbox[t] \ {m} /\ \A u \in Thread : u # t => outbox'[u] = outbox[u]
    BY <1>1 DEF TypeOK
  <2> QED BY <2>1
<1>5. UNCHANGED <<inHand, store, fetching, deleted, dropped>>
  BY DEF Send, engineVars, historyVars
<1> QED BY <1>3, <1>4, <1>5 DEF PassStep, InTransit

LEMMA PopSteps ==
  ASSUME TypeOK, NEW d \in Deliverer, Pop(d)
  PROVE  PassStep
<1>1. /\ queue \in Seq(Message) /\ queue # <<>>
      /\ queue' = Tail(queue)
      /\ inHand' = [inHand EXCEPT ![d] = Head(queue)]
      /\ inHand[d] = NoMsg
  BY DEF TypeOK, Pop
<1>2. Head(queue) \in Message /\ Head(queue) # NoMsg
  BY <1>1, ReplicationAssumption DEF ReplicationAssumption
<1> DEFINE Q == {queue[i] : i \in 1..Len(queue)}
           P == {queue'[i] : i \in 1..Len(queue')}
<1>3. Q = P \cup {Head(queue)}
  <2>1. /\ Len(queue) \in Nat \ {0} /\ Len(queue') = Len(queue) - 1
        /\ \A i \in 1..Len(queue') : queue'[i] = queue[i + 1]
        /\ Head(queue) = queue[1]
    BY <1>1
  <2>2. \A i \in 1..Len(queue) : queue[i] \in P \cup {Head(queue)}
    <3> TAKE i \in 1..Len(queue)
    <3>1. CASE i = 1
      BY <2>1, <3>1
    <3>2. CASE i # 1
      <4>1. i - 1 \in 1..Len(queue') /\ queue'[i - 1] = queue[i]
        BY <2>1, <3>2
      <4> QED BY <4>1
    <3> QED BY <3>1, <3>2
  <2>3. \A i \in 1..Len(queue') : queue'[i] \in Q
    BY <2>1
  <2>4. Head(queue) \in Q
    BY <2>1
  <2> QED BY <2>2, <2>3, <2>4
<1> DEFINE H == {inHand[e] : e \in {x \in Deliverer : inHand[x] # NoMsg}}
           I == {inHand'[e] : e \in {x \in Deliverer : inHand'[x] # NoMsg}}
<1>4. I = H \cup {Head(queue)}
  <2>1. /\ inHand'[d] = Head(queue)
        /\ \A e \in Deliverer : e # d => inHand'[e] = inHand[e]
    BY <1>1 DEF TypeOK
  <2> QED BY <1>1, <1>2, <2>1
<1>5. UNCHANGED <<outbox, store, fetching, deleted, dropped>>
  BY DEF Pop, engineVars, threadVars, historyVars
<1> HIDE DEF Q, P, H, I
<1>6. InTransit = Q \cup H \cup (UNION {outbox[t] : t \in Thread})
  BY Zenon DEF InTransit, Q, H
<1>7. InTransit' = P \cup I \cup (UNION {outbox'[t] : t \in Thread})
  BY Zenon DEF InTransit, P, I
<1>8. InTransit' = InTransit
  BY <1>3, <1>4, <1>5, <1>6, <1>7
<1> QED BY <1>5, <1>8 DEF PassStep

LEMMA ArriveSteps ==
  ASSUME TypeOK, NEW d \in Deliverer, Deliver(d)
  PROVE  ArriveStep(inHand[d])
<1> DEFINE m == inHand[d]
<1>1. m \in InTransit
  BY DEF Deliver, InTransit
<1>2. UNCHANGED <<queue, outbox, fetching, deleted>>
  BY DEF Deliver, threadVars
<1>3. inHand'[d] = NoMsg /\ \A e \in Deliverer : e # d => inHand'[e] = inHand[e]
  BY DEF Deliver, TypeOK
<1>4. InTransit' \subseteq InTransit /\ InTransit \subseteq InTransit' \cup {m}
  BY <1>2, <1>3 DEF InTransit
<1>5. \/ dropped' = dropped \cup {m.key} /\ UNCHANGED store
      \/ EnginePutCrdt(m.to, m.key, m.reg) /\ UNCHANGED dropped
  BY DEF Deliver, engineVars
<1> QED BY <1>1, <1>2, <1>4, <1>5 DEF ArriveStep

\* Every step without a restart is one of the five.
LEMMA TransitSteps ==
  ASSUME TypeOK, Private, [Next]_vars, restarted' = {}
  PROVE  \/ PassStep
         \/ \E t \in Client, k \in Key, v \in Written : WriteStep(t, k, v)
         \/ \E t \in Client : PushStep(t)
         \/ ScanStep
         \/ \E m \in Message : ArriveStep(m)
<1>1. ASSUME NEW t \in Gossiper,
             ScanNext(t) \/ \E target \in Node : TriggerAntiEntropy(t, target)
      PROVE  PassStep
  <2>1. UNCHANGED <<store, fetching, deleted, dropped, queue, inHand, outbox>>
    BY <1>1 DEF TriggerAntiEntropy, ScanNext, engineVars, busVars, historyVars
  <2> QED BY <2>1 DEF PassStep, InTransit
<1>2. ASSUME NEW n \in Node,
             Swap(n) \/ EndPut(n) \/ \E cut \in BOOLEAN : Partition(n, cut)
      PROVE  PassStep
  <2>1. UNCHANGED <<store, fetching, deleted, dropped, queue, inHand, outbox>>
    BY <1>2 DEF Swap, EndPut, Partition, engineVars, busVars, threadVars, historyVars
  <2> QED BY <2>1 DEF PassStep, InTransit
<1>3. ASSUME NEW n \in Node, Restart(n) PROVE FALSE
  BY <1>3 DEF Restart
<1>4. CASE UNCHANGED vars
  BY <1>4 DEF vars, PassStep, InTransit, engineVars, busVars, threadVars, historyVars
<1>5. ASSUME NEW d \in Deliverer, Deliver(d) PROVE \E m \in Message : ArriveStep(m)
  <2>1. inHand[d] \in Message
    BY <1>5 DEF TypeOK, Deliver
  <2> QED BY <1>5, <2>1, ArriveSteps
<1> QED
  BY <1>1, <1>2, <1>3, <1>4, <1>5, WriteSteps, PushSteps, ScanSteps, SendSteps,
     PopSteps DEF Next

-----------------------------------------------------------------------------
(* When nothing is on its way the clocks agree.                            *)

\* Every node sends what it puts to every other.
FullMesh == \A n \in Node : Node \ {n} \subseteq Peers[n]

\* Only a register with a value is sent, and an engine without one for a key
\* that nobody removed knows nothing of the key.
NotBlank ==
  /\ \A y \in InTransit : y.reg.value # Empty
  /\ \A n \in Node, k \in Key \ deleted :
       store[n][k].value = Empty => store[n][k].clock = ZeroClock

\* The registers of a key that are somewhere in the system.
Registers(k) ==
  (UNION {Findable(n, k) \cup {store[n][k]} : n \in Node})
    \cup {y.reg : y \in {z \in InTransit : z.key = k}}

LEMMA RegistersAre ==
  ASSUME NEW k, NEW r
  PROVE  /\ r \in Registers(k) <=>
              \/ \E n \in Node : r \in Findable(n, k) \/ r = store[n][k]
              \/ \E y \in InTransit : y.key = k /\ r = y.reg
         /\ r \in Registers(k)' <=>
              \/ \E n \in Node : r \in Findable(n, k)' \/ r = store'[n][k]
              \/ \E y \in InTransit' : y.key = k /\ r = y.reg
<1>1. r \in Registers(k) <=>
        \/ \E n \in Node : r \in Findable(n, k) \/ r = store[n][k]
        \/ \E y \in InTransit : y.key = k /\ r = y.reg
  BY DEF Registers
<1>2. r \in Registers(k)' <=>
        \/ \E n \in Node : r \in Findable(n, k)' \/ r = store'[n][k]
        \/ \E y \in InTransit' : y.key = k /\ r = y.reg
  BY DEF Registers
<1> QED BY <1>1, <1>2

\* Merging and storing never make anything but registers of the set S of them
\* from those of the key.
Generated(r, k) ==
  \A S \in SUBSET Register :
    /\ Registers(k) \subseteq S
    /\ \A a, b \in S : Merge(a, b) \in S
    => r \in S

\* Node m knows of the key k the first c events of node x, or will be told.
Told(m, k, x, c) ==
  \/ c <= store[m][k].clock[x]
  \/ \E y \in InTransit : y.to = m /\ y.key = k /\ c <= y.reg.clock[x]
  \/ \E t \in Thread : fetching[t] = k /\ c <= store[Home[t]][k].clock[x]

AllTold ==
  \A k \in Replicated : \A r \in Registers(k) : \A m, x \in Node :
    Told(m, k, x, r.clock[x])

\* A value that is put or merged from two is a value.
LEMMA MergeIsSet ==
  ASSUME NEW a \in Register, NEW b \in Register, a.value # Empty, b.value # Empty
  PROVE  Merge(a, b).value # Empty
BY DEF Merge, Register, Larger

\* What a delivery does to the stores.
LEMMA ArriveStore ==
  ASSUME TypeOK, NEW m \in Message, ArriveStep(m), NEW n \in Node, NEW k \in Key
  PROVE  \/ store'[n][k] = store[n][k]
         \/ /\ m.to = n /\ m.key = k
            /\ store'[n][k] = Resolve(store[n][k], m.reg)
<1>1. m.to \in Node /\ m.key \in Key
  BY DEF Message
<1>2. CASE UNCHANGED store
  BY <1>2
<1>3. CASE EnginePutCrdt(m.to, m.key, m.reg)
  <2> DEFINE new == Resolve(store[m.to][m.key], m.reg)
  <2>1. store' = [store EXCEPT ![m.to][m.key] = new]
    BY <1>3 DEF EnginePutCrdt
  <2> HIDE DEF new
  <2>2. \/ store'[n][k] = store[n][k]
        \/ m.to = n /\ m.key = k /\ store'[n][k] = new
    BY <1>1, <2>1 DEF TypeOK
  <2> QED BY <2>2 DEF new
<1> QED BY <1>2, <1>3 DEF ArriveStep

LEMMA NotBlankStep ==
  ASSUME TypeOK, Private, NotBlank, [Next]_vars, restarted' = {}
  PROVE  NotBlank'
<1>1. CASE PassStep
  BY <1>1 DEF PassStep, NotBlank
<1>2. ASSUME NEW t \in Client, NEW k \in Key, NEW v \in Written, WriteStep(t, k, v)
      PROVE  NotBlank'
  <2>1. \A n \in Node, j \in Key :
          \/ store'[n][j] = store[n][j]
          \/ j = k /\ store'[n][j].value = v
    BY <1>2 DEF WriteStep, EnginePut, TypeOK
  <2>2. deleted \subseteq deleted' /\ (v = Empty => k \in deleted')
    BY <1>2 DEF WriteStep
  <2> QED BY <1>2, <2>1, <2>2 DEF NotBlank, WriteStep
<1>3. ASSUME NEW t \in Client, PushStep(t) PROVE NotBlank'
  BY <1>3 DEF PushStep, NotBlank
<1>4. CASE ScanStep
  BY <1>4 DEF ScanStep, NotBlank
<1>5. ASSUME NEW m \in Message, ArriveStep(m) PROVE NotBlank'
  <2>1. m.reg \in Register /\ m.reg.value # Empty
    BY <1>5 DEF ArriveStep, NotBlank, Message
  <2>2. \A n \in Node, k \in Key :
          store'[n][k] = store[n][k] \/ store'[n][k] = Resolve(store[n][k], m.reg)
    BY <1>5, ArriveStore
  <2>3. \A n \in Node, k \in Key : Resolve(store[n][k], m.reg).value # Empty
    <3> TAKE n \in Node, k \in Key
    <3>1. store[n][k] \in Register
      BY DEF TypeOK
    <3> QED BY <2>1, <3>1, MergeIsSet DEF Resolve
  <2> QED BY <1>5, <2>2, <2>3 DEF NotBlank, ArriveStep
<1> QED BY <1>1, <1>2, <1>3, <1>4, <1>5, TransitSteps

\* No store forgets an event of a key that nobody removed.
LEMMA StoreGrows ==
  ASSUME TypeOK, LocalClockCovers, NotBlank, [Next]_vars, restarted' = {},
         NEW n \in Node, NEW k \in Key \ deleted
  PROVE  Leq(store[n][k].clock, store'[n][k].clock)
<1>1. n \notin restarted
  <2>1. restarted \subseteq restarted'
    BY EngineSteps DEF PutStep, DeliverStep, RestartStep
  <2> QED BY <2>1
<1>2. CASE store[n][k].value # Empty
  BY <1>1, <1>2, LiveStepHolds DEF LiveStep
<1>3. CASE store[n][k].value = Empty
  <2>1. store[n][k].clock = ZeroClock
    BY <1>3 DEF NotBlank
  <2>2. store'[n][k].clock \in Clock
    BY TypeStep DEF TypeOK, Register
  <2> QED BY <2>1, <2>2 DEF Leq, ZeroClock, Clock
<1> QED BY <1>2, <1>3

LEMMA RegistersType == TypeOK => \A k \in Key : Registers(k) \subseteq Register
<1> SUFFICES ASSUME TypeOK, NEW k \in Key, NEW r \in Registers(k)
             PROVE  r \in Register
  OBVIOUS
<1>1. \A n \in Node : Findable(n, k) \subseteq Register /\ store[n][k] \in Register
  BY FindableType DEF TypeOK
<1>2. \A y \in InTransit : y.reg \in Register
  BY InTransitType DEF Message
<1> QED BY <1>1, <1>2, RegistersAre

\* What is stored is a register, and stays one.
LEMMA StoreType ==
  ASSUME TypeOK, [Next]_vars, NEW n \in Node, NEW k \in Key
  PROVE  /\ store[n][k] \in Register /\ store'[n][k] \in Register
         /\ store[n][k].clock \in Clock /\ store'[n][k].clock \in Clock
<1>1. store \in [Node -> [Key -> Register]]
  BY DEF TypeOK
<1>2. store' \in [Node -> [Key -> Register]]
  BY TypeStep DEF TypeOK
<1> QED BY <1>1, <1>2 DEF Register

\* A step that removes nothing and loses nothing of the key leaves a node
\* told what it was told.
LEMMA ToldStays ==
  ASSUME FullMesh, TypeOK, Private, LocalClockCovers, NotBlank, [Next]_vars,
         restarted' = {}, NEW k \in Replicated', NEW m \in Node, NEW x \in Node,
         NEW c \in Nat, Told(m, k, x, c)
  PROVE  Told(m, k, x, c)'
<1>1. k \in Replicated
  <2>1. deleted \subseteq deleted' /\ dropped \subseteq dropped'
    BY TransitSteps
       DEF PassStep, WriteStep, PushStep, ScanStep, ArriveStep
  <2> QED BY <2>1 DEF Replicated
<1>2. k \in Key \ deleted
  BY <1>1 DEF Replicated
<1>3. \A n \in Node : /\ store[n][k].clock[x] \in Nat
                      /\ store'[n][k].clock[x] \in Nat
                      /\ store[n][k].clock[x] <= store'[n][k].clock[x]
  <2> TAKE n \in Node
  <2>1. Leq(store[n][k].clock, store'[n][k].clock)
    BY <1>2, StoreGrows
  <2>2. store[n][k].clock \in Clock /\ store'[n][k].clock \in Clock
    BY <1>2, StoreType
  <2> QED BY <2>1, <2>2 DEF Leq, Clock
<1>4. ASSUME NEW n \in Node, c <= store[n][k].clock[x]
      PROVE  c <= store'[n][k].clock[x]
  BY <1>3, <1>4
<1>5. \A t \in Thread : Home[t] \in Node
  BY ReplicationAssumption DEF ReplicationAssumption
<1>6. CASE c <= store[m][k].clock[x]
  BY <1>4, <1>6 DEF Told
<1>7. ASSUME NEW y \in InTransit, y.to = m, y.key = k, c <= y.reg.clock[x]
      PROVE  Told(m, k, x, c)'
  <2>1. CASE y \in InTransit'
    BY <1>7, <2>1 DEF Told
  <2>2. CASE y \notin InTransit'
    <3>1. ArriveStep(y)
      BY <2>2, TransitSteps DEF PassStep, WriteStep, PushStep, ScanStep, ArriveStep
    <3>2. k \notin dropped' /\ y \in Message
      BY <1>7, InTransitType DEF Replicated
    <3>3. store'[m][k] = Resolve(store[m][k], y.reg)
      BY <1>2, <1>7, <3>1, <3>2 DEF ArriveStep, EnginePutCrdt, TypeOK
    <3>4. store[m][k] \in Register /\ y.reg \in Register
      BY <1>2, <3>2 DEF TypeOK, Message
    <3>5. Leq(y.reg.clock, store'[m][k].clock)
      BY <3>3, <3>4, ResolveClock
    <3>6. y.reg.clock[x] \in Nat
      BY <3>4 DEF Register, Clock
    <3>7. c <= store'[m][k].clock[x]
      BY <1>3, <1>7, <3>5, <3>6 DEF Leq
    <3> QED BY <3>7 DEF Told
  <2> QED BY <2>1, <2>2
<1>8. ASSUME NEW t \in Thread, fetching[t] = k, c <= store[Home[t]][k].clock[x]
      PROVE  Told(m, k, x, c)'
  <2>1. c <= store'[Home[t]][k].clock[x]
    BY <1>4, <1>5, <1>8
  <2>2. CASE fetching'[t] = k
    BY <2>1, <2>2 DEF Told
  <2>3. CASE fetching'[t] # k
    <3>1. PushStep(t)
      <4>1. k # NoKey
        BY <1>2, ReplicationAssumption DEF ReplicationAssumption
      <4> QED BY <1>8, <2>3, <4>1, TransitSteps
              DEF PassStep, WriteStep, PushStep, ScanStep, ArriveStep, TypeOK
    <3>2. /\ k \notin dropped'
          /\ InTransit' = InTransit \cup
               (IF store[Home[t]][k].value = Empty THEN {}
                ELSE [to : Peers[Home[t]], key : {k}, reg : {store[Home[t]][k]}])
      <4>1. k \notin dropped'
        BY DEF Replicated
      <4> QED BY <1>8, <3>1, <4>1 DEF PushStep
    <3>3. CASE m = Home[t]
      BY <2>1, <3>3 DEF Told
    <3>4. CASE m # Home[t] /\ store[Home[t]][k].value = Empty
      <4>1. store[Home[t]][k].clock[x] = 0
        BY <1>2, <1>5, <3>4 DEF NotBlank, ZeroClock
      <4>2. c <= store'[m][k].clock[x]
        BY <1>3, <1>8, <4>1
      <4> QED BY <4>2 DEF Told
    <3>5. CASE m # Home[t] /\ store[Home[t]][k].value # Empty
      <4> DEFINE y == [to |-> m, key |-> k, reg |-> store[Home[t]][k]]
      <4>1. m \in Peers[Home[t]]
        BY <1>5, <3>5 DEF FullMesh
      <4>2. y \in InTransit'
        BY <3>2, <3>5, <4>1
      <4> QED BY <1>8, <4>2 DEF Told
    <3> QED BY <3>3, <3>4, <3>5
  <2> QED BY <2>2, <2>3
<1> QED BY <1>6, <1>7, <1>8 DEF Told

\* Where a register comes from: it has just been put by a thread that will
\* read it back, or deliveries, reads and scans made it of those that were
\* there.
LEMMA RegisterSteps ==
  ASSUME TypeOK, Private, [Next]_vars, restarted' = {}, NEW k \in Key,
         NEW r \in Registers(k)'
  PROVE  \/ Generated(r, k)
         \/ \E t \in Client, v \in Written :
              /\ WriteStep(t, k, v)
              /\ r = store'[Home[t]][k]
              /\ r = [value |-> v,
                      clock |-> Increment(localClock[Home[t]], Home[t])]
<1>0. \A t \in Thread : Home[t] \in Node
  BY ReplicationAssumption DEF ReplicationAssumption
<1>1. /\ \A n \in Node : Findable(n, k) \cup {store[n][k]} \subseteq Registers(k)
      /\ \A y \in InTransit : y.key = k => y.reg \in Registers(k)
  BY RegistersAre
<1>2. ASSUME r \in Registers(k) PROVE Generated(r, k)
  BY <1>2 DEF Generated
<1>3. ASSUME NEW n \in Node, r \in Findable(n, k)' PROVE Generated(r, k)
  BY <1>1, <1>2, <1>3, FindableSteps
<1>4. ASSUME NEW y \in InTransit', y.key = k, r = y.reg PROVE Generated(r, k)
  <2>1. CASE y \in InTransit
    BY <1>1, <1>2, <1>4, <2>1
  <2>2. ASSUME NEW n \in Node, Made(n, k, r) PROVE Generated(r, k)
    BY <1>1, <2>2, MadeStays DEF Generated
  <2> QED BY <1>4, <2>1, <2>2, MessageSteps
<1>5. ASSUME NEW n \in Node, r = store'[n][k]
      PROVE  \/ Generated(r, k)
             \/ \E t \in Client, v \in Written :
                  /\ WriteStep(t, k, v)
                  /\ r = store'[Home[t]][k]
                  /\ r = [value |-> v,
                          clock |-> Increment(localClock[Home[t]], Home[t])]
  <2>1. CASE store' = store
    BY <1>1, <1>2, <1>5, <2>1
  <2>2. ASSUME NEW t \in Client, NEW j \in Key, NEW v \in Written, WriteStep(t, j, v)
        PROVE  \/ r \in Registers(k)
               \/ /\ j = k /\ r = store'[Home[t]][k]
                  /\ r = [value |-> v,
                          clock |-> Increment(localClock[Home[t]], Home[t])]
    <3>1. \/ store'[n][k] = store[n][k]
          \/ /\ j = k /\ n = Home[t]
             /\ store'[n][k] = [value |-> v,
                                clock |-> Increment(localClock[Home[t]], Home[t])]
      BY <1>0, <2>2 DEF WriteStep, EnginePut, TypeOK, Thread
    <3> QED BY <1>1, <1>5, <3>1
  <2>3. ASSUME NEW m \in Message, ArriveStep(m) PROVE Generated(r, k)
    <3>1. m \in InTransit
      BY <2>3 DEF ArriveStep
    <3>2. \/ store'[n][k] = store[n][k]
          \/ m.key = k /\ store'[n][k] = Resolve(store[n][k], m.reg)
      BY <2>3, ArriveStore
    <3>3. CASE store'[n][k] = store[n][k]
      BY <1>1, <1>2, <1>5, <3>3
    <3>4. CASE m.key = k /\ store'[n][k] = Resolve(store[n][k], m.reg)
      <4>1. store[n][k] \in Registers(k) /\ m.reg \in Registers(k)
        BY <1>1, <3>1, <3>4
      <4>2. r = m.reg \/ r = Merge(m.reg, store[n][k])
        BY <1>5, <3>4 DEF Resolve
      <4> QED BY <4>1, <4>2 DEF Generated
    <3> QED BY <3>2, <3>3, <3>4
  <2> QED BY <1>2, <2>1, <2>2, <2>3, TransitSteps DEF PassStep, PushStep, ScanStep
<1> QED BY <1>3, <1>4, <1>5, RegistersAre

LEMMA AllToldStep ==
  ASSUME FullMesh, TypeOK, Private, LocalClockCovers, NotBlank, AllTold,
         [Next]_vars, restarted' = {}
  PROVE  AllTold'
<1> SUFFICES ASSUME NEW k \in Replicated', NEW r \in Registers(k)',
                    NEW m \in Node, NEW x \in Node
             PROVE  Told(m, k, x, r.clock[x])'
  BY DEF AllTold
<1>1. k \in Replicated /\ k \in Key
  <2>1. deleted \subseteq deleted' /\ dropped \subseteq dropped'
    BY TransitSteps
       DEF PassStep, WriteStep, PushStep, ScanStep, ArriveStep
  <2> QED BY <2>1 DEF Replicated
<1>2. \A e \in Registers(k) : e.clock[x] \in Nat /\ e \in Register /\ e.clock \in Clock
  BY <1>1, RegistersType DEF Register, Clock
<1>3. \A e \in Registers(k) : Told(m, k, x, e.clock[x])'
  BY <1>1, <1>2, ToldStays DEF AllTold
<1>4. CASE Generated(r, k)
  <2> DEFINE S == {e \in Register : Told(m, k, x, e.clock[x])'}
  <2>1. Registers(k) \subseteq S
    BY <1>2, <1>3
  <2>2. \A a, b \in S : Merge(a, b) \in S
    <3> SUFFICES ASSUME NEW a \in S, NEW b \in S PROVE Merge(a, b) \in S
      OBVIOUS
    <3>1. Merge(a, b) \in Register
      BY MergeType
    <3>2. Merge(a, b).clock = MergeClock(a.clock, b.clock)
      BY MergeJoinsClocks
    <3>3. \/ Merge(a, b).clock[x] = a.clock[x]
          \/ Merge(a, b).clock[x] = b.clock[x]
      BY <3>2 DEF MergeClock, Larger
    <3> QED BY <3>1, <3>3
  <2>3. S \in SUBSET Register
    OBVIOUS
  <2> HIDE DEF S
  <2>4. r \in S
    BY <1>4, <2>1, <2>2, <2>3 DEF Generated
  <2> QED BY <2>4 DEF S
<1>5. ASSUME NEW t \in Client, NEW v \in Written, WriteStep(t, k, v),
             r = store'[Home[t]][k]
      PROVE  Told(m, k, x, r.clock[x])'
  <2>1. t \in Thread /\ fetching'[t] = k
    BY <1>5 DEF WriteStep, Thread, TypeOK
  <2>2. Home[t] \in Node
    BY <2>1, ReplicationAssumption DEF ReplicationAssumption
  <2>3. store'[Home[t]][k] \in Register
    BY <1>1, <2>2, StoreType
  <2>4. r.clock[x] \in Nat
    BY <1>5, <2>3 DEF Register, Clock
  <2>5. r.clock[x] <= store'[Home[t]][k].clock[x]
    BY <1>5, <2>4
  <2> QED BY <2>1, <2>5 DEF Told
<1> QED BY <1>1, <1>4, <1>5, RegisterSteps

\* The inductive invariant: until a node restarts.
AgreeInv ==
  restarted = {} => LocalClockCovers /\ NotBlank /\ AllTold

\* At first there is nothing but Absent.
LEMMA AtFirst ==
  ASSUME Init
  PROVE  /\ InTransit = {}
         /\ \A n \in Node, k \in Key : store[n][k] = Absent
         /\ \A k \in Key : \A r \in Registers(k) : r = Absent
<1>1. InTransit = {}
  BY InTransitIs DEF Init
<1>2. \A n \in Node, k \in Key : store[n][k] = Absent
  BY DEF Init, Nothing
<1>3. \A n \in Node, k \in Key : \A r \in Findable(n, k) : r = Absent
  BY FindableIs DEF Init
<1>4. \A k \in Key : \A r \in Registers(k) : r = Absent
  BY <1>1, <1>2, <1>3, RegistersAre
<1> QED BY <1>1, <1>2, <1>4

LEMMA AgreeInit == Init => Private /\ AgreeInv
<1> SUFFICES ASSUME Init PROVE Private /\ AgreeInv
  OBVIOUS
<1>1. \A m \in Node, x \in Node : ZeroClock[x] = 0
  BY DEF ZeroClock
<1>2. AllTold
  BY <1>1, AtFirst DEF AllTold, Told, Replicated, Absent
<1>3. NotBlank
  BY AtFirst DEF NotBlank, Absent
<1> QED BY <1>2, <1>3, CoversInit DEF AgreeInv, Private, Init

LEMMA AgreeStep ==
  FullMesh /\ TypeOK /\ Private /\ AgreeInv /\ [Next]_vars => AgreeInv'
<1> SUFFICES ASSUME FullMesh, TypeOK, Private, AgreeInv, [Next]_vars,
                    restarted' = {}
             PROVE  LocalClockCovers' /\ NotBlank' /\ AllTold'
  BY DEF AgreeInv
<1>1. restarted = {}
  <2>1. restarted \subseteq restarted'
    BY EngineSteps DEF PutStep, DeliverStep, RestartStep
  <2> QED BY <2>1
<1> QED BY <1>1, CoversStep, NotBlankStep, AllToldStep DEF AgreeInv

LEMMA AgreeImplies == TypeOK /\ AgreeInv => QuiescentClocksAgree
<1> SUFFICES ASSUME TypeOK, AgreeInv, Quiescent, restarted = {},
                    NEW k \in Replicated, NEW n \in Node, NEW m \in Node
             PROVE  store[n][k].clock = store[m][k].clock
  BY DEF QuiescentClocksAgree
<1>1. InTransit = {}
  BY DEF InTransit, Quiescent, Idle
<1>2. k \in Key /\ \A t \in Thread : fetching[t] # k
  BY ReplicationAssumption DEF ReplicationAssumption, Quiescent, Idle, Replicated
<1>3. \A p \in Node, q \in Node, x \in Node :
        store[p][k].clock[x] <= store[q][k].clock[x]
  <2>1. \A p \in Node : store[p][k] \in Registers(k)
    BY RegistersAre
  <2> QED BY <1>1, <1>2, <2>1 DEF AgreeInv, AllTold, Told
<1>4. \A p \in Node, q \in Node : Leq(store[p][k].clock, store[q][k].clock)
  BY <1>3 DEF Leq
<1>5. \A p \in Node : store[p][k].clock \in Clock
  BY <1>2 DEF TypeOK, Register
<1> QED BY <1>4, <1>5, LeqIsPartialOrder

\* In a full mesh of peers without a restart all nodes know the same history
\* of a key that was neither removed nor lost by the bus, and no read back of
\* which missed the newest register, as soon as nothing is on its way: every
\* register that any client put has been pushed by the thread that put it or
\* has become part of what another thread pushes later, whichever threads and
\* messages overtook each other, and whatever versions scans merged.
THEOREM QuiescentClocksAlwaysAgree == FullMesh => (Spec => []QuiescentClocksAgree)
<1> SUFFICES ASSUME FullMesh PROVE Spec => []QuiescentClocksAgree
  OBVIOUS
<1>1. Init => TypeOK /\ Private /\ AgreeInv
  BY TypeInit, AgreeInit
<1>2. (TypeOK /\ Private /\ AgreeInv) /\ [Next]_vars
        => (TypeOK /\ Private /\ AgreeInv)'
  BY TypeStep, PrivateStep, AgreeStep
<1>3. TypeOK /\ AgreeInv => QuiescentClocksAgree
  BY AgreeImplies
<1> QED BY <1>1, <1>2, <1>3, PTL DEF Spec

-----------------------------------------------------------------------------
(* A key that one node writes. *)

\* The registers of a key that one node writes and nobody removed lie on one
\* causal line, the store of the writer at its top.
SoleLine(k, w) ==
  /\ \A r \in Registers(k) : Leq(r.clock, store[w][k].clock)
  /\ \A r, s \in Registers(k) :
       /\ Leq(r.clock, s.clock) \/ Leq(s.clock, r.clock)
       /\ r.clock = s.clock => r = s

SoleInv ==
  \A k \in Key \ deleted, w \in Node : Writer[k] = {w} => SoleLine(k, w)

\* Of two registers of a line a merge takes one.
LEMMA MergeOnLine ==
  ASSUME NEW a \in Register, NEW b \in Register,
         Leq(a.clock, b.clock) \/ Leq(b.clock, a.clock),
         a.clock = b.clock => a = b
  PROVE  Merge(a, b) \in {a, b}
<1>1. a.clock \in Clock /\ b.clock \in Clock
  BY DEF Register
<1>2. CASE a = b
  BY <1>2, MergeLaws, ValueAssumption
<1>3. CASE a.clock # b.clock
  <2>1. CASE Leq(b.clock, a.clock) /\ ~Leq(a.clock, b.clock)
    <3>1. Order(b.clock, a.clock) = "HappensBefore"
      BY <1>1, <2>1, OrderMeaning
    <3>2. Merge(b, a) = a
      BY <3>1 DEF Merge
    <3>3. Merge(b, a) = Merge(a, b)
      BY <1>3, MergeLaws, ValueAssumption
    <3> QED BY <3>2, <3>3
  <2>2. CASE Leq(a.clock, b.clock) /\ ~Leq(b.clock, a.clock)
    <3>1. Order(a.clock, b.clock) = "HappensBefore"
      BY <1>1, <2>2, OrderMeaning
    <3> QED BY <3>1 DEF Merge
  <2> QED BY <1>1, <1>3, <2>1, <2>2, LeqIsPartialOrder
<1> QED BY <1>2, <1>3

\* The clock of a put is above everything its node stores.
LEMMA PutTops ==
  ASSUME TypeOK, LocalClockCovers, restarted = {},
         NEW w \in Node, NEW k \in Key, NEW c \in Clock,
         Leq(c, store[w][k].clock)
  PROVE  /\ Leq(c, Increment(localClock[w], w))
         /\ c # Increment(localClock[w], w)
<1>1. Leq(store[w][k].clock, localClock[w])
  BY DEF LocalClockCovers
<1>2. store[w][k].clock \in Clock /\ localClock[w] \in Clock
  BY DEF TypeOK, Register
<1>3. Leq(c, localClock[w])
  BY <1>1, <1>2, LeqIsPartialOrder
<1>4. \A m \in Node : c[m] \in Nat /\ localClock[w][m] \in Nat
                        /\ c[m] <= localClock[w][m]
  BY <1>2, <1>3 DEF Leq, Clock
<1>5. \A m \in Node : Increment(localClock[w], w)[m]
                        = IF m = w THEN localClock[w][m] + 1 ELSE localClock[w][m]
  BY <1>2 DEF Increment, Clock
<1>6. \A m \in Node : c[m] <= Increment(localClock[w], w)[m]
  <2> TAKE m \in Node
  <2>1. CASE m = w
    BY <1>4, <1>5, <2>1
  <2>2. CASE m # w
    BY <1>4, <1>5, <2>2
  <2> QED BY <2>1, <2>2
<1>7. c[w] # Increment(localClock[w], w)[w]
  BY <1>4, <1>5
<1> QED BY <1>6, <1>7 DEF Leq

LEMMA SoleStep ==
  ASSUME TypeOK, Private, LocalClockCovers, NotBlank, SoleInv, [Next]_vars,
         restarted = {}, restarted' = {}
  PROVE  SoleInv'
<1> SUFFICES ASSUME NEW k \in Key \ deleted', NEW w \in Node, Writer[k] = {w}
             PROVE  SoleLine(k, w)'
  BY DEF SoleInv
<1>1. k \in Key \ deleted
  <2>1. deleted \subseteq deleted'
    BY TransitSteps DEF PassStep, WriteStep, PushStep, ScanStep, ArriveStep
  <2> QED BY <2>1
<1>2. SoleLine(k, w)
  BY <1>1 DEF SoleInv
<1>3. /\ Registers(k) \subseteq Register
      /\ \A r \in Registers(k) : r.clock \in Clock
      /\ store'[w][k].clock \in Clock /\ store[w][k].clock \in Clock
  <2>1. Registers(k) \subseteq Register
    BY <1>1, RegistersType
  <2> QED BY <1>1, <2>1, StoreType DEF Register
<1>4. ASSUME NEW r \in Registers(k)'
      PROVE  \/ r \in Registers(k)
             \/ r = store'[w][k] /\ r.clock = Increment(localClock[w], w)
  <2>1. ASSUME NEW t \in Client, NEW v \in Written, WriteStep(t, k, v),
               r = store'[Home[t]][k],
               r = [value |-> v, clock |-> Increment(localClock[Home[t]], Home[t])]
        PROVE  r = store'[w][k] /\ r.clock = Increment(localClock[w], w)
    <3>1. Home[t] = w
      BY <2>1 DEF WriteStep
    <3>2. r = store'[w][k]
      BY <2>1, <3>1
    <3>3. r.clock = Increment(localClock[Home[t]], Home[t])
      BY <2>1
    <3> QED BY <3>1, <3>2, <3>3
  <2>2. CASE Generated(r, k)
    <3>1. \A a, b \in Registers(k) : Merge(a, b) \in Registers(k)
      BY <1>2, <1>3, MergeOnLine DEF SoleLine
    <3> QED BY <1>3, <2>2, <3>1 DEF Generated
  <2> QED BY <1>1, <2>1, <2>2, RegisterSteps
<1>5. ASSUME NEW r \in Registers(k)
      PROVE  /\ r.clock \in Clock
             /\ Leq(r.clock, store[w][k].clock)
             /\ Leq(r.clock, store'[w][k].clock)
             /\ Leq(r.clock, Increment(localClock[w], w))
             /\ r.clock # Increment(localClock[w], w)
  <2>1. Leq(r.clock, store[w][k].clock)
    BY <1>2 DEF SoleLine
  <2>2. Leq(store[w][k].clock, store'[w][k].clock)
    BY <1>1, StoreGrows
  <2>3. Leq(r.clock, store'[w][k].clock)
    BY <1>3, <2>1, <2>2, LeqIsPartialOrder
  <2> QED BY <1>1, <1>3, <2>1, <2>3, PutTops
<1>6. \A r \in Registers(k)' : Leq(r.clock, store'[w][k].clock)
  BY <1>3, <1>4, <1>5, LeqIsPartialOrder
<1>7. ASSUME NEW r \in Registers(k)', NEW s \in Registers(k)'
      PROVE  /\ Leq(r.clock, s.clock) \/ Leq(s.clock, r.clock)
             /\ r.clock = s.clock => r = s
  <2>1. CASE r \in Registers(k) /\ s \in Registers(k)
    BY <1>2, <2>1 DEF SoleLine
  <2>2. CASE r = store'[w][k] /\ s = store'[w][k]
    BY <1>3, <2>2, LeqIsPartialOrder
  <2>3. CASE r \in Registers(k) /\ s.clock = Increment(localClock[w], w)
    BY <1>5, <2>3
  <2>4. CASE s \in Registers(k) /\ r.clock = Increment(localClock[w], w)
    BY <1>5, <2>4
  <2> QED BY <1>4, <2>1, <2>2, <2>3, <2>4
<1> QED BY <1>6, <1>7 DEF SoleLine

LEMMA SoleInit == Init => SoleInv
<1> SUFFICES ASSUME Init, NEW k \in Key, NEW w \in Node PROVE SoleLine(k, w)
  BY DEF SoleInv
<1>1. Absent.clock = ZeroClock /\ Leq(ZeroClock, ZeroClock)
  BY ClockType, LeqIsPartialOrder DEF Absent
<1> QED BY <1>1, AtFirst DEF SoleLine

\* Nothing restarts when no restart is allowed.
LEMMA NoRestartStep ==
  (\A n \in Node : MaxRestarts[n] = 0) /\ TypeOK /\ restarted = {} /\ [Next]_vars
    => restarted' = {}
<1> SUFFICES ASSUME \A n \in Node : MaxRestarts[n] = 0,
                    TypeOK, restarted = {}, [Next]_vars
             PROVE  restarted' = {}
  OBVIOUS
<1>1. ASSUME NEW n \in Node, Restart(n) PROVE FALSE
  <2>1. restarts[n] \in Nat /\ restarts[n] < 0
    BY <1>1 DEF Restart, TypeOK
  <2> QED BY <2>1
<1>2. ASSUME NEW n \in Node,
             Swap(n) \/ EndPut(n) \/ \E cut \in BOOLEAN : Partition(n, cut)
      PROVE  restarted' = restarted
  BY <1>2 DEF Swap, EndPut, Partition, historyVars
<1>3. ASSUME NEW t \in Thread,
             \/ \E k \in Key, v \in Written : Put(t, k, v)
             \/ FetchForPush(t)
             \/ \E target \in Node : TriggerAntiEntropy(t, target)
             \/ ScanNext(t)
             \/ ScanList(t)
             \/ Send(t)
      PROVE  restarted' = restarted
  BY <1>3 DEF Put, FetchForPush, TriggerAntiEntropy, ScanNext, ScanList, Send,
              historyVars
<1>4. ASSUME NEW d \in Deliverer, Pop(d) \/ Deliver(d)
      PROVE  restarted' = restarted
  BY <1>4 DEF Pop, Deliver, historyVars
<1>5. CASE UNCHANGED vars
  BY <1>5 DEF vars, historyVars
<1>6. CASE Next
  BY <1>1, <1>2, <1>3, <1>4, <1>6 DEF Next, Thread
<1> QED BY <1>5, <1>6

\* In a full mesh of peers without a restart all nodes hold the same register
\* of a key that only one of them writes, as soon as nothing is on its way, if
\* no message of the key was lost and no read back missed the newest register:
\* the concurrent puts of several threads of that node, pushed and delivered
\* in any order and merged with older versions by scans, leave no two
\* registers with one clock.
THEOREM SoleWriterAlwaysConverged ==
  FullMesh /\ (\A n \in Node : MaxRestarts[n] = 0) /\ IsFiniteSet(Node)
    => (Spec => []SoleWriterConverged)
<1> SUFFICES ASSUME FullMesh, \A n \in Node : MaxRestarts[n] = 0, IsFiniteSet(Node)
             PROVE  Spec => []SoleWriterConverged
  OBVIOUS
<1> DEFINE Inv == /\ TypeOK /\ Private /\ AgreeInv
                  /\ restarted = {} /\ SoleInv
<1>1. Init => Inv
  BY TypeInit, AgreeInit, SoleInit DEF Init
<1>2. Inv /\ [Next]_vars => Inv'
  BY TypeStep, PrivateStep, AgreeStep, NoRestartStep, SoleStep DEF AgreeInv
<1>3. Inv => SoleWriterConverged
  <2> SUFFICES ASSUME Inv, Quiescent, NEW k \in Replicated,
                      NEW n \in Node, NEW m \in Node, Cardinality(Writer[k]) = 1
               PROVE  store[n][k] = store[m][k]
    BY DEF SoleWriterConverged
  <2>1. k \in Key \ deleted /\ Writer[k] \subseteq Node
    BY ReplicationAssumption DEF ReplicationAssumption, Replicated
  <2>2. IsFiniteSet(Writer[k])
    BY <2>1, FS_Subset
  <2>3. PICK w : Writer[k] = {w}
    BY <2>2, FS_Singleton
  <2>4. w \in Node /\ SoleLine(k, w)
    BY <2>1, <2>3 DEF SoleInv
  <2>5. store[n][k].clock = store[m][k].clock
    BY AgreeImplies DEF QuiescentClocksAgree
  <2>6. store[n][k] \in Registers(k) /\ store[m][k] \in Registers(k)
    BY RegistersAre
  <2> QED BY <2>4, <2>5, <2>6 DEF SoleLine
<1> HIDE DEF Inv
<1> QED BY <1>1, <1>2, <1>3, PTL DEF Spec

-----------------------------------------------------------------------------
(* Causal delivery between two nodes. *)

\* There are at most two nodes, one client thread calls each of them, and one
\* thread pumps the bus.
TwoInOrder ==
  /\ \A a, b, c \in Node : a = b \/ b = c \/ a = c
  /\ \A t, u \in Client : Home[t] = Home[u] => t = u
  /\ \A d, e \in Deliverer : d = e

\* The i-th put of node h, which is of key k: node n has it, and message y
\* brings it there.
Has(n, k, h, i) == i <= store[n][k].clock[h]

Carries(y, n, k, h, i) == y.to = n /\ y.key = k /\ i <= y.reg.clock[h]

InHands(n, k, h, i) ==
  \E d \in Deliverer : inHand[d] # NoMsg /\ Carries(inHand[d], n, k, h, i)

\* It arrives no later than the p-th message of the queue.
Comes(p, n, k, h, i) ==
  \/ Has(n, k, h, i)
  \/ InHands(n, k, h, i)
  \/ \E q \in 1..p : Carries(queue[q], n, k, h, i)

Sent(n, k, h, i) == Comes(Len(queue), n, k, h, i)

\* A message or a register of another key that knows of the put never comes
\* to a node before the put does.
InOrder(n, k, h, i) ==
  /\ \A p \in 1..Len(queue) :
       queue[p].to = n /\ i <= queue[p].reg.clock[h] => Comes(p, n, k, h, i)
  /\ \A d \in Deliverer :
       inHand[d] # NoMsg /\ inHand[d].to = n /\ i <= inHand[d].reg.clock[h]
         => Has(n, k, h, i) \/ inHand[d].key = k

Spread(n, k, h, i) ==
  \A j \in Key \ {k} : \A r \in Registers(j) :
    i <= r.clock[h] => Sent(n, k, h, i)

\* Until the put is sent its thread makes no other.
Pushed(n, k, h, i) ==
  \/ Sent(n, k, h, i)
  \/ \E t \in Client :
       /\ Home[t] = h
       /\ fetching[t] = k \/ \E y \in outbox[t] : Carries(y, n, k, h, i)

Learnt(n, k, h, i) == i <= localClock[n][h] => Has(n, k, h, i)

Traced(h, i, k) ==
  /\ Has(h, k, h, i)
  /\ \A n \in Node : Learnt(n, k, h, i)
  /\ \A n \in Node \ {h} : /\ InOrder(n, k, h, i)
                           /\ Spread(n, k, h, i)
                           /\ Pushed(n, k, h, i)

Counted == \A h \in Node : localClock[h][h] = Len(issued[h])

AllTraced ==
  \A h \in Node : \A i \in 1..Len(issued[h]) : \A k \in Replicated :
    issued[h][i] = k => Traced(h, i, k)

\* The inductive invariant: until a node restarts.
CausalInv == restarted = {} => Counted /\ AllTraced

\* What the steps below start from.
Calm ==
  /\ FullMesh /\ TwoInOrder
  /\ TypeOK /\ Private /\ LocalClockCovers /\ NotBlank
  /\ [Next]_vars /\ restarted = {} /\ restarted' = {}

\* What the bus does in a step.
LEMMA BusSteps ==
  ASSUME [Next]_vars
  PROVE  \/ UNCHANGED <<queue, inHand>>
         \/ \E t \in Thread : Send(t)
         \/ \E d \in Deliverer : Pop(d)
         \/ \E d \in Deliverer : Deliver(d)
<1>1. ASSUME NEW t \in Thread,
             \/ \E k \in Key, v \in Written : Put(t, k, v)
             \/ FetchForPush(t)
             \/ \E target \in Node : TriggerAntiEntropy(t, target)
             \/ ScanNext(t)
             \/ ScanList(t)
      PROVE  UNCHANGED <<queue, inHand>>
  BY <1>1 DEF Put, FetchForPush, TriggerAntiEntropy, ScanNext, ScanList, busVars
<1>2. ASSUME NEW n \in Node,
             \/ Swap(n) \/ EndPut(n) \/ Restart(n)
             \/ \E cut \in BOOLEAN : Partition(n, cut)
      PROVE  UNCHANGED <<queue, inHand>>
  BY <1>2 DEF Swap, EndPut, Restart, Partition, busVars
<1>3. CASE UNCHANGED vars
  BY <1>3 DEF vars, busVars
<1>4. CASE Next
  BY <1>1, <1>2, <1>4 DEF Next, Thread
<1> QED BY <1>3, <1>4

\* Keys are only ever taken from the replicated ones.
LEMMA ReplicatedShrinks ==
  ASSUME TypeOK, Private, [Next]_vars, restarted' = {}
  PROVE  Replicated' \subseteq Replicated
<1>1. deleted \subseteq deleted' /\ dropped \subseteq dropped'
  BY TransitSteps DEF PassStep, WriteStep, PushStep, ScanStep, ArriveStep
<1> QED BY <1>1 DEF Replicated

\* A node keeps what it has.
LEMMA HasStays ==
  ASSUME Calm, NEW n \in Node, NEW k \in Replicated', NEW h \in Node, NEW i \in Nat,
         Has(n, k, h, i)
  PROVE  Has(n, k, h, i)'
<1>1. k \in Key \ deleted
  BY ReplicatedShrinks DEF Calm, Replicated
<1>2. Leq(store[n][k].clock, store'[n][k].clock)
  BY <1>1, StoreGrows DEF Calm
<1>3. TypeOK /\ TypeOK'
  BY TypeStep DEF Calm
<1>4. store[n][k] \in Register /\ store'[n][k] \in Register
  <2>1. k \in Key
    BY <1>1
  <2>2. store \in [Node -> [Key -> Register]] /\ store' \in [Node -> [Key -> Register]]
    BY <1>3 DEF TypeOK
  <2> QED BY ONLY <2>1, <2>2, n \in Node
<1>5. store[n][k].clock[h] \in Nat /\ store'[n][k].clock[h] \in Nat
  BY <1>4 DEF Register, Clock
<1> QED BY <1>2, <1>5 DEF Leq, Has

\* A message that is handed over and not lost brings what it carries.
LEMMA CarrierArrives ==
  ASSUME Calm, NEW d \in Deliverer, Deliver(d),
         NEW n \in Node, NEW k \in Replicated', NEW h \in Node, NEW i \in Nat,
         Carries(inHand[d], n, k, h, i)
  PROVE  Has(n, k, h, i)'
<1> DEFINE y == inHand[d]
<1>1. y \in Message /\ y.reg \in Register
  BY DEF Calm, TypeOK, Deliver, Message
<1>2. k \in Key /\ y.to = n /\ y.key = k /\ i <= y.reg.clock[h] /\ k \notin dropped'
  BY DEF Replicated, Carries
<1>3. EnginePutCrdt(n, k, y.reg)
  BY <1>2 DEF Deliver
<1>4. store'[n][k] = Resolve(store[n][k], y.reg) /\ store[n][k] \in Register
  BY <1>2, <1>3 DEF EnginePutCrdt, Calm, TypeOK
<1>5. /\ Leq(y.reg.clock, store'[n][k].clock) /\ y.reg.clock \in Clock
      /\ store'[n][k].clock \in Clock
  BY <1>1, <1>4, ResolveClock DEF Register
<1>6. y.reg.clock[h] \in Nat /\ store'[n][k].clock[h] \in Nat
        /\ y.reg.clock[h] <= store'[n][k].clock[h]
  BY <1>5 DEF Leq, Clock
<1> QED BY <1>2, <1>6 DEF Has

\* What comes by the p-th message still does, one place further to the front
\* if a message was popped.
LEMMA ComesStays ==
  ASSUME Calm, NEW n \in Node, NEW k \in Replicated', NEW h \in Node, NEW i \in Nat,
         NEW p \in 0..Len(queue), Comes(p, n, k, h, i)
  PROVE  /\ (\A d \in Deliverer : ~Pop(d)) => Comes(p, n, k, h, i)'
         /\ \A d \in Deliverer : Pop(d) => Comes(p - 1, n, k, h, i)'
<1>1. CASE Has(n, k, h, i)
  <2>1. Has(n, k, h, i)'
    BY <1>1, HasStays
  <2> QED BY <2>1 DEF Comes
<1>2. queue \in Seq(Message) /\ Len(queue) \in Nat
  BY DEF Calm, TypeOK
<1>3. ASSUME NEW d \in Deliverer, Pop(d), ~Has(n, k, h, i)
      PROVE  Comes(p - 1, n, k, h, i)'
  <2>1. /\ queue # <<>> /\ queue' = Tail(queue)
        /\ inHand' = [inHand EXCEPT ![d] = Head(queue)]
        /\ inHand[d] = NoMsg
    BY <1>3 DEF Pop
  <2>2. /\ Head(queue) = queue[1] /\ queue[1] \in Message
        /\ \A q \in 1..(Len(queue) - 1) : queue'[q] = queue[q + 1]
    BY <1>2, <2>1
  <2>3. inHand'[d] = queue[1] /\ queue[1] # NoMsg
    BY <2>1, <2>2, ReplicationAssumption DEF ReplicationAssumption, Calm, TypeOK
  <2>4. \A e \in Deliverer : e # d => inHand'[e] = inHand[e]
    BY <2>1 DEF Calm, TypeOK
  <2>5. CASE InHands(n, k, h, i)
    <3>1. InHands(n, k, h, i)'
      BY <2>1, <2>4, <2>5 DEF InHands, Carries
    <3> QED BY <3>1 DEF Comes
  <2>6. ASSUME NEW q \in 1..p, Carries(queue[q], n, k, h, i)
        PROVE  Comes(p - 1, n, k, h, i)'
    <3>1. CASE q = 1
      <4>1. InHands(n, k, h, i)'
        BY <2>3, <2>6, <3>1 DEF InHands, Carries
      <4> QED BY <4>1 DEF Comes
    <3>2. CASE q # 1
      <4>1. /\ q - 1 \in 1..(p - 1) /\ q - 1 \in 1..(Len(queue) - 1)
            /\ (q - 1) + 1 = q
        BY <1>2, <3>2
      <4>2. queue'[q - 1] = queue[q]
        BY <2>2, <4>1
      <4> QED BY <2>6, <4>1, <4>2 DEF Comes, Carries
    <3> QED BY <3>1, <3>2
  <2> QED BY <1>3, <2>5, <2>6 DEF Comes
<1>4. ASSUME NEW t \in Thread, Send(t), ~Has(n, k, h, i)
      PROVE  Comes(p, n, k, h, i)'
  <2>1. PICK m \in outbox[t] : queue' = Append(queue, m)
    BY <1>4 DEF Send
  <2>2. \A q \in 1..p : queue'[q] = queue[q]
    BY <1>2, <2>1
  <2>3. inHand' = inHand
    BY <1>4 DEF Send
  <2> QED BY <1>4, <2>2, <2>3 DEF Comes, InHands, Carries
<1>5. ASSUME NEW d \in Deliverer, Deliver(d), ~Has(n, k, h, i)
      PROVE  Comes(p, n, k, h, i)'
  <2>1. CASE Carries(inHand[d], n, k, h, i)
    BY <1>5, <2>1, CarrierArrives DEF Comes
  <2>2. CASE ~Carries(inHand[d], n, k, h, i)
    <3>1. queue' = queue /\ \A e \in Deliverer : e # d => inHand'[e] = inHand[e]
      BY <1>5 DEF Deliver, Calm, TypeOK
    <3>2. InHands(n, k, h, i) => InHands(n, k, h, i)'
      BY <2>2, <3>1 DEF InHands, Carries
    <3> QED BY <1>5, <3>1, <3>2 DEF Comes, Carries
  <2> QED BY <2>1, <2>2
<1>6. ASSUME UNCHANGED <<queue, inHand>>, ~Has(n, k, h, i)
      PROVE  Comes(p, n, k, h, i)'
  BY <1>6 DEF Comes, InHands, Carries
<1>7. [Next]_vars
  BY DEF Calm
<1>8. ASSUME \A d \in Deliverer : ~Pop(d) PROVE Comes(p, n, k, h, i)'
  <2>1. \/ UNCHANGED <<queue, inHand>>
        \/ \E t \in Thread : Send(t)
        \/ \E d \in Deliverer : Deliver(d)
    BY <1>7, <1>8, BusSteps
  <2>2. CASE Has(n, k, h, i)
    BY <1>1, <1>8, <2>2
  <2>3. CASE ~Has(n, k, h, i)
    <3>1. CASE UNCHANGED <<queue, inHand>>
      BY <1>6, <2>3, <3>1
    <3>2. CASE \E t \in Thread : Send(t)
      BY <1>4, <2>3, <3>2
    <3>3. CASE \E d \in Deliverer : Deliver(d)
      BY <1>5, <2>3, <3>3
    <3> QED BY <2>1, <3>1, <3>2, <3>3
  <2> QED BY <2>2, <2>3
<1> QED BY <1>1, <1>3, <1>8

LEMMA SentStays ==
  ASSUME Calm, NEW n \in Node, NEW k \in Replicated', NEW h \in Node, NEW i \in Nat,
         Sent(n, k, h, i)
  PROVE  Sent(n, k, h, i)'
<1>1. queue \in Seq(Message) /\ Len(queue) \in Nat /\ Len(queue) \in 0..Len(queue)
  BY DEF Calm, TypeOK
<1>2. ASSUME NEW d \in Deliverer, Pop(d) PROVE Len(queue') = Len(queue) - 1
  BY <1>1, <1>2 DEF Pop
<1>3. ASSUME \A d \in Deliverer : ~Pop(d)
      PROVE  Len(queue') \in Nat /\ Len(queue) <= Len(queue')
  <2>1. ASSUME NEW t \in Thread, Send(t) PROVE Len(queue') = Len(queue) + 1
    BY <1>1, <2>1 DEF Send, Calm, TypeOK
  <2>2. ASSUME NEW d \in Deliverer, Deliver(d) PROVE queue' = queue
    BY <2>2 DEF Deliver
  <2>3. [Next]_vars
    BY DEF Calm
  <2> QED BY <1>1, <1>3, <2>1, <2>2, <2>3, BusSteps
<1>4. PICK p \in Nat : p = Len(queue)
  BY <1>1
<1>5. p \in 0..Len(queue) /\ Comes(p, n, k, h, i)
  BY <1>1, <1>4 DEF Sent
<1>6. CASE \E d \in Deliverer : Pop(d)
  <2>1. Comes(p - 1, n, k, h, i)' /\ Len(queue') = p - 1
    BY <1>2, <1>4, <1>5, <1>6, ComesStays
  <2> QED BY <2>1 DEF Sent, Comes
<1>7. CASE \A d \in Deliverer : ~Pop(d)
  <2>1. Comes(p, n, k, h, i)'
    BY <1>5, <1>7, ComesStays
  <2>2. 1..p \subseteq 1..Len(queue')
    BY <1>3, <1>4, <1>7
  <2> QED BY <2>1, <2>2 DEF Sent, Comes
<1> QED BY <1>6, <1>7

\* Messages keep their order: one is sent behind what its sender has sent
\* before, and popped only when nothing is in the hands of the one thread.
LEMMA InOrderStep ==
  ASSUME Calm, NEW h \in Node, NEW n \in Node \ {h}, NEW k \in Replicated',
         NEW i \in Nat, InOrder(n, k, h, i), Spread(n, k, h, i)
  PROVE  InOrder(n, k, h, i)'
<1>1. queue \in Seq(Message) /\ Len(queue) \in Nat
  BY DEF Calm, TypeOK
<1>2. ASSUME NEW t \in Thread, Send(t) PROVE InOrder(n, k, h, i)'
  <2>1. PICK m \in outbox[t] : queue' = Append(queue, m)
    BY <1>2 DEF Send
  <2>2. m \in Message /\ m \in InTransit
    BY <2>1 DEF Calm, TypeOK, InTransit
  <2>3. /\ Len(queue') = Len(queue) + 1 /\ queue'[Len(queue')] = m
        /\ \A p \in 1..Len(queue) : queue'[p] = queue[p]
    BY <1>1, <2>1, <2>2
  <2>4. inHand' = inHand
    BY <1>2 DEF Send
  <2>5. \A d \in Deliverer : ~Pop(d)
    BY <1>1, <2>3 DEF Pop
  <2>6. ASSUME NEW p \in 1..Len(queue'),
               queue'[p].to = n, i <= queue'[p].reg.clock[h]
        PROVE  Comes(p, n, k, h, i)'
    <3>1. CASE p \in 1..Len(queue)
      <4>1. Comes(p, n, k, h, i) /\ p \in 0..Len(queue)
        BY <2>3, <2>6, <3>1 DEF InOrder
      <4> QED BY <2>5, <4>1, ComesStays
    <3>2. CASE p = Len(queue') /\ m.key = k
      <4>1. Carries(queue'[p], n, k, h, i) /\ p \in 1..p
        BY <1>1, <2>3, <2>6, <3>2 DEF Carries
      <4> QED BY <4>1 DEF Comes, Carries
    <3>3. CASE p = Len(queue') /\ m.key # k
      <4>1. m.key \in Key \ {k} /\ m.reg \in Registers(m.key)
        BY <2>2, <3>3, RegistersAre DEF Message
      <4>2. Sent(n, k, h, i)
        BY <2>3, <2>6, <3>3, <4>1 DEF Spread
      <4>3. Sent(n, k, h, i)'
        BY <4>2, SentStays
      <4> QED BY <3>3, <4>3 DEF Sent
    <3> QED BY <1>1, <2>3, <3>1, <3>2, <3>3
  <2>7. ASSUME NEW d \in Deliverer, inHand[d] # NoMsg, inHand[d].to = n,
               i <= inHand[d].reg.clock[h]
        PROVE  Has(n, k, h, i)' \/ inHand[d].key = k
    BY <2>7, HasStays DEF InOrder
  <2> QED BY <2>4, <2>6, <2>7 DEF InOrder
<1>3. ASSUME NEW d \in Deliverer, Pop(d) PROVE InOrder(n, k, h, i)'
  <2>1. /\ queue # <<>> /\ queue' = Tail(queue)
        /\ inHand' = [inHand EXCEPT ![d] = Head(queue)]
        /\ inHand[d] = NoMsg
    BY <1>3 DEF Pop
  <2>2. /\ Head(queue) = queue[1] /\ Len(queue') = Len(queue) - 1
        /\ \A p \in 1..(Len(queue) - 1) : queue'[p] = queue[p + 1]
        /\ 1 \in 1..Len(queue)
    BY <1>1, <2>1
  <2>3. \A e \in Deliverer : e = d
    BY DEF Calm, TwoInOrder
  <2>4. ASSUME NEW p \in 1..Len(queue'),
               queue'[p].to = n, i <= queue'[p].reg.clock[h]
        PROVE  Comes(p, n, k, h, i)'
    <3>1. p + 1 \in 1..Len(queue) /\ p + 1 \in 0..Len(queue) /\ (p + 1) - 1 = p
      BY <1>1, <2>2
    <3>2. Comes(p + 1, n, k, h, i)
      BY <2>2, <2>4, <3>1 DEF InOrder
    <3>3. Comes((p + 1) - 1, n, k, h, i)'
      BY <1>3, <3>1, <3>2, ComesStays
    <3> QED BY <3>1, <3>3
  <2>5. ASSUME queue[1].to = n, i <= queue[1].reg.clock[h]
        PROVE  Has(n, k, h, i)' \/ queue[1].key = k
    <3>1. Comes(1, n, k, h, i)
      BY <2>2, <2>5 DEF InOrder
    <3>2. ~InHands(n, k, h, i)
      BY <2>1, <2>3 DEF InHands
    <3>3. \A q \in 1..1 : q = 1
      OBVIOUS
    <3>4. Has(n, k, h, i) \/ queue[1].key = k
      BY <3>1, <3>2, <3>3 DEF Comes, Carries
    <3> QED BY <3>4, HasStays
  <2>6. \A e \in Deliverer : inHand'[e] = queue[1]
    BY <2>1, <2>2, <2>3 DEF Calm, TypeOK
  <2> QED BY <2>4, <2>5, <2>6 DEF InOrder
<1>4. ASSUME NEW d \in Deliverer, Deliver(d) PROVE InOrder(n, k, h, i)'
  <2>1. queue' = queue /\ \A e \in Deliverer : inHand'[e] = inHand[e] \/ inHand'[e] = NoMsg
    BY <1>4 DEF Deliver, Calm, TypeOK
  <2>2. \A e \in Deliverer : ~Pop(e)
    BY <1>1, <2>1 DEF Pop
  <2>3. ASSUME NEW p \in 1..Len(queue), queue[p].to = n, i <= queue[p].reg.clock[h]
        PROVE  Comes(p, n, k, h, i)'
    <3>1. Comes(p, n, k, h, i) /\ p \in 0..Len(queue)
      BY <2>3 DEF InOrder
    <3> QED BY <2>2, <3>1, ComesStays
  <2>4. ASSUME NEW e \in Deliverer, inHand[e] # NoMsg, inHand[e].to = n,
               i <= inHand[e].reg.clock[h]
        PROVE  Has(n, k, h, i)' \/ inHand[e].key = k
    BY <2>4, HasStays DEF InOrder
  <2> QED BY <2>1, <2>3, <2>4 DEF InOrder
<1>5. CASE UNCHANGED <<queue, inHand>>
  <2>1. \A e \in Deliverer : ~Pop(e)
    <3> SUFFICES ASSUME NEW e \in Deliverer, Pop(e) PROVE FALSE
      OBVIOUS
    <3>1. queue # <<>> /\ queue' = Tail(queue)
      BY DEF Pop
    <3>2. Len(queue') = Len(queue) - 1
      BY <1>1, <3>1
    <3> QED BY <1>1, <1>5, <3>2
  <2>2. ASSUME NEW p \in 1..Len(queue), queue[p].to = n, i <= queue[p].reg.clock[h]
        PROVE  Comes(p, n, k, h, i)'
    <3>1. Comes(p, n, k, h, i) /\ p \in 0..Len(queue)
      BY <2>2 DEF InOrder
    <3> QED BY <2>1, <3>1, ComesStays
  <2>3. ASSUME NEW e \in Deliverer, inHand[e] # NoMsg, inHand[e].to = n,
               i <= inHand[e].reg.clock[h]
        PROVE  Has(n, k, h, i)' \/ inHand[e].key = k
    BY <2>3, HasStays DEF InOrder
  <2> QED BY <1>5, <2>2, <2>3 DEF InOrder
<1>6. [Next]_vars
  BY DEF Calm
<1> QED BY <1>2, <1>3, <1>4, <1>5, <1>6, BusSteps

\* Only puts count, and the clocks of the engines change by puts and
\* deliveries.
LEMMA ClockSteps ==
  ASSUME [Next]_vars, restarted = {}, restarted' = {}
  PROVE  \/ \E t \in Client, k \in Key, v \in Written : Put(t, k, v)
         \/ issued' = issued /\ localClock' = localClock
         \/ issued' = issued /\ \E d \in Deliverer : Deliver(d)
<1>1. ASSUME NEW t \in Thread,
             \/ FetchForPush(t)
             \/ \E target \in Node : TriggerAntiEntropy(t, target)
             \/ ScanNext(t)
             \/ ScanList(t)
             \/ Send(t)
      PROVE  issued' = issued /\ localClock' = localClock
  BY <1>1 DEF FetchForPush, TriggerAntiEntropy, ScanNext, ScanList, Send, historyVars,
              engineVars
<1>2. ASSUME NEW d \in Deliverer, Pop(d)
      PROVE  issued' = issued /\ localClock' = localClock
  BY <1>2 DEF Pop, historyVars, engineVars
<1>3. ASSUME NEW d \in Deliverer, Deliver(d) PROVE issued' = issued
  BY <1>3 DEF Deliver
<1>4. ASSUME NEW n \in Node,
             Swap(n) \/ EndPut(n) \/ \E cut \in BOOLEAN : Partition(n, cut)
      PROVE  issued' = issued /\ localClock' = localClock
  BY <1>4 DEF Swap, EndPut, Partition, historyVars, engineVars
<1>5. ASSUME NEW n \in Node, Restart(n) PROVE FALSE
  BY <1>5 DEF Restart
<1>6. CASE UNCHANGED vars
  BY <1>6 DEF vars, historyVars, engineVars
<1>7. CASE Next
  BY <1>1, <1>2, <1>3, <1>4, <1>5, <1>7 DEF Next, Thread
<1> QED BY <1>6, <1>7

\* What a node knows of the other came in order.
LEMMA LearntStep ==
  ASSUME Calm, NEW h \in Node, NEW n \in Node, NEW k \in Replicated', NEW i \in Nat,
         Has(h, k, h, i), Learnt(n, k, h, i), n # h => InOrder(n, k, h, i)
  PROVE  Learnt(n, k, h, i)'
<1> SUFFICES ASSUME n # h, i <= localClock'[n][h]
             PROVE  Has(n, k, h, i)'
  BY HasStays DEF Learnt
<1>1. CASE i <= localClock[n][h]
  BY <1>1, HasStays DEF Learnt
<1>2. localClock \in [Node -> Clock]
  BY DEF Calm, TypeOK
<1>3. ASSUME NEW g \in Node, NEW j \in Key, NEW v \in Value, PutStep(g, j, v)
      PROVE  i <= localClock[n][h]
  <2>1. localClock' = [localClock EXCEPT ![g] = Increment(localClock[g], g)]
    BY <1>3 DEF PutStep, EnginePut
  <2>2. localClock'[n][h] = localClock[n][h]
    BY <1>2, <2>1 DEF Increment, Clock
  <2> QED BY <2>2
<1>4. ASSUME NEW d \in Deliverer, Deliver(d), i > localClock[n][h]
      PROVE  Has(n, k, h, i)'
  <2> DEFINE y == inHand[d]
  <2>1. y \in Message /\ y # NoMsg /\ y.to \in Node /\ y.reg \in Register
    BY <1>4 DEF Calm, TypeOK, Deliver, Message
  <2>2. localClock' = localClock
          \/ localClock' = [localClock EXCEPT ![y.to] = MergeClock(@, y.reg.clock)]
    BY <1>4 DEF Deliver, EnginePutCrdt, engineVars
  <2>3. localClock[n][h] \in Nat
    BY <1>2 DEF Clock
  <2>4. y.to = n /\ localClock'[n] = MergeClock(localClock[n], y.reg.clock)
    BY <1>2, <1>4, <2>1, <2>2, <2>3
  <2>5. i <= y.reg.clock[h]
    BY <1>4, <2>3, <2>4 DEF MergeClock, Larger
  <2>6. Has(n, k, h, i) \/ y.key = k
    BY <2>1, <2>4, <2>5 DEF InOrder
  <2>7. CASE Has(n, k, h, i)
    BY <2>7, HasStays
  <2>8. CASE y.key = k
    <3>1. Carries(y, n, k, h, i)
      BY <2>4, <2>5, <2>8 DEF Carries
    <3> QED BY <1>4, <3>1, CarrierArrives
  <2> QED BY <2>6, <2>7, <2>8
<1>5. CASE i > localClock[n][h]
  <2>1. localClock' # localClock
    BY <1>2, <1>5 DEF Clock
  <2>2. ASSUME NEW t \in Client, NEW j \in Key, NEW v \in Written, Put(t, j, v)
        PROVE  FALSE
    <3>1. Home[t] \in Node /\ v \in Value
      BY ReplicationAssumption DEF ReplicationAssumption, Thread
    <3>2. PutStep(Home[t], j, v)
      BY <2>2 DEF Put, PutStep
    <3>3. i <= localClock[n][h]
      BY <1>3, <3>1, <3>2
    <3> QED BY <1>2, <1>5, <3>3 DEF Clock
  <2>3. \E d \in Deliverer : Deliver(d)
    BY <2>1, <2>2, ClockSteps DEF Calm
  <2> QED BY <1>4, <1>5, <2>3
<1>6. i \in Nat /\ localClock[n][h] \in Nat
  BY <1>2 DEF Clock
<1> QED BY <1>1, <1>5, <1>6

\* A register that knows of the put is one that did, what the thread of the
\* put writes after it has sent it, what the other node writes when it has
\* it, or is made of registers that knew of it.
LEMMA SpreadStep ==
  ASSUME Calm, NEW h \in Node, NEW n \in Node \ {h}, NEW k \in Replicated',
         NEW i \in Nat, Learnt(n, k, h, i), Spread(n, k, h, i), Pushed(n, k, h, i)
  PROVE  Spread(n, k, h, i)'
<1> SUFFICES ASSUME NEW j \in Key \ {k}, NEW r \in Registers(j)',
                    i <= r.clock[h]
             PROVE  Sent(n, k, h, i)'
  BY DEF Spread
<1> SUFFICES Sent(n, k, h, i)
  BY SentStays
<1>1. CASE Generated(r, j)
  <2> DEFINE S == {e \in Register : i <= e.clock[h] => Sent(n, k, h, i)}
  <2>1. Registers(j) \subseteq S
    BY RegistersType DEF Calm, Spread
  <2>2. \A a, b \in S : Merge(a, b) \in S
    <3> SUFFICES ASSUME NEW a \in S, NEW b \in S PROVE Merge(a, b) \in S
      OBVIOUS
    <3>1. Merge(a, b) \in Register
      BY MergeType
    <3>2. Merge(a, b).clock = MergeClock(a.clock, b.clock)
      BY MergeJoinsClocks
    <3>3. \/ Merge(a, b).clock[h] = a.clock[h]
          \/ Merge(a, b).clock[h] = b.clock[h]
      BY <3>2 DEF MergeClock, Larger
    <3> QED BY <3>1, <3>3
  <2>3. S \in SUBSET Register
    OBVIOUS
  <2> HIDE DEF S
  <2>4. r \in S
    BY <1>1, <2>1, <2>2, <2>3 DEF Generated
  <2> QED BY <2>4 DEF S
<1>2. ASSUME NEW t \in Client, NEW v \in Written, WriteStep(t, j, v),
             r = [value |-> v, clock |-> Increment(localClock[Home[t]], Home[t])]
      PROVE  Sent(n, k, h, i)
  <2>1. Home[t] \in Node /\ localClock[Home[t]] \in Clock
    BY ReplicationAssumption DEF ReplicationAssumption, Thread, Calm, TypeOK
  <2>2. r.clock = Increment(localClock[Home[t]], Home[t])
    BY <1>2
  <2>3. CASE Home[t] = h
    <3>1. \A u \in Client : Home[u] = h => u = t
      BY <2>3 DEF Calm, TwoInOrder
    <3>2. fetching[t] = NoKey /\ outbox[t] = {}
      BY <1>2 DEF WriteStep
    <3>3. k # NoKey
      BY ReplicationAssumption DEF ReplicationAssumption, Replicated
    <3> QED BY <3>1, <3>2, <3>3 DEF Pushed
  <2>4. CASE Home[t] # h
    <3>1. Home[t] = n
      BY <2>1, <2>4 DEF Calm, TwoInOrder
    <3>2. r.clock[h] = localClock[n][h]
      BY <2>1, <2>2, <2>4, <3>1 DEF Increment, Clock
    <3>3. Has(n, k, h, i)
      BY <3>2 DEF Learnt
    <3> QED BY <3>3 DEF Sent, Comes
  <2> QED BY <2>3, <2>4
<1> QED BY <1>1, <1>2, RegisterSteps DEF Calm

\* The thread of the put goes on to send it.
LEMMA PushedStep ==
  ASSUME Calm, NEW h \in Node, NEW n \in Node \ {h}, NEW k \in Replicated',
         NEW i \in Nat \ {0}, Has(h, k, h, i), Pushed(n, k, h, i)
  PROVE  Pushed(n, k, h, i)'
<1>1. CASE Sent(n, k, h, i)
  BY <1>1, SentStays DEF Pushed
<1>2. TypeOK /\ Private /\ k \in Key \ deleted /\ k # NoKey
  BY ReplicatedShrinks, ReplicationAssumption
     DEF Calm, ReplicationAssumption, Replicated
<1>3. ASSUME NEW t \in Client, Home[t] = h, fetching[t] = k
      PROVE  Pushed(n, k, h, i)'
  <2>1. CASE fetching'[t] = k
    BY <1>3, <2>1 DEF Pushed
  <2>2. CASE fetching'[t] # k
    <3>2. FetchForPush(t)
      <4>1. ASSUME NEW u \in Client, NEW j \in Key, NEW v \in Written, Put(u, j, v)
            PROVE  FALSE
        BY <1>2, <1>3, <2>2, <4>1 DEF Put, Idle, TypeOK, Thread
      <4>2. ASSUME NEW u \in Thread,
                   \/ \E target \in Node : TriggerAntiEntropy(u, target)
                   \/ ScanNext(u)
                   \/ ScanList(u)
                   \/ Send(u)
            PROVE  FALSE
        BY <1>3, <2>2, <4>2 DEF TriggerAntiEntropy, ScanNext, ScanList, Send
      <4>3. ASSUME NEW d \in Deliverer, Pop(d) \/ Deliver(d) PROVE FALSE
        BY <1>3, <2>2, <4>3 DEF Pop, Deliver, threadVars
      <4>4. ASSUME NEW g \in Node,
                   Swap(g) \/ EndPut(g) \/ \E cut \in BOOLEAN : Partition(g, cut)
            PROVE  FALSE
        BY <1>3, <2>2, <4>4 DEF Swap, EndPut, Partition, threadVars
      <4>5. ASSUME NEW g \in Node, Restart(g) PROVE FALSE
        BY <4>5 DEF Restart, Calm
      <4>6. ~(UNCHANGED vars)
        BY <1>3, <2>2 DEF vars, threadVars
      <4>7. ASSUME NEW u \in Client, FetchForPush(u) PROVE u = t
        BY <1>2, <1>3, <2>2, <4>7 DEF FetchForPush, TypeOK
      <4>8. Next
        BY <4>6 DEF Calm
      <4> QED BY <4>1, <4>2, <4>3, <4>4, <4>5, <4>7, <4>8 DEF Next, Thread
    <3>3. store[h][k].value # Empty
      <4>1. ZeroClock[h] = 0
        BY DEF ZeroClock
      <4>2. store[h][k].clock # ZeroClock
        BY <4>1 DEF Has
      <4> QED BY <1>2, <4>2 DEF Calm, NotBlank
    <3> DEFINE y == [to |-> n, key |-> k, reg |-> store[h][k]]
    <3>4. y \in [to : Peers[h], key : {k}, reg : {store[h][k]}]
      BY DEF Calm, FullMesh
    <3>5. outbox'[t] = [to : Peers[h], key : {k}, reg : {store[h][k]}]
      <4>1. PICK reg \in Reads(h, k) :
              /\ outbox' = [outbox EXCEPT ![t] =
                              IF reg.value = Empty THEN {}
                              ELSE [to : Peers[h], key : {k}, reg : {reg}]]
              /\ dropped' = IF reg = store[h][k] THEN dropped ELSE dropped \cup {k}
        BY <1>3, <3>2 DEF FetchForPush
      <4>2. reg = store[h][k]
        BY <4>1 DEF Replicated
      <4>3. outbox \in [Thread -> SUBSET Message] /\ t \in Thread
        BY <1>2 DEF TypeOK, Thread
      <4> QED BY <3>3, <4>1, <4>2, <4>3
    <3>6. Carries(y, n, k, h, i)
      BY DEF Carries, Has
    <3>7. \E z \in outbox'[t] : Carries(z, n, k, h, i)
      BY <3>4, <3>5, <3>6
    <3> QED BY <1>3, <3>7 DEF Pushed, Carries
  <2> QED BY <2>1, <2>2
<1>4. ASSUME NEW t \in Client, Home[t] = h,
             NEW y \in outbox[t], Carries(y, n, k, h, i)
      PROVE  Pushed(n, k, h, i)'
  <2>1. CASE y \in outbox'[t]
    BY <1>4, <2>1 DEF Pushed, Carries
  <2>2. CASE y \notin outbox'[t]
    <3>1. ASSUME NEW u \in Thread, Send(u) PROVE Sent(n, k, h, i)'
      <4>1. PICK m \in outbox[u] : /\ queue' = Append(queue, m)
                                   /\ outbox' = [outbox EXCEPT ![u] = @ \ {m}]
        BY <3>1 DEF Send
      <4>2. m = y /\ m \in Message
        BY <1>2, <1>4, <2>2, <4>1 DEF TypeOK, Thread
      <4>3. queue'[Len(queue')] = y /\ Len(queue') \in 1..Len(queue')
        BY <1>2, <4>1, <4>2 DEF TypeOK
      <4> QED BY <1>4, <4>3 DEF Sent, Comes, Carries
    <3>2. ASSUME NEW u \in Client, NEW j \in Key, NEW v \in Written, Put(u, j, v)
          PROVE  FALSE
      BY <1>4, <2>2, <3>2 DEF Put
    <3>3. ASSUME NEW u \in Client, FetchForPush(u) PROVE FALSE
      <4>1. u # t
        BY <1>2, <1>4, <3>3 DEF FetchForPush, Private, Thread
      <4> QED BY <1>2, <1>4, <2>2, <3>3, <4>1 DEF FetchForPush, TypeOK, Thread
    <3>4. ASSUME NEW u \in Gossiper, ScanList(u) PROVE FALSE
      <4>1. PICK new \in SUBSET Message : outbox' = [outbox EXCEPT ![u] = new]
        BY <1>2, <3>4, ScanListIs
      <4>2. t \in Thread /\ u \in Thread
        BY DEF Thread
      <4>3. u # t
        BY <1>2, <1>4, <3>4, <4>2 DEF ScanList, Private
      <4>4. outbox'[t] = outbox[t]
        BY <1>2, <4>1, <4>2, <4>3 DEF TypeOK
      <4> QED BY <1>4, <2>2, <4>4
    <3>5. ASSUME NEW d \in Deliverer, Pop(d) \/ Deliver(d) PROVE FALSE
      BY <1>4, <2>2, <3>5 DEF Pop, Deliver, threadVars
    <3>6. ASSUME NEW g \in Node,
                 Swap(g) \/ EndPut(g) \/ \E cut \in BOOLEAN : Partition(g, cut)
          PROVE  FALSE
      BY <1>4, <2>2, <3>6 DEF Swap, EndPut, Partition, threadVars
    <3>7. ASSUME NEW g \in Node, Restart(g) PROVE FALSE
      BY <3>7 DEF Restart, Calm
    <3>8. ~(UNCHANGED vars)
      BY <1>4, <2>2 DEF vars, threadVars
    <3>9. Next
      BY <3>8 DEF Calm
    <3>10. ASSUME NEW u \in Gossiper,
                  ScanNext(u) \/ \E target \in Node : TriggerAntiEntropy(u, target)
           PROVE  FALSE
      BY <1>4, <2>2, <3>10 DEF ScanNext, TriggerAntiEntropy
    <3> QED BY <3>1, <3>2, <3>3, <3>4, <3>5, <3>6, <3>7, <3>9, <3>10 DEF Next, Pushed
  <2> QED BY <2>1, <2>2
<1> QED BY <1>1, <1>3, <1>4 DEF Pushed

LEMMA TracedStep ==
  ASSUME Calm, NEW h \in Node, NEW k \in Replicated', NEW i \in Nat \ {0},
         Traced(h, i, k)
  PROVE  Traced(h, i, k)'
<1>1. Has(h, k, h, i)'
  BY HasStays DEF Traced
<1>2. \A n \in Node : Learnt(n, k, h, i)'
  BY LearntStep DEF Traced
<1>3. \A n \in Node \ {h} : /\ InOrder(n, k, h, i)'
                            /\ Spread(n, k, h, i)'
                            /\ Pushed(n, k, h, i)'
  BY InOrderStep, SpreadStep, PushedStep DEF Traced
<1> QED BY <1>1, <1>2, <1>3 DEF Traced

\* Nobody else knows of a put that is made in this step.
LEMMA TracedPut ==
  ASSUME Calm, OwnCounterLeads, Counted,
         NEW t \in Client, NEW k \in Key, NEW v \in Written, Put(t, k, v),
         NEW i \in Nat, i = Len(issued[Home[t]]) + 1
  PROVE  Traced(Home[t], i, k)'
<1> DEFINE h == Home[t]
<1>1. h \in Node /\ v \in Value /\ t \in Thread
  BY ReplicationAssumption DEF ReplicationAssumption, Thread
<1>2. TypeOK /\ localClock[h] \in Clock /\ localClock[h][h] = Len(issued[h])
  BY <1>1 DEF Calm, TypeOK, Counted
<1>3. /\ localClock' = [localClock EXCEPT ![h] = Increment(localClock[h], h)]
      /\ store' = [store EXCEPT ![h][k] =
                     [value |-> v, clock |-> Increment(localClock[h], h)]]
      /\ UNCHANGED <<queue, inHand, outbox>>
      /\ fetching'[t] = k
  BY <1>1, <1>2 DEF Put, EnginePut, busVars, TypeOK
<1>4. Increment(localClock[h], h)[h] = i
  BY <1>1, <1>2 DEF Increment, Clock
<1>5. store'[h][k].clock = Increment(localClock[h], h)
  BY <1>1, <1>2, <1>3 DEF TypeOK
<1>6. Has(h, k, h, i)'
  BY <1>4, <1>5 DEF Has
<1>7. \A c \in KnownClocks : c \in Clock /\ ~(i <= c[h])
  <2> TAKE c \in KnownClocks
  <2>1. c \in Clock /\ c[h] <= localClock[h][h]
    BY <1>1, <1>2, KnownClocksType DEF Calm, OwnCounterLeads
  <2>2. c[h] \in Nat /\ localClock[h][h] \in Nat
    BY <1>1, <1>2, <2>1 DEF Clock
  <2> QED BY <1>2, <2>1, <2>2
<1>8. \A n \in Node : Learnt(n, k, h, i)'
  <2> TAKE n \in Node
  <2>1. CASE n = h
    BY <1>6, <2>1 DEF Learnt
  <2>2. CASE n # h
    <3>1. localClock'[n] = localClock[n] /\ localClock[n] \in KnownClocks
      BY <1>1, <1>2, <1>3, <2>2 DEF TypeOK, KnownClocks
    <3> QED BY <1>7, <3>1 DEF Learnt
  <2> QED BY <2>1, <2>2
<1>9. \A n \in Node \ {h} : InOrder(n, k, h, i)'
  <2>1. \A p \in 1..Len(queue) : queue[p].reg.clock \in KnownClocks
    BY DEF KnownClocks
  <2>2. \A d \in Deliverer : inHand[d] # NoMsg => inHand[d].reg.clock \in KnownClocks
    BY DEF KnownClocks
  <2> QED BY <1>3, <1>7, <2>1, <2>2 DEF InOrder
<1>10. \A n \in Node \ {h} : Spread(n, k, h, i)'
  <2>1. ASSUME NEW j \in Key \ {k}, NEW r \in Registers(j)' PROVE ~(i <= r.clock[h])
    <3>1. InTransit' = InTransit
      BY <1>3 DEF InTransit
    <3>2. \A n \in Node : store'[n][j] = store[n][j]
      BY <1>1, <1>2, <1>3, <2>1 DEF TypeOK
    <3>3. \A n \in Node : \A reg \in Findable(n, j) : reg.clock \in KnownClocks \cup {ZeroClock}
      <4>1. \A reg \in OldVersions(j) : reg.clock \in KnownClocks
        BY DEF KnownClocks
      <4> QED BY <4>1, FindableOld DEF Absent
    <3>4. /\ \A n \in Node : store[n][j].clock \in KnownClocks
          /\ \A y \in InTransit : y.reg.clock \in KnownClocks
      BY DEF KnownClocks, InTransit
    <3>5. ASSUME NEW n \in Node, r \in Findable(n, j)'
          PROVE  r.clock \in KnownClocks \cup {ZeroClock}
      BY <1>2, <3>3, <3>4, <3>5, FindableSteps DEF Calm
    <3>6. r.clock \in KnownClocks \cup {ZeroClock}
      BY <3>1, <3>2, <3>4, <3>5, RegistersAre
    <3>7. ~(i <= ZeroClock[h])
      BY <1>1, <1>2, <1>4 DEF ZeroClock, Increment, Clock
    <3> QED BY <1>7, <3>6, <3>7
  <2> QED BY <2>1 DEF Spread
<1>11. \A n \in Node \ {h} : Pushed(n, k, h, i)'
  BY <1>3 DEF Pushed
<1> QED BY <1>6, <1>8, <1>9, <1>10, <1>11 DEF Traced

LEMMA CausalStep ==
  FullMesh /\ TwoInOrder /\ TypeOK /\ Private /\ AgreeInv /\ OwnCounterLeads
    /\ CausalInv /\ [Next]_vars => CausalInv'
<1> SUFFICES ASSUME FullMesh, TwoInOrder, TypeOK, Private, AgreeInv, OwnCounterLeads,
                    CausalInv, [Next]_vars, restarted' = {}
             PROVE  Counted' /\ AllTraced'
  BY DEF CausalInv
<1>1. restarted = {}
  <2>1. restarted \subseteq restarted'
    BY EngineSteps DEF PutStep, DeliverStep, RestartStep
  <2> QED BY <2>1
<1>2. Calm /\ Counted /\ AllTraced
  BY <1>1 DEF Calm, AgreeInv, CausalInv
<1>3. TypeOK' /\ OwnCounterLeads'
  BY TypeStep, OwnCounterStep
<1>4. /\ issued \in [Node -> Seq(Key)] /\ localClock \in [Node -> Clock]
      /\ \A n \in Node : Len(issued[n]) \in Nat
  BY DEF TypeOK
<1>5. \A t \in Client : Home[t] \in Node /\ t \in Thread
  BY ReplicationAssumption DEF ReplicationAssumption, Thread
<1>6. Counted'
  <2> SUFFICES ASSUME NEW h \in Node PROVE localClock'[h][h] = Len(issued'[h])
    BY DEF Counted
  <2>1. ASSUME NEW t \in Client, NEW k \in Key, NEW v \in Written, Put(t, k, v)
        PROVE  localClock'[h][h] = Len(issued'[h])
    <3>1. /\ localClock' = [localClock EXCEPT ![Home[t]] =
                              Increment(localClock[Home[t]], Home[t])]
          /\ issued' = [issued EXCEPT ![Home[t]] = Append(@, k)]
      BY <2>1 DEF Put, EnginePut
    <3>2. CASE h = Home[t]
      <4>1. localClock'[h] = Increment(localClock[h], h) /\ issued'[h] = Append(issued[h], k)
        BY <1>4, <3>1, <3>2
      <4>2. localClock'[h][h] = localClock[h][h] + 1
        BY <1>4, <4>1 DEF Increment, Clock
      <4>3. Len(issued'[h]) = Len(issued[h]) + 1
        BY <1>4, <4>1
      <4> QED BY <1>2, <4>2, <4>3 DEF Counted
    <3>3. CASE h # Home[t]
      BY <1>2, <1>4, <1>5, <3>1, <3>3 DEF Counted
    <3> QED BY <3>2, <3>3
  <2>2. ASSUME NEW d \in Deliverer, Deliver(d), issued' = issued
        PROVE  localClock'[h][h] = Len(issued'[h])
    <3> DEFINE y == inHand[d]
    <3>1. y \in Message /\ y # NoMsg /\ y.to \in Node
      BY <2>2 DEF Calm, TypeOK, Deliver, Message
    <3>2. y.reg.clock \in KnownClocks
      BY <3>1 DEF KnownClocks
    <3>3. localClock' = localClock
            \/ localClock' = [localClock EXCEPT ![y.to] = MergeClock(@, y.reg.clock)]
      BY <2>2 DEF Deliver, EnginePutCrdt, engineVars
    <3>4. y.reg.clock[h] <= localClock[h][h] /\ y.reg.clock \in Clock
      BY <1>1, <3>2, KnownClocksType DEF OwnCounterLeads
    <3>5. y.reg.clock[h] \in Nat /\ localClock[h][h] \in Nat
      BY <1>4, <3>4 DEF Clock
    <3>6. MergeClock(localClock[h], y.reg.clock)[h] = localClock[h][h]
      BY <3>4, <3>5 DEF MergeClock, Larger
    <3>7. localClock'[h] = localClock[h]
            \/ localClock'[h] = MergeClock(localClock[h], y.reg.clock)
      BY <1>4, <3>1, <3>3
    <3>8. localClock'[h][h] = localClock[h][h]
      BY <3>6, <3>7
    <3> QED BY <1>2, <2>2, <3>8 DEF Counted
  <2>3. CASE issued' = issued /\ localClock' = localClock
    BY <1>2, <2>3 DEF Counted
  <2> QED BY <1>1, <2>1, <2>2, <2>3, ClockSteps
<1>7. AllTraced'
  <2> SUFFICES ASSUME NEW h \in Node, NEW i \in 1..Len(issued'[h]),
                      NEW k \in Replicated', issued'[h][i] = k
               PROVE  Traced(h, i, k)'
    BY DEF AllTraced
  <2>1. i \in Nat \ {0}
    BY <1>3 DEF TypeOK
  <2>2. k \in Key
    BY DEF Replicated
  <2>4. CASE i \in 1..Len(issued[h]) /\ issued'[h][i] = issued[h][i]
    <3>1. k \in Replicated
      BY <1>2, ReplicatedShrinks DEF Calm
    <3>2. Traced(h, i, k)
      BY <1>2, <2>4, <3>1 DEF AllTraced
    <3> QED BY <1>2, <2>1, <3>2, TracedStep
  <2>5. ASSUME NEW t \in Client, NEW j \in Key, NEW v \in Written, Put(t, j, v)
        PROVE  \/ i \in 1..Len(issued[h]) /\ issued'[h][i] = issued[h][i]
               \/ h = Home[t] /\ i = Len(issued[h]) + 1 /\ k = j
    <3>1. issued' = [issued EXCEPT ![Home[t]] = Append(@, j)]
      BY <2>5 DEF Put
    <3>2. CASE h = Home[t]
      <4>1. issued'[h] = Append(issued[h], j) /\ issued[h] \in Seq(Key)
        BY <1>4, <3>1, <3>2
      <4>2. Len(issued'[h]) = Len(issued[h]) + 1
        BY <4>1
      <4>3. CASE i \in 1..Len(issued[h])
        BY <4>1, <4>3
      <4>4. CASE i = Len(issued[h]) + 1
        BY <3>2, <4>1, <4>4
      <4> QED BY <1>4, <4>2, <4>3, <4>4
    <3>3. CASE h # Home[t]
      <4>1. issued'[h] = issued[h]
        BY <1>4, <3>1, <3>3
      <4> QED BY <4>1
    <3> QED BY <3>2, <3>3
  <2>6. ASSUME NEW t \in Client, NEW v \in Written, Put(t, k, v),
               h = Home[t], i = Len(issued[h]) + 1
        PROVE  Traced(h, i, k)'
    <3>1. Traced(Home[t], i, k)'
      BY <1>2, <2>1, <2>2, <2>6, TracedPut
    <3> QED BY <2>6, <3>1
  <2>7. CASE issued' = issued
    BY <2>4, <2>7
  <2>8. CASE \E t \in Client, j \in Key, v \in Written : Put(t, j, v)
    BY <2>4, <2>5, <2>6, <2>8
  <2> QED BY <1>1, <2>7, <2>8, ClockSteps
<1> QED BY <1>6, <1>7

LEMMA CausalInit == Init => CausalInv
<1> SUFFICES ASSUME Init PROVE Counted /\ AllTraced
  BY DEF CausalInv
<1>1. \A h \in Node : Len(issued[h]) = 0 /\ localClock[h][h] = 0
  BY DEF Init, ZeroClock
<1> QED BY <1>1 DEF Counted, AllTraced

LEMMA CausalImplies == TypeOK /\ AgreeInv /\ CausalInv => CausalDelivery
<1> SUFFICES ASSUME TypeOK, AgreeInv, CausalInv, restarted = {},
                    NEW n \in Node, NEW m \in Node, NEW i \in DOMAIN issued[m],
                    NEW k \in Replicated, issued[m][i] = k,
                    NEW j \in Key, store[n][j].clock[m] >= i
             PROVE  store[n][k].clock[m] >= i
  BY DEF CausalDelivery
<1>1. issued[m] \in Seq(Key) /\ i \in 1..Len(issued[m]) /\ i \in Nat
  BY DEF TypeOK
<1>2. Traced(m, i, k)
  BY <1>1 DEF CausalInv, AllTraced
<1>3. Leq(store[n][j].clock, localClock[n])
  BY DEF AgreeInv, LocalClockCovers
<1>4. /\ store[n][j].clock \in Clock /\ localClock[n] \in Clock
      /\ store[n][k].clock \in Clock
  BY DEF TypeOK, Register, Replicated
<1>5. /\ store[n][j].clock[m] \in Nat /\ localClock[n][m] \in Nat
      /\ store[n][k].clock[m] \in Nat
  BY <1>4 DEF Clock
<1>6. i <= localClock[n][m]
  BY <1>1, <1>3, <1>5 DEF Leq
<1>7. Has(n, k, m, i)
  BY <1>2, <1>6 DEF Traced, Learnt
<1> QED BY <1>1, <1>5, <1>7 DEF Has

\* Between two nodes, each called by one client thread, with one thread that
\* pumps the bus, and until one of them restarts, a node that shows a register
\* shows everything it depends on, but for keys that were removed, lost a
\* message or were not read back as they were put: a push is sent before its thread puts again, gossip queues behind
\* it, and the bus keeps the order.
THEOREM CausallyDelivered == FullMesh /\ TwoInOrder => (Spec => []CausalDelivery)
<1> SUFFICES ASSUME FullMesh, TwoInOrder PROVE Spec => []CausalDelivery
  OBVIOUS
<1> DEFINE Inv == /\ TypeOK /\ Private /\ AgreeInv
                  /\ OwnCounterLeads /\ CausalInv
<1>1. Init => Inv
  BY TypeInit, AgreeInit, OwnCounterInit, CausalInit
<1>2. Inv /\ [Next]_vars => Inv'
  BY TypeStep, PrivateStep, AgreeStep, OwnCounterStep, CausalStep
<1>3. Inv => CausalDelivery
  BY CausalImplies
<1> HIDE DEF Inv
<1> QED BY <1>1, <1>2, <1>3, PTL DEF Spec


-----------------------------------------------------------------------------
(* The nodes implement GossipStore. *)

\* The registers under way and those that can be found, as GossipStore has
\* them.
OnWay == {[key |-> m.key, reg |-> m.reg] : m \in InTransit}
Kept == [n \in Node |-> [k \in Key |-> Findable(n, k)]]

\* Its registers are those of the nodes.
LEMMA GossipRegister ==
  /\ Gossip!Absent = Absent /\ Gossip!ZeroClock = ZeroClock /\ Gossip!Empty = Empty
  /\ \A c, n : Gossip!Increment(c, n) = Increment(c, n)
  /\ \A c, d : Gossip!MergeClock(c, d) = MergeClock(c, d)
  /\ \A a, b : Gossip!Merge(a, b) = Merge(a, b)
<1>1. \A x, y : Gossip!Larger(x, y) = Larger(x, y)
  BY DEF Gossip!Larger, Larger
<1>2. \A c, d : Gossip!MergeClock(c, d) = MergeClock(c, d)
  BY <1>1, Zenon DEF Gossip!MergeClock, MergeClock
<1>3. \A c, d : Gossip!Order(c, d) = Order(c, d)
  BY Zenon DEF Gossip!Order, Order
<1>4. \A a, b : Gossip!Merge(a, b) = Merge(a, b)
  BY <1>1, <1>2, <1>3, Zenon DEF Gossip!Merge, Merge
<1> QED
  BY <1>2, <1>4
  DEF Gossip!Absent, Absent, Gossip!ZeroClock, ZeroClock, Gossip!Empty, Empty,
      Gossip!Increment, Increment

LEMMA GossipMerges == \A V : Gossip!Merges(V) = Merges(V)
<1> SUFFICES ASSUME NEW V PROVE Gossip!Merges(V) = Merges(V)
  OBVIOUS
<1>1. Gossip!Cardinality(V) = Cardinality(V)
  BY DEF Gossip!Cardinality, Cardinality
<1> DEFINE C == Cardinality(V)
           A(T) == {Gossip!Merge(a, b) : a, b \in T}
           B(T) == {Merge(a, b) : a, b \in T}
           F(g) == [i \in 0..C |-> IF i = 0 THEN V ELSE g[i - 1] \cup A(g[i - 1])]
           G(g) == [i \in 0..C |-> IF i = 0 THEN V ELSE g[i - 1] \cup B(g[i - 1])]
           f == CHOOSE g : g = F(g)
           h == CHOOSE g : g = G(g)
<1>2. \A g : F(g) = G(g)
  <2>1. \A T : A(T) = B(T)
    BY GossipRegister
  <2> HIDE DEF A, B
  <2> QED BY <2>1
<1>3. Gossip!Merges(V) = {reg \in f[C] : \A v \in V : Leq(v.clock, reg.clock)}
  <2>1. Gossip!Merges(V) = {reg \in f[C] : \A v \in V : Gossip!Leq(v.clock, reg.clock)}
    BY <1>1 DEF Gossip!Merges
  <2>2. \A c, d : Gossip!Leq(c, d) <=> Leq(c, d)
    BY DEF Gossip!Leq, Leq
  <2> QED BY <2>1, <2>2
<1>4. Merges(V) = {reg \in h[C] : \A v \in V : Leq(v.clock, reg.clock)}
  BY DEF Merges
<1> HIDE DEF C, F, G
<1>5. f = h
  BY <1>2
<1> HIDE DEF f, h
<1> QED BY <1>3, <1>4, <1>5

LEMMA GossipInit == Init => Gossip!Init
<1> SUFFICES ASSUME Init PROVE Gossip!Init
  OBVIOUS
<1>1. OnWay = {}
  BY AtFirst DEF OnWay
<1>2. \A n \in Node, k \in Key : Findable(n, k) = {Absent}
  BY FindableIs DEF Init
<1>3. Kept = [n \in Node |-> [k \in Key |-> {Absent}]]
  BY <1>2 DEF Kept
<1> QED BY <1>1, <1>3, GossipRegister DEF Init, Nothing, Gossip!Init, OnWay, Kept

\* What a node can find, it could find or has held last.
LEMMA GossipKeep == TypeOK /\ [Next]_vars => Gossip!Keep
<1> SUFFICES ASSUME TypeOK, [Next]_vars PROVE Gossip!Keep
  OBVIOUS
<1>1. ASSUME NEW n \in Node, NEW k \in Key, NEW reg \in Kept'[n][k]
      PROVE  reg = store'[n][k] \/ reg \in Kept[n][k]
  <2>1. reg \in Findable(n, k)'
    BY <1>1 DEF Kept
  <2>2. reg \in Findable(n, k) \/ reg = store'[n][k]
    BY <2>1, FindableSteps
  <2> QED BY <2>2 DEF Kept
<1> QED BY <1>1 DEF Gossip!Keep, Kept

\* A restart loses messages and makes none.
LEMMA RestartSteps ==
  ASSUME TypeOK, NEW n \in Node, Restart(n)
  PROVE  InTransit' \subseteq InTransit
<1>1. UNCHANGED <<queue, inHand>>
  BY DEF Restart, busVars
<1>2. \A t \in Thread : outbox'[t] \subseteq outbox[t]
  BY DEF Restart
<1> QED BY <1>1, <1>2 DEF InTransit

\* A put of a client is a put of its node.
LEMMA GossipPut ==
  ASSUME TypeOK, NEW t \in Client, NEW k \in Key, NEW v \in Written, Put(t, k, v)
  PROVE  Gossip!Put(Home[t], k, v)
<1> DEFINE n == Home[t]
           c == Increment(localClock[n], n)
<1>1. n \in Node
  BY ReplicationAssumption DEF ReplicationAssumption, Thread
<1>2. n \in Writer[k] /\ InTransit' = InTransit
  BY WriteSteps DEF WriteStep
<1>3. localClock' = [localClock EXCEPT ![n] = c]
  BY DEF Put, EnginePut
<1>4. store' = [store EXCEPT ![n][k] = [value |-> v, clock |-> c]]
  BY DEF Put, EnginePut
<1>5. localClock'[n] = c
  BY <1>1, <1>3 DEF TypeOK
<1>6. OnWay' = OnWay
  BY <1>2 DEF OnWay
<1> QED BY <1>2, <1>3, <1>4, <1>5, <1>6, GossipRegister DEF Gossip!Put, OnWay

\* What a node has made it may publish.
LEMMA GossipPublish ==
  ASSUME UNCHANGED <<store, localClock>>, InTransit \subseteq InTransit',
         NEW n \in Node,
         \A y \in InTransit' : \/ y \in InTransit
                               \/ /\ y.key \in Key /\ y.reg.value # Empty
                                  /\ Made(n, y.key, y.reg)
  PROVE  Gossip!Publish(n)
<1>1. OnWay \subseteq OnWay'
  BY DEF OnWay
<1>2. ASSUME NEW x \in OnWay' \ OnWay
      PROVE  /\ x.reg.value # Empty
             /\ \E V \in SUBSET (Kept[n][x.key] \cup {store[n][x.key]}) :
                  V # {} /\ x.reg \in Merges(V)
  <2>1. PICK y \in InTransit' : x = [key |-> y.key, reg |-> y.reg]
    BY <1>2 DEF OnWay
  <2>2. y \notin InTransit
    BY <1>2, <2>1 DEF OnWay
  <2>3. /\ x.key \in Key /\ x.reg.value # Empty
        /\ Made(n, x.key, x.reg)
    BY <2>1, <2>2
  <2>4. Kept[n][x.key] = Findable(n, x.key)
    BY <2>3 DEF Kept
  <2> QED BY <2>3, <2>4 DEF Made
<1> QED BY <1>1, <1>2, GossipRegister, GossipMerges DEF Gossip!Publish, OnWay, Kept

\* What is read back is published, or nothing is sent.
LEMMA GossipPush ==
  ASSUME TypeOK, Private, NEW t \in Client, FetchForPush(t)
  PROVE  Gossip!Publish(Home[t])
<1>1. Home[t] \in Node
  BY ReplicationAssumption DEF ReplicationAssumption, Thread
<1>2. InTransit \subseteq InTransit'
  BY PushSteps DEF PushStep
<1>3. UNCHANGED <<store, localClock>>
  BY DEF FetchForPush, engineVars
<1> QED BY <1>1, <1>2, <1>3, FetchMessages, GossipPublish

\* What a scan has found is published.
LEMMA GossipScan ==
  ASSUME TypeOK, Private, NEW t \in Gossiper, ScanList(t)
  PROVE  Gossip!Publish(Home[t])
<1>1. Home[t] \in Node
  BY ReplicationAssumption DEF ReplicationAssumption, Thread
<1>2. InTransit \subseteq InTransit'
  BY ScanSteps DEF ScanStep
<1>3. UNCHANGED <<store, localClock>>
  BY DEF ScanList, engineVars
<1> QED BY <1>1, <1>2, <1>3, ScanMessages, GossipPublish

\* What is handed over is received, and what is cut off is lost; a register
\* that is also in another message is still under way.
LEMMA GossipDeliver ==
  ASSUME TypeOK, NEW d \in Deliverer, Deliver(d)
  PROVE  \/ \E n \in Node : \E x \in OnWay : Gossip!Receive(n, x)
         \/ Gossip!Lose
<1>1. PICK m \in Message : m = inHand[d]
  BY DEF TypeOK, Deliver
<1> DEFINE x == [key |-> m.key, reg |-> m.reg]
<1>2. m.to \in Node /\ m.key \in Key /\ m.reg \in Register
  BY DEF Message
<1>3. /\ m \in InTransit
      /\ InTransit' \subseteq InTransit
      /\ InTransit \subseteq InTransit' \cup {m}
  BY <1>1, ArriveSteps DEF ArriveStep
<1>4. x \in OnWay
  BY <1>3 DEF OnWay
<1>5. OnWay' \subseteq OnWay /\ OnWay \subseteq OnWay' \cup {x}
  BY <1>3 DEF OnWay
<1>6. CASE m.to \in partitioned
  <2>1. UNCHANGED <<store, localClock>>
    BY <1>1, <1>6 DEF Deliver, engineVars
  <2> QED BY <1>5, <2>1 DEF Gossip!Lose, OnWay
<1>7. CASE m.to \notin partitioned
  <2>1. EnginePutCrdt(m.to, m.key, m.reg)
    BY <1>1, <1>7 DEF Deliver
  <2>2. x.key = m.key /\ x.reg = m.reg
    OBVIOUS
  <2>3. localClock' = [localClock EXCEPT ![m.to] = MergeClock(@, x.reg.clock)]
    BY <2>1, <2>2 DEF EnginePutCrdt
  <2>4. store' = [store EXCEPT ![m.to][x.key] =
                    IF @.value = Empty THEN x.reg ELSE Merge(x.reg, @)]
    BY <2>1, <2>2 DEF EnginePutCrdt, Resolve
  <2> HIDE DEF x
  <2>5. OnWay' \in {OnWay, OnWay \ {x}}
    BY <1>5
  <2>6. Gossip!Receive(m.to, x)
    BY <2>3, <2>4, <2>5, GossipRegister DEF Gossip!Receive, OnWay
  <2> QED BY <1>2, <1>4, <2>6
<1> QED BY <1>6, <1>7

LEMMA GossipRestart ==
  ASSUME TypeOK, NEW n \in Node, Restart(n)
  PROVE  Gossip!Restart(n)
<1>1. OnWay' \subseteq OnWay
  BY RestartSteps DEF OnWay
<1> QED BY <1>1, GossipRegister DEF Restart, Gossip!Restart, OnWay

\* A step that only moves messages or reads looks like one that loses none.
LEMMA GossipPass ==
  ASSUME PassStep, localClock' = localClock
  PROVE  Gossip!Lose
<1>1. OnWay' = OnWay
  BY DEF PassStep, OnWay
<1> QED BY <1>1 DEF PassStep, Gossip!Lose, OnWay

LEMMA GossipStep == TypeOK /\ Private /\ [Next]_vars => Gossip!Next
<1> SUFFICES ASSUME TypeOK, Private, [Next]_vars PROVE Gossip!Next
  OBVIOUS
<1>0. Gossip!Keep
  BY GossipKeep
<1>1. \A t \in Client \cup Gossiper : Home[t] \in Node
  BY ReplicationAssumption DEF ReplicationAssumption, Thread
<1>2. ASSUME NEW t \in Client, NEW k \in Key, NEW v \in Written, Put(t, k, v)
      PROVE  Gossip!Next
  BY <1>0, <1>1, <1>2, GossipPut DEF Gossip!Next
<1>3. ASSUME NEW t \in Client, FetchForPush(t) PROVE Gossip!Next
  BY <1>0, <1>1, <1>3, GossipPush DEF Gossip!Next
<1>4. ASSUME NEW t \in Gossiper, ScanList(t) PROVE Gossip!Next
  BY <1>0, <1>1, <1>4, GossipScan DEF Gossip!Next
<1>5. ASSUME NEW d \in Deliverer, Deliver(d) PROVE Gossip!Next
  BY <1>0, <1>5, GossipDeliver DEF Gossip!Next, OnWay
<1>6. ASSUME NEW n \in Node, Restart(n) PROVE Gossip!Next
  BY <1>0, <1>6, GossipRestart DEF Gossip!Next
<1>7. ASSUME PassStep, localClock' = localClock PROVE Gossip!Next
  BY <1>0, <1>7, GossipPass DEF Gossip!Next
<1>8. ASSUME NEW t \in Thread, Send(t) PROVE Gossip!Next
  BY <1>7, <1>8, SendSteps DEF Send, engineVars
<1>9. ASSUME NEW d \in Deliverer, Pop(d) PROVE Gossip!Next
  BY <1>7, <1>9, PopSteps DEF Pop, engineVars
<1>10. ASSUME UNCHANGED <<store, localClock, fetching, deleted, dropped, queue, inHand,
                          outbox>>
       PROVE  Gossip!Next
  BY <1>7, <1>10 DEF PassStep, InTransit
<1>11. ASSUME NEW t \in Gossiper,
              ScanNext(t) \/ \E target \in Node : TriggerAntiEntropy(t, target)
       PROVE  Gossip!Next
  BY <1>10, <1>11 DEF TriggerAntiEntropy, ScanNext, engineVars, busVars, historyVars
<1>12. ASSUME NEW n \in Node,
              Swap(n) \/ EndPut(n) \/ \E cut \in BOOLEAN : Partition(n, cut)
       PROVE  Gossip!Next
  BY <1>10, <1>12
  DEF Swap, EndPut, Partition, engineVars, busVars, threadVars, historyVars
<1>13. CASE UNCHANGED vars
  BY <1>10, <1>13 DEF vars, engineVars, busVars, threadVars, historyVars
<1> QED
  BY <1>2, <1>3, <1>4, <1>5, <1>6, <1>8, <1>9, <1>11, <1>12, <1>13 DEF Next

\* Seen from the engines, threads and bus are a network that carries, in any
\* order, what some node made, with a value, of registers it holds or held, or
\* loses it: nothing that two calls, a read and a put, two deliveries or a
\* restart do between each other's steps makes a node hold or send anything
\* else.
THEOREM NodesImplementGossip == Spec => ImplementsGossip
<1>1. Init => Gossip!Init
  BY GossipInit
<1>2. Init => Private
  BY DEF Init, Private
<1>3. TypeOK /\ Private /\ [Next]_vars => Private'
  BY PrivateStep
<1>4. TypeOK /\ Private /\ [Next]_vars => [Gossip!Next]_(Gossip!vars)
  BY GossipStep
<1> QED
  BY <1>1, <1>2, <1>3, <1>4, TypeCorrect, PTL
  DEF Spec, ImplementsGossip, Gossip!Spec

=============================================================================
