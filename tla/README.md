# ZenithDB in TLA+

ZenithDB is a replicated key-value store: every node holds an LSM storage engine, values are
last-writer-wins registers stamped with vector clocks, and nodes push registers to each other over a
message bus. This directory holds a specification of it, the configurations that model-check it with
TLC, and theorems checked with TLAPS. Every definition that models code is listed in `PROJECT.json`
("map") with the lines it stands for.

## The system

| Part | Code | State | Operations | Modelled in |
|---|---|---|---|---|
| Vector clock, register | `vector_clock.h`, `crdt.h` | counter per node; value and clock | `increment`, `merge`, `compare`, register `merge` | `LWWRegister` |
| Node | `node.cpp` | its engine, its peers | `Put`, `OnMessage`, `TriggerAntiEntropy` | `Replication`, over the promise `GossipStore` |
| Message bus | `transport.h` | queue, receivers cut off | `Send`, `DeliverAll`, `Partition` | `Replication` |
| Storage engine | `db.cpp`, `compaction.cpp` | active memtable, list of immutable ones, layout, level files, local clock | both `put`, `remove`, `get`, `scan_crdt`, the worker's flush and compaction, the constructor | `StorageEngine`, over the promise `CrdtStore` |
| Write-ahead log | `wal.cpp` | records, how many are synced | `append`, `sync`, `replay` | `StorageEngine` |
| Manifest | `manifest.cpp` | ADD and DEL records | `add_sstable`, `replace`, `load` | `StorageEngine` |
| Table file | `sstable.cpp` | blocks, restart points, index, filter | `create`, `get`, `scan` | `SSTable` |
| Memtable | `memtable.cpp` | skip list, arena, key range | `put`, `remove`, `get`, `scan`, `sorted_entries` | `MemTable`; a function from keys to registers in `StorageEngine` |
| Skip list | `skiplist.h` | nodes, their heights, pointers and values, height of the list | `Insert`, `Get`, iterator | `MemTable` |
| Arena | `arena.h` | blocks, what is left of the current one | `Allocate`, `AllocateAligned` | `Arena` |
| Block cache | `block_cache.h` | cached blocks | `get`, `put` | not modelled: nothing in the system calls it |
| Console, benchmarks, tests | `main.cpp`, `benchmarks/`, `tests/` | | | not modelled: they call the parts above |

How they interact. A client thread calls `Node::Put`, which calls the engine's `put`, reads the
register back with `get_crdt` and sends it to every peer. A thread that pumps the bus pops messages
under the lock of the bus and, after the unlock, calls `Node::OnMessage` of the receiver, which
calls the engine's `put` with a register. `TriggerAntiEntropy` scans the engine and sends everything
to one peer. In the engine writers and one background worker exclude each other by `writer_mutex_`,
except that the worker executes a compaction without it; readers take no lock and load the active
memtable, the head of the list and the layout one after the other.

What is hard here: the steps between which `Node::Put` and `DeliverAll` hold no lock; a register
merge that must not depend on the order of delivery; a local clock that is kept only in memory;
readers that see a rotation, a node of the skip list or a string half written; a compaction that
runs beside flushes and puts; a log that is split at newline bytes while its records are binary; a
log and a manifest that a loss of power cuts within a record; a sparse index and restart points that
must never hide a key. `PROJECT.json` lists these under "hazards", each at its line and with the
properties that would fail.

What makes each part right:
- registers: the clock of a merge is the join of the two clocks; merging twice, or in the other
  order, changes nothing as long as the clocks differ;
- nodes and bus: no live register goes back in history, stamps are unique, who has seen a put has
  seen what it depends on, and when nothing is on its way nodes agree;
- engine: it behaves as one register per key; what has been acknowledged survives; a read returns a
  version that was current during the call; flush and compaction lose nothing and keep up;
- memtable: a read without a lock comes to an end, finds every key whose put had returned and gives
  it a value that was current; a flush sees what was put;
- arena: what is handed out is aligned and overlaps nothing;
- table file: `get` and `scan` return exactly what was written.

## Modules

**`LWWRegister`** Clocks as functions from nodes to counters (an absent node counts 0, as in the
code), `Increment`, `MergeClock`, `Order` (compare) and the register's `Merge`: the causally later
register wins, of two others the one with the larger value, and the winner takes the joined clock.
The value `Empty` is the empty string: a removed key. `Merges(V)` is what may come of merging all of
`V` in any order, some perhaps merged among themselves before, as compactions do.

**`Replication`** Nodes, bus and client threads. Each public call is cut where the code holds no
lock: `Put` (the engine's put), `FetchForPush` (read back and address the messages), `Send` (one
message under the lock of the bus), `Pop` and `Deliver` (the two halves of `DeliverAll`),
`TriggerAntiEntropy`, `ScanNext` (a scan loads the active memtable and reads one key at a time) and
`ScanList` (it adds what is in the list and the files, merges all versions of each key and addresses
the messages). `Partition` cuts a receiver off. `Restart` keeps the newest registers, keeps or loses
each older version, and forgets `local_clock_`, as the constructor does.

For those who write, the engine is a register per key (`store`). Readers take no mutex, and so the
module also has what they may see instead: `frozen` is the content of the memtable at each rotation,
for the versions that are left in immutable memtables and files; `writing` is the thread whose put
holds the mutex while others look (`Take` lets a put return before anybody looks, or not), and
`hidden` says that its full memtable is neither active nor in the list (`Swap`, until `EndPut`).
`Reads` is what `get_crdt` gives then: the newest register if it can be seen, and while a put is
under way also what is `Behind` the active memtable, since the range of that memtable may be under
assignment. So `FetchForPush` may push the register, an older version, or nothing at all, and a scan
may send a merge that no `get` has shown.

**`GossipStore`** What the nodes make of each other's registers: `Put`, `Publish` (registers of some
keys go under way at once, each with a value and merged from registers of its key that the node
holds or can still find), `Receive` (by any node, in any order), `Lose`, `Restart`; all the while a
node can find only what it has held (`Keep`). `Replication` implements it (`ImplementsGossip`) under
the mapping that takes the messages in outboxes, queue and hands as one set without order and
receivers, and the frozen memtables and what scans have read as `kept`. So a put that is read back a
step later, a read beside a rotation, a scan that goes key by key, two threads that deliver, a cut
and a restart do no more than delay, reorder or lose what some node made of what it had held.

**`StorageEngine`** One engine. `tables` is every memtable since the start; the last one is active,
`1..linked` are in the list, so between `SwapActive` and `LinkFrozen` one of them is in neither, as
in `db.cpp:122-127`. A put is `Put` or `PutCrdt` (memtable), `AppendLog` (log, sync, size check)
and, for a full memtable, `SwapActive` and `LinkFrozen`. The worker goes through `StartFlush`,
`FlushTable` (one memtable each), `PublishFlush` or `NothingToFlush`, `PlanCompaction`,
`ExecuteCompaction`, `ApplyCompaction`. A reader goes through `GetActive`, `GetImmutable`,
`GetFiles`, `EndGet`. `Kill` stops the process anywhere and opens the database again (`Recover`);
`PowerLoss` also loses what was not synced and may tear the last record of the log (`Torn`) and of
the manifest, which is never synced at all (`Manifests`). Opening the log does not sync it, so a
`Kill` leaves `synced` as it was, and what the process had appended and not synced is served again
but may go with a loss of power (`unsettled` remembers what the key was before). An ADD record cut
within its file name still parses, with a name that no file has (0), if a later record ends its line
(`Parses`, `Loaded`). `Framing` says what the newline split of `WAL::replay` makes of a record whose
clock holds the byte 0x0A or `|`.

**`CrdtStore`** What a node may rely on: one register per key, a durable copy, a local clock that a
restart forgets. `StorageEngine` implements it (`ImplementsStore`) under the mapping that takes the
newest memtable's register as `current` and a replay of the log as `durable`; that the mapping can
leave the files out is a fact about the code: the log is never cut, so the memtables always hold
every key again.

**`SSTable`** `create` entry by entry (`AddEntry`, `CloseBlock`, `FinishFile`), and `get` and `scan`
as the reader does them: filter, index, binary search over restart points (`Probe`, `Land`), walk
(`Pass`, `Hit`, `LeaveBlock`). Offsets in a block are counted in entries. A restart point that
stands behind the last entry is read as a key of arbitrary order.

**`Arena`** The arena as a record, with an operator for each function: `Allocate`, `AllocateAligned`
(with its `Slop`), `AllocateFallback`, `AllocateNewBlock`. An address is a block and a byte of it.
`chunks` remembers what was handed out, which the code does not; `Sound` speaks of it.

**`MemTable`** One memtable, one put at a time (the engine holds `writer_mutex_`) and readers
without a lock. `put` and `call` hold where each is and its local variables. A put is `Put`,
`PutFind` (one turn of `FindGreaterOrEqual` each), then for a key that exists `CopyValue` and two
`StoreWord` (the pointer and the length of the `string_view`, in either order), for a new one
`PlaceNode` (height, arena, `max_height_`) and two steps of `SetNext` per level, and last
`UpdateRange`, `AssignMin`, `AssignMax`. A string that is being assigned compares as it likes
(`Compared`). A read is `BeginGet` and `CheckRange` (the range, as `get_crdt` asks it) or
`BeginScan`, then `StartSearch` (a level up to the one that was stored, since the load is relaxed),
`Search`, `CopyWord` (word by word) and `NextNode`. `allowed`, `torn` and `unsure` are history: the
values the call may return, whether the view was overwritten between its two words, and whether a
string was compared while it was assigned. `SortedEntries` and `Backward` walk the list as
`sorted_entries` and the iterator's `Prev` do.

**`LWWRegisterProofs`**, **`ReplicationProofs`**, **`StorageEngineProofs`**, **`ArenaProofs`**,
**`MemTableProofs`**, **`MemTableReadProofs`** and **`SSTableProofs`** hold the theorems,
**`LeastNumber`** lemmas on sets of naturals and finite sets; **`MCReplication`**,
**`MCStorageEngine`**, **`MCMemTable`** and **`MCSSTable`** define the finite instances.

## Runs

| Run | Question | Result |
|---|---|---|
| Faults | What do nodes promise while messages are delayed and lost, one node restarts, a memtable is rotated under reads, and gossip merges and repeats versions? `TypeOK`, `LocalClockCovers`, `OwnCounterLeads`, `CausalDelivery`, `LiveNeverRegresses`, `ImplementsGossip` | holds |
| Quiet | When everything sent is delivered, do nodes agree, though two threads write at a node, two pump the bus and reads fall into rotations? `QuiescentClocksAgree`, `SoleWriterConverged` | holds |
| Gossip | Does gossip repair what a cut dropped? `EventualClockAgreement` | holds |
| Livelock | Do nodes converge? `EventualConvergence` (`docs/ARCHITECTURE.md:19`, `docs/README.md:15`) | violated |
| WriterRestart | Do they when the only writer restarts? `SoleWriterConverged` (`docs/README.md:110`) | violated |
| EngineCrash | Reads beside rotation, flush and compaction; a loss of power with synced writes that tears log and manifest, and a kill before or after it, also between a record and its sync; a file that does not open. `TypeOK`, `ReadsOffRotationAreRegular`, `AckedSurvivesOffTornTail` | holds |
| EngineStore | Is the engine one register per key, over kills, removes and a peer's registers? Do files keep every version and agree with `get`, and does the worker keep up? `MemoryIsLogged`, `ImplementsStore`, `AckedSurvives`, `ScanAgreesWithGet`, `FlushedIsReachable`, `WorkerCatchesUp` | holds |
| MemTable | What does a reader without a lock see of a put, and a flush of all puts? `TypeOK`, `ArenaIsSound`, `LevelsAreSorted`, `NoWildPointer`, `GetIsRegular`, `ScanIsRegular`, `FlushSeesEveryPut`, `ReadsReturn` | holds |
| EngineStaleRead | Are all reads regular? `ReadsAreRegular` (`docs/ARCHITECTURE.md:26`) | violated |
| EngineTenPuts | Does a returned put survive a restart, after ten of them? `AckedSurvives` (`docs/README.md:136`, `tests/test_basic.cpp:39`) | violated |
| TableReads | Are `get` and `scan` exact where restart points are sound, and scans from the start everywhere? `GetOfSoundIsExact`, `ScanIsExact` | holds |
| TableLostKey | Is `get` exact for every table? `GetIsExact` (`tests/test_sstable_block_index.cpp:76`) | violated |

### What the violated ones show

- *Livelock.* Of two concurrent registers `merge` keeps the larger value, under the joined clock but
  whatever clock that value had, so merge is not associative: after three puts the nodes can hold
  different values under the same clock. For equal clocks `put(key, crdt)` keeps the value that
  arrives (`crdt.h:39`), so a round of gossip swaps the two values, and the next one swaps them
  back.
- *WriterRestart.* After a restart `local_clock_` is empty, the next put carries counter 1 again and
  peers that know a higher counter ignore it for ever.
- *EngineStaleRead.* `get` between the swap of the active memtable and its linking misses every put
  of that memtable. `ReadsOffRotationAreRegular` shows that, as long as a memtable is read whole, no
  other window between the three lookups matters. What a read within a memtable may see is the
  question of the run MemTable, with the two exceptions named below.
- *EngineTenPuts.* The tenth put's clock holds byte 10; replay cuts the record inside it.
  `AckedSurvives` holds in EngineStore, whose counters stay below ten: framing is all that breaks
  it.
- *TableLostKey.* `create` notes a restart point before it knows that the entry fits; the search may
  then be led behind the block's end, and `get` misses a key that a full scan shows.
  `GetOfSoundIsExact` shows that nothing else hides a key.

### What the exceptions in the passing ones stand for

Where a property that holds names an exception, TLC finds a counterexample without it:

- *`dropped` in `QuiescentClocksAgree`, `SoleWriterConverged` and `CausalDelivery`.* Besides the
  keys of lost messages it has those for which `FetchForPush` did not find the newest register:
  `get_crdt` falls between the swap and the link of another thread's put (`db.cpp:122-127`), and
  `Node::Put` pushes an older version or, without any word to its caller, nothing (`node.cpp:24`).
  The peer then lacks the put until gossip or another put of the key brings it. The properties say
  that this is the only way, and that it harms no other key.
- *`unsettled` in `AckedSurvivesOffTornTail`.* A put that was killed between `append` and `sync` is
  served by the next process, and a loss of power may still take it: for its caller it never
  returned, but a reader may have seen it. Once any put has returned, everything before it is
  synced.
- *`CoversRemoves` and `HasNewStamp` in `ScanAgreesWithGet`.* An incoming register is written
  unmerged over a remove, and a scan then merges it with an older value that the remove had hidden.
  A register without a stamp of its own, such as an echo of what this node sent, may have another
  value under the clock that some of the versions have or make up together.
- *`Shadowed` in `AckedSurvivesOffTornTail`.* After a loss of power the log may end in part of a
  line. The next process appends to it (`wal.cpp:25`), so the first record it writes is read as the
  end of that line: the put returns, is even synced, and the following restart does not bring it
  back.
- *`failures > 0 /\ Shadowed` in `ReadsOffRotationAreRegular`.* Such a put may live in a table file
  only. If the table that a compaction merges it into cannot be opened, the inputs leave the layout
  all the same (`compaction.cpp:67`, `:100`) and a get does not find it.
- *`row.torn` in `RowIsRegular`.* A read beside an overwrite of the same key may pair the pointer of
  one value with the length of another (`skiplist.h:187`): the code says that a memtable is "Not
  thread-safe (protected by writer_mutex_ in ZenithDB)" (`memtable.h:24`), but `get_crdt` takes no
  mutex.
- *`c.unsure` in `GetIsRegular`.* A get may compare with a range string that is being assigned
  (`memtable.cpp:12`) and leave a memtable out that has its key.

Both reads are regular, not atomic: of two reads in a row the first may return the value of the put
under way and the second the old one, since a scan does not look at the range, which a put updates
last, and a get does.

### Bounds

Replication: two nodes, one or two keys, two (Gossip) or three puts in all. One restart of node A in
Faults and WriterRestart; node B can be cut off in Gossip. `MaxSlow` counts the puts at a node that
others can watch, local ones and deliveries: one at A in Faults, one at each node in Quiet, so that
there is at most one rotation per node; none in the runs of liveness. Two nodes suffice for every
race between a local put, a push, gossip and a delayed message; concurrency of clocks needs two
writers; three puts give a dominated, a dominating and a concurrent register of one key. `MaxQueue`
bounds only the start of gossip, the one action that could fill the bus for ever; `GossipAfter` lets
nobody gossip before so many puts: two in Faults, so that gossip carries something to merge, three
in Livelock, which looks for a cycle after the last put.

Engine: two keys, three levels with a trigger of two files instead of seven levels with triggers of
three and four. `MemLimit` counts inserts where the code counts arena bytes (`2 * MEMTABLE_LIMIT`).
EngineStore has three puts and rotates at each (`MemLimit` is 0): two files are compacted from level
0 into level 1 while the third is written; after a kill the manifest lists the inputs in level 0
again, so it is compacted a second time and level 1 after it. EngineCrash and
EngineStaleRead have four puts and memtables of two. EngineCrash allows a kill, a loss of power and
an open that fails, each once and in any order: four puts let a record be written behind a torn one,
be flushed and compacted, and be looked for after the second restart. EngineTenPuts needs ten puts,
one key and no rotation.

Memtable: three keys of 880, 1000 and 3 bytes, values of 0, 9, 1024 and 1025 bytes beside the real
block size of 4096, so that pieces end a block, straddle it, are a quarter of it and just more, and
leave `alloc_ptr_` at odd bytes; three puts, so that a key is overwritten, the range is widened on
both sides, and a new level is opened beside lower nodes; two levels (12 in the code), one reader
and one range. Two readers do not meet: a read changes nothing. The proofs have none of these
bounds.

Table file: all tables over seven keys with entries of 9 and 60 bytes, `BlockTarget` 80 and an
interval of 2 between restart points (4096 and 16 in the code): blocks of one to six entries, one to
three restart points, up to seven blocks, full ones that end on a restart point and full ones that
do not. The two hash functions collide, so the filter passes absent keys.

`CHECK_DEADLOCK FALSE` stands where puts run out: a bounded system stops when its callers do. The
table runs check for deadlock.

### Fairness

`Replication!Fairness`: a client thread inside a call (`FetchForPush`, `EndPut`, `Send`), a gossiper
inside one (`ScanNext`, `ScanList`, `Send`) and a thread that pumps the bus go on (weak fairness);
each gossiper starts a round with each peer again and again (strong fairness). No code in `src/`
calls `TriggerAntiEntropy`; `docs/ARCHITECTURE.md:37` says it is called periodically, and strong
fairness is that reading: a thread that is sometimes between two calls, with room on the bus, calls
again. That cuts end is not assumed of the system but stands in the property.
`StorageEngine!Fairness`: the worker loops until `stop_`, and a put that holds the mutex is never
blocked. Nothing is assumed of puts, kills or readers. `MemTable!FairSpec`: a reader inside a call
goes on, since it never waits; of the writer nothing is assumed, so `ReadsReturn` says that reads
come back though the writer stops in the middle of a put.

## Theorems

For every set of nodes, keys, values and threads, every mesh and every bound, under
`ValueAssumption` and `ReplicationAssumption`, `EngineAssumption`, `ArenaAssumption` and
`MemTableAssumption`, or `TableAssumption` alone, unless a hypothesis is named:

- `MergeJoinsClocks`, `MergeLaws` (`LWWRegisterProofs`): the clock of a merge is the least upper
  bound of the two; merge is idempotent, and commutative for different clocks. `Livelock` shows that
  associativity cannot be added. `MergesAre` and `MergesStay`: the registers of `Merges(V)` stay in
  every set that has `V` and is closed under `Merge`. `Merges` is a recursive function over rounds,
  and all that is used of it is shown for the least round at which it would fail (`RoundsExist`).
- `TypeCorrect` (`ReplicationProofs`): `TypeOK` is inductive; one lemma per action.
- `LocalClockAlwaysCovers`: relative to `TypeOK`, `LocalClockCovers` is inductive. `EngineSteps`
  reduces the actions to a few kinds of step: a put (the new clock is that of the register), a
  delivery (the new register's clock is below the join of two clocks that the new local clock both
  covers), anything else. The lemma needs the exemption of restarted nodes: a restart clears the
  clock and keeps the registers.
- `LiveRegistersNeverRegress`: from the two invariants. A put dominates because the local clock
  covers what it overwrites; a delivery merges with a register that has a value.
- `OwnCounterAlwaysLeads`: `OwnCounterLeads` speaks of every place a clock may be in (engines, older
  versions, scans, bus, hands, outboxes). `ProvenanceStep` says where each clock of the next state
  comes from: it is `Derived`, that is in every set that has the known clocks and is closed under
  joins (a scan may merge many), or it is a fresh stamp; then the invariant is preserved pointwise,
  because own counters only grow and a join counts no more than one of its parts.
- `QuiescentClocksAlwaysAgree` assumes `FullMesh`: every node has every other as a peer, since
  nobody forwards a push. `AgreeInv` carries the property through the steps in which things are on
  their way. `AllTold`: what any register of the key knows, stored, frozen, read by a scan or sent
  (`Registers`), every node knows, or will be told: it is below that node's register, or a message
  to it covers it, or a client is still to read the register back. That client will read at least
  this much, or the key is `dropped` from then on (`Private`: a client has one thing in its hands at
  a time). A step makes new registers only of these, by a put, a delivery or the merges of a scan
  (`RegisterSteps`: `Generated`, in every set that has the registers of the key and is closed under
  `Merge`), and a merge knows no event that neither of its parts knew. With nothing on its way, all
  debts are paid.
- `SoleWriterAlwaysConverged` assumes also that no node restarts (`MaxRestarts[n] = 0`;
  WriterRestart shows that it cannot be dropped) and finitely many nodes. `SoleLine`: if one node
  writes a key, then all registers of it, old versions and messages included, lie on one causal line
  (of two clocks one is below the other, and equal clocks have equal values), with the writer's
  store on top. So a merge always picks one of the two and never makes a third (`MergeOnLine`), and
  what is `Generated` from the line is on it, whatever overtakes what and whatever a scan merges; a
  put goes on top because the local clock covers the store.
- `CausallyDelivered` assumes `FullMesh` and `TwoInOrder`: at most two nodes, one client thread for
  each, one thread that pumps (what the run Faults has, where the one thread that pumps may still
  rotate a memtable under the client's read back; TLC refutes the property for three nodes, where
  the third may put or gossip what it learnt of a put before the first node has pushed that put to
  the second). `CausalInv` follows each put, of key `k`, until it is replicated. `InOrder`: a
  message in the queue that knows of the put stands behind one of `k` that brings it, or its
  receiver has it, or the one hand does. `Spread`: a register of another key that knows of the put
  exists only once it is sent, since the thread makes no other put before (`Pushed`) and the other
  node learns of it only by receiving it (`Learnt`). One lemma per part, and `TracedPut` for a put
  that is new: by `OwnCounterLeads` nobody knows of it. TLC checked the invariant on the instance of
  Faults first.
- `NodesImplementGossip`: every step of the nodes and the bus is a step of `GossipStore`, for every
  mesh and with restarts. A node can find only what it held (`GossipKeep`, from `FindableSteps`: a
  rotation freezes the store, a scan reads it or a frozen memtable). What is sent is `Made` of that
  (`ReadsMade`, `ScanMade`, `GossipPublish`); other steps pass a message on (`GossipPass`, with
  `SendSteps` and `PopSteps`) or take one away (`GossipDeliver`, `GossipRestart`). The push replaces
  an outbox, which is right only since that is empty (`Private`).

- `EngineTypeCorrect` (`StorageEngineProofs`): `TypeOK` of the engine is inductive, one lemma per
  action. A compaction needs that its fold gives a register: `Folded` is a recursive function, so
  `FoldExists` and `FoldFound` first show that such a function exists and what it gives, each by the
  least index at which it would fail (`LeastExists`).

The theorems about the log need that records come back whole. `SyncedLines`: no clock has a newline
or `|` byte, and writes are synced or power is never lost; EngineTenPuts shows that the first cannot
be dropped. `AllLines`: as well, power is never lost. The invariants are stated under `SyncedLines`,
for every key that is not `Behind` a torn line of the log; under `AllLines` there is no such key,
and the exception goes away.

- `MemoryAlwaysLogged`: the memtables hold what a replay of the log gives, but for the put between
  the two. By itself this is not inductive. `LoggedInv` adds that the put under way is what memory
  has; that every memtable but the active one is in the list, except between the swap and the link;
  and that a key of any file is a key of the log, so that `get_crdt`, called by `put(key, crdt)`,
  finds nothing in a file that memory does not have.
- `AckedAlwaysSurvives`: what a kill leaves for a key is what its last finished put wrote, or what
  the put under way was writing. `AckedInv` follows the acknowledged register through the five
  places of a put: until the record is appended it is what the log gives, after that only the put
  under way may differ.
- `AckedAlwaysSurvivesOffTornTail`: the same over any number of losses of power and kills in any
  order, for keys whose last record does not stand behind a torn one. After a kill the end of the
  log may not be synced; `CutSettles` says that wherever the log is cut behind `synced`, a replay
  gives what was acknowledged or what the key was before a kill that caught a put after its record
  (`unsettled`). `CrashIs` gives what a crash may make of the log, `ReplayTorn` and `ReplayAppend`
  what a replay makes of that: a key is lost by a torn tail only if its record is the next to be
  appended.
- `EngineImplementsStore`: every step of the engine is a step of `CrdtStore` or changes nothing
  there. `StoreInsert` gives the puts, with `GetIsCurrent` for the register that is merged,
  `AppendedLog` gives `Persist`, the two logs a kill may leave give `Restart`, and `StoreElse` (a
  fresh memtable hides nothing) everything else.
- `FlushedAlwaysReachable` assumes `MaxFailures = 0`, that a table written can be opened: if it
  cannot, `replace` drops the inputs of the compaction until the next start (EngineCrash has such
  failures, and leaves the property out). The property is not inductive; `FlushedInv` adds that the
  output of a compaction that is about to be applied `Supersedes` each of its inputs, which is what
  `FoldFound` gives: the fold over a level keeps, of each key, a register whose clock covers every
  version it merged.
- `ReadsAlwaysRegularOffTornTail`, `ReadsAlwaysRegularOffRotation`: readers take no lock, so the
  invariant (`CallsInv`) says for each place of a call what is still to be found. Two facts make it
  inductive: a memtable that is not active never changes (`Frozen`), and what the active one holds
  was current (`ActiveInv`). A key that the reader did not find in the active memtable has in the
  list (`Frozen(k)`) a version that was current, and as long as no rotation falls into the call the
  list stays as it was; if the list has none either, no file does, since a file has only keys of
  flushed memtables or, after a restart, of the log, which is never cut. The first theorem is under
  `SyncedLines` and for keys that are not `Shadowed`; the second, under `AllLines`, is the property
  of the run. For shadowed keys after a loss of power the property stays with EngineCrash.
- `ScanAlwaysAgreesWithGet`, for whatever arrives: `ScanInv` follows the puts of each key since the
  first start (`Wrote`). The local clock covers them all; the last one covers each of the others or
  some remove does (`History`: a put that does not cover the last one was written over a remove);
  every version in a memtable is one of the puts, and every version in a file is `Drawn` from them,
  i.e. knows no event of a node that none of them knows, which merges keep. If the last put covers
  every remove, it covers every version (`Below`), and any order of merges has its clock
  (`BelowMerge`). If it also has a stamp of its own at some node, all other versions lie strictly
  under it there (`Under`), a merge with it gives it back, and the scan's result is the last put
  itself. The scan is a recursive function over sets of versions: that it exists is `ScanExists`,
  and what it gives is shown on a counterexample of least cardinality (`ScanGives`), as the prover
  has no induction here.

The theorems about the memtable hold for any keys, key and value sizes, readers, ranges, number of
levels and block size:

- `ArenaAlwaysSound` (`MemTableProofs`): one lemma of `ArenaProofs` per function of the arena.
  `HandOutSound` is the core: a piece behind all others of its block, and within it, may be handed
  out; `CutSound` adds that the free bytes stay free, `SlopAligns` the alignment, `FallbackSound`
  that a new block is nobody's.
- `LevelsAlwaysSorted`: by itself not inductive, since linking is right only if the predecessors
  are. `ListInv` adds what the writer knows (`WriterInv`: in the levels searched so far, `prev` is
  linked, below the key, and points behind it; nobody else changes the list in the meantime), that
  no node is higher than the list, and where readers stand (`ReaderInv`). `SortedInsert` is the
  core: to put a key between a node and its successor keeps a level sorted. `ListPoint` and
  `ListLink` are the two stores.
- `NeverWildPointer`: readers stand on nodes that are linked in their level, and nodes never leave a
  list; `LevelsAreSorted` says that their pointers lead to linked nodes or to null.
- `MemTableTypeCorrect`: not inductive without `ListInv`, as the writer follows and stores pointers.
- `GetAlwaysRegular`, `ScanAlwaysRegular` (`MemTableReadProofs`): relative to the invariant above,
  `ReadInv` adds three things. `DataInv`: a key that was put is in level 0 for good, and its node
  holds the last value but for the words the put under way has stored. `RangeInv`: the range covers
  every key that was put. `CallsInv`, about a call under way: what is current is among `allowed`
  (`Seen`); a word copied is a word of an allowed value, and still the one in the node unless the
  read is torn (`Half`); the rows ascend, and every key behind the place of the call is among them
  unless `allowed` has `NoView` (`Rows`). `CallKept` says what a step of the writer may do beside a
  call; `VisitSound` is the core of the reader: from a node to its successor nobody is passed who
  had to be found, since a key that is passed is not linked, hence was never put. TLC checked the
  three invariants on the instance of the run before they were proved.
- `FlushAlwaysSeesEveryPut`: relative to the same invariant; `TailInv` adds that a pointer above the
  height of its node was never set and that the keys of nodes are bounded. The walks of the flush
  and of the iterator are recursive functions, and the prover has no induction over them, so each
  gets a closed form: a bounded set of keys has a sorted listing (`SortedListing`, by the least
  number), level 0 is that listing (`AlongListing`), and the listing from any node on is the only
  function that solves the equation of the walk, since the last node for which another did would be
  followed by one for which it does not (`FromListing`, `FoundLessThan`, `BackwardListing`).

The theorems about a table hold for any sorted entries of any size, any block size, restart interval
and hash values, whichever key stands behind a restart point that has no entry:

- `GetOfSoundAlwaysExact`, `ScanAlwaysExact` (`SSTableProofs`): `FileInv` says that the blocks, and
  then the one being filled, tile the table and that each begins with restart point 0; `ClosedInv`
  that the finished file has every entry and the filter every bit (`FilterIsSound`: the writer's and
  the reader's count of bits agree). `CallInv` says where a call stands: the rows are what is asked
  for among the entries before a place, which is the start of the block during the binary search and
  the walk's entry behind it. The search itself has to keep only `KeyAt(left - 1) < start`
  (`ProbeStep`); since `Land` goes to `left - 1`, the walk skips entries that are too small if that
  restart point has an entry, which is where `Safe` is needed, and skips nothing if `left` is 0,
  which it always is if `start` is the empty string. `LocateIs` and `NextBlockIs` do the same
  between blocks. TableLostKey shows that `Safe` cannot be dropped.

Every invariant that a run checks is so stated by a theorem for all values of the constants. Only
model-checked are the liveness properties (`WorkerCatchesUp`, `EventualClockAgreement`,
`ReadsReturn`), since fairness and `ENABLED` are beyond the prover, and the five properties that are
violated.

## What is left out, and why

Replication. `DeliverAll` reads the map of callbacks and the set of cut-off nodes without the lock;
the race on those containers is undefined behaviour and is abstracted to reading the set at
delivery. A restart takes effect in one step, and never inside an engine's put (that is `Kill` in
`StorageEngine`). Callback registration is static. A register is read whole, a memtable's list and
its files at one moment (what happens between these is the business of `MemTable` and
`StorageEngine`). The order of the pushes of one put to different peers is left open.
`CausalDelivery` needs one client thread at a node, one thread that pumps and two nodes: with more
threads pushes overtake each other, and a third node may pass on what the second has not yet been
sent. So the run has two nodes with one of each. A message that arrives for a deleted key is written
without a merge (the engine hides an empty register), so an old message can bring a key back;
`LiveNeverRegresses` is stated for keys that have a value.

Memtable. Stores of one thread are seen in program order, which for the plain ones (a `string_view`,
a string, `has_range_`) C++ does not promise: a compiler could move `update_range` before the
insertion. A string read while it is assigned may do worse than compare wrongly. Bytes are copied
when a view is turned into a string, after both words are read; the arena never writes them again,
which is `ArenaIsSound`. `Contains` and `approximate_size` change nothing; the latter is `used` in
`StorageEngine`.

Engine. Not modelled: two files with the same generated name after a quick restart; keys, values or
node ids that hold newline or `|` bytes; clocks that hold both bytes at once; exceptions for a full
disk. What follows a torn record on its line is taken for unreadable, which it is unless the cut
falls on a field's edge. Table files are synced before they are named (`sstable.cpp:258`), so a
power loss keeps them, and the constructor can open them all. `Framing` looks for separator bytes in
the counters of a clock; the length of a clock, that of a node id and the number of its entries can
hold them as well (ten nodes, or a node id of ten bytes). Equal keys of `std::sort` come in any
order. A shutdown is a `Kill` between steps. A reader's scan is not an action of `StorageEngine`;
the scan of anti-entropy is one of `Replication`. `ScanAgreesWithGet` compares scan and get on
states without a writer, a kill or a power loss before them: after a restart the local clock begins
again, and a scan, which merges, may prefer an older register where `get` takes the newest place.
Its two other exceptions are named above. In all of them nodes may gossip what no `get` has shown;
`ImplementsGossip` says what it is made of.

Table file. Corrupt files and the byte layout are left out; `max_key` is not stored, so the checks
that would use it never prune.

Block cache. `BlockCache` is used by nothing in `src/`; its tests (`tests/test_BF.cpp:130-167`) use
a public constructor and `MAX_BLOCKS`, which it does not have. A model of it would be about no
behaviour of the system.

## Plan

The reuse of file names after a restart in `StorageEngine`.
