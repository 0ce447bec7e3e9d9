--------------------------- MODULE StorageEngine ---------------------------
(***************************************************************************)
(* The storage engine of one node (src/db.cpp, src/compaction.cpp and what *)
(* they use of the memtables, the log, the manifest and the table files).  *)
(*                                                                         *)
(* Writers and the background worker exclude each other by writer_mutex_;  *)
(* readers take no lock: they load the active memtable, then the head of   *)
(* the list of immutable ones, then the layout, and the writer changes     *)
(* these three in separate steps.  The process may be killed between any   *)
(* two steps, the machine may lose power, and the database may be opened   *)
(* again on what is left of the log, the manifest and the files.           *)
(*                                                                         *)
(* A memtable or a file is a function from keys to registers.  Frozen      *)
(* memtables are never freed, files never deleted, the log never cut.      *)
(***************************************************************************)
EXTENDS LWWRegister, Sequences, FiniteSets

CONSTANTS Key,          \* keys, in the order of the strings
          Self,         \* node_id_
          Written,      \* the values put locally on a key; Empty is remove()
          Incoming,     \* the registers of a key that other nodes send
          Reader,       \* threads that call get()
          NoReg,        \* nothing stored for a key
          NoTask,       \* no compaction planned
          NoPut,        \* no put holds the mutex
          Torn,         \* the first bytes of a record that was cut off
          Del,          \* the DEL records of a compaction
          Garbage,      \* the bytes of a register that was cut in two
          SyncWrites,   \* sync_writes_
          NumLevels,    \* number of levels (7 in the code)
          MemLimit,     \* inserts a memtable takes before it is frozen
          L0Trigger,    \* files that start a compaction of level 0 (3)
          LnTrigger,    \* files that start one of another level (4)
          NlCounters,   \* counters with a newline byte: 10, 266, 522, ...
          BarCounters,  \* counters with a '|' byte: 124, 380, ...
          MaxPuts,      \* bound on the puts
          MaxKills,     \* bound on the kills of the process
          MaxPowerLosses, \* bound on the losses of power
          MaxFailures   \* bound on the tables that cannot be opened

Level == 0..(NumLevels - 1)

Content == [Key -> Register \cup {NoReg}]

\* A line of the log.
Record == [key : Key, reg : Register]

ASSUME EngineAssumption ==
  /\ Key \subseteq Nat
  /\ Self \in Node
  /\ Written \in [Key -> SUBSET Value]
  /\ Garbage \in Value
  /\ Incoming \in [Key -> SUBSET Register]
  /\ NoReg \notin Register
  /\ Torn \notin Record /\ Torn # Del
  /\ NoPut \notin Record
  /\ SyncWrites \in BOOLEAN
  /\ NumLevels \in Nat \ {0}
  /\ {MemLimit, L0Trigger, LnTrigger, MaxPuts, MaxKills,
       MaxPowerLosses, MaxFailures}
       \subseteq Nat

VARIABLES
  (* memory *)
  localClock,  \* local_clock_
  tables,      \* every memtable since the start, the last is active_mem_
  used,        \* inserts into the active memtable: its approximate_size()
  linked,      \* immut_head_: the memtables 1..linked are in the list
  flushed,     \* the memtables in the list marked flushed
  layout,      \* layout_: the open files of each level
  levelFiles,  \* levels_meta_: the file names of each level
  (* disk *)
  files,       \* files[f]: the content of table file f
  manifest,    \* its records: pairs of level and file for ADD, or Del
  wal,         \* the records of the log, pairs of key and register
  synced,      \* the records that have been fsync'ed
  (* threads *)
  mutex,       \* who holds writer_mutex_: nobody, a put and how far it
               \* is, or the worker
  pending,     \* the record of the put that holds the mutex, or NoPut
  worker,      \* where the background worker is
  opened,      \* the files the worker has flushed and not yet published
  task,        \* its CompactionTask
  get,         \* get[r]: where the call of reader r is
  acked,       \* history: what the last finished put of a key wrote, or
               \* what an open after it gave
  unsettled,   \* history: what the key was before the kills since the last
               \* put that returned
  (* bounds *)
  puts, kills, powerLosses, failures

memVars  == <<localClock, tables, used, linked, flushed>>
fileVars == <<layout, levelFiles, files, manifest>>
walVars  == <<wal, synced>>
putVars  == <<mutex, pending>>
workVars == <<worker, opened, task>>
history  == <<acked, unsettled>>
bounds   == <<puts, kills, powerLosses, failures>>
vars     == <<memVars, fileVars, walVars, putVars, workVars, get, history, bounds>>

-----------------------------------------------------------------------------
(* Lookups. *)

Nothing == [k \in Key |-> NoReg]

\* Mistake: the list is searched from its oldest end.
OldestFirst(tabs, T, k) ==
  LET has == {i \in T : tabs[i][k] # NoReg}
  IN  IF has = {} THEN NoReg
      ELSE tabs[CHOOSE i \in has : \A j \in has : i <= j][k]

\* The newest of the memtables in the set T that has the key.
Newest(tabs, T, k) ==
  LET has == {i \in T : tabs[i][k] # NoReg}
  IN  IF has = {} THEN NoReg
      ELSE tabs[CHOOSE i \in has : \A j \in has : j <= i][k]

\* min_key of a file.
MinKey(f) ==
  LET has == {k \in Key : files[f][k] # NoReg}
  IN  CHOOSE k \in has : \A j \in has : k <= j

\* The orders in which a level may list its files: by min_key, and as
\* std::sort likes between equal ones.
Listings(F) ==
  {s \in [1..Cardinality(F) -> F] :
     \A i, j \in 1..Cardinality(F) :
       i < j => s[i] # s[j] /\ MinKey(s[i]) <= MinKey(s[j])}

\* What get_crdt may find in the files: the first file that has the key in
\* the first level that has it.
FileVersions(lay, k) ==
  LET has(l)  == {f \in lay[l] : files[f][k] # NoReg}
      levels  == {l \in Level : has(l) # {}}
      top     == has(CHOOSE l \in levels : \A m \in levels : l <= m)
      lowest  == {f \in top : \A g \in top : MinKey(f) <= MinKey(g)}
  IN  IF levels = {} THEN {NoReg} ELSE {files[f][k] : f \in lowest}

\* The register get_crdt gives for what it found: an empty value is none.
Visible(reg) == IF reg # NoReg /\ reg.value = Empty THEN NoReg ELSE reg

\* What get_crdt may return when nothing changes under it.
GetResults(k) ==
  LET inMemory == Newest(tables, 1..linked \cup {Len(tables)}, k)
  IN  IF inMemory # NoReg THEN {Visible(inMemory)}
      ELSE {Visible(reg) : reg \in FileVersions(layout, k)}

-----------------------------------------------------------------------------
(* put(key, value), remove(key) and put(key, crdt). *)

\* A get() that is under way may return what is written meanwhile.
Witness(k, reg) ==
  get' = [r \in Reader |->
            IF get[r].at # "idle" /\ get[r].key = k
            THEN [get[r] EXCEPT !.allowed = @ \cup {reg}] ELSE get[r]]

\* MemTable::put; the log comes after it.
Insert(k, reg) ==
  /\ tables' = [tables EXCEPT ![Len(tables)][k] = reg]
  /\ used' = used + 1
  /\ pending' = [key |-> k, reg |-> reg]
  /\ mutex' = "log"
  /\ puts' = puts + 1
  /\ Witness(k, reg)
  /\ UNCHANGED <<linked, flushed, fileVars, walVars, workVars, history, kills,
                 powerLosses, failures>>

Put(k, v) ==
  /\ mutex = "free"
  /\ puts < MaxPuts
  /\ LET c == Increment(localClock, Self)
     IN  /\ localClock' = c
         /\ Insert(k, [value |-> v, clock |-> c])

\* Mistake: the incoming register is written over the stored one.
PutCrdtBlind(k, incoming) ==
  /\ mutex = "free"
  /\ puts < MaxPuts
  /\ localClock' = MergeClock(localClock, incoming.clock)
  /\ Insert(k, incoming)

\* get_crdt is called with the mutex held.
PutCrdt(k, incoming) ==
  /\ mutex = "free"
  /\ puts < MaxPuts
  /\ localClock' = MergeClock(localClock, incoming.clock)
  /\ \E existing \in GetResults(k) :
       Insert(k, IF existing = NoReg THEN incoming
                                     ELSE Merge(incoming, existing))

Settled == [k \in Key |-> {}]

\* The mutex is released and put() returns.
FinishPut ==
  /\ mutex' = "free"
  /\ pending' = NoPut
  /\ acked' = [acked EXCEPT ![pending.key] = pending.reg]
  /\ unsettled' = Settled

\* Mistake: the put that fills the memtable is not logged.
AppendLogUnlessFull ==
  /\ mutex = "log"
  /\ IF used > MemLimit
     THEN mutex' = "swap" /\ UNCHANGED <<walVars, pending, history>>
     ELSE FinishPut /\ wal' = Append(wal, pending) /\ UNCHANGED synced
  /\ UNCHANGED <<memVars, fileVars, workVars, get, bounds>>

\* Mistake: put() returns before the log is synced.
AppendLogNoSync ==
  /\ mutex = "log"
  /\ wal' = Append(wal, pending)
  /\ UNCHANGED synced
  /\ IF used > MemLimit THEN mutex' = "swap" /\ UNCHANGED <<pending, history>>
                        ELSE FinishPut
  /\ UNCHANGED <<memVars, fileVars, workVars, get, bounds>>

\* WAL::append and, with sync_writes_, WAL::sync; then the size decides
\* whether the put is over.
AppendLog ==
  /\ mutex = "log"
  /\ wal' = Append(wal, pending)
  /\ synced' = IF SyncWrites THEN Len(wal') ELSE synced
  /\ IF used > MemLimit THEN mutex' = "swap" /\ UNCHANGED <<pending, history>>
                        ELSE FinishPut
  /\ UNCHANGED <<memVars, fileVars, workVars, get, bounds>>

\* A fresh memtable becomes the active one: the full one is no longer
\* active, and not in the list either.
SwapActive ==
  /\ mutex = "swap"
  /\ tables' = Append(tables, Nothing)
  /\ used' = 0
  /\ mutex' = "link"
  /\ get' = [r \in Reader |-> IF get[r].at # "idle"
                              THEN [get[r] EXCEPT !.rotated = TRUE] ELSE get[r]]
  /\ UNCHANGED <<localClock, linked, flushed, fileVars, walVars, pending,
                 workVars, history, bounds>>

\* Mistake: the active memtable is linked too.
LinkFrozenAndActive ==
  /\ mutex = "link"
  /\ linked' = Len(tables)
  /\ FinishPut
  /\ UNCHANGED <<localClock, tables, used, flushed, fileVars, walVars,
                 workVars, get, bounds>>

\* The full memtable becomes the head of the list, and put() returns.
LinkFrozen ==
  /\ mutex = "link"
  /\ linked' = Len(tables) - 1
  /\ FinishPut
  /\ UNCHANGED <<localClock, tables, used, flushed, fileVars, walVars,
                 workVars, get, bounds>>

-----------------------------------------------------------------------------
(* background_worker: flush. *)

Unflushed == (1..linked) \ flushed

\* An open may fail; the code ignores it.
MayOpen(ok) ==
  \/ ok /\ UNCHANGED failures
  \/ ~ok /\ failures < MaxFailures /\ failures' = failures + 1

StartFlush ==
  /\ worker = "flush"
  /\ mutex = "free"
  /\ Unflushed # {}
  /\ mutex' = "worker"
  /\ UNCHANGED <<memVars, fileVars, walVars, pending, workVars, get, history, bounds>>

\* One round of the loop over the list, newest first: write the file, name
\* it in levels_meta_ and in the manifest, open it for the new layout.
FlushTable ==
  /\ worker = "flush"
  /\ mutex = "worker"
  /\ \E i \in Unflushed, ok \in BOOLEAN :
       /\ \A j \in Unflushed : j <= i
       /\ LET f == Len(files) + 1
          IN  /\ files' = Append(files, tables[i])
              /\ levelFiles' = [levelFiles EXCEPT ![0] = @ \cup {f}]
              /\ manifest' = Append(manifest, <<0, f>>)
              /\ opened' = IF ok THEN opened \cup {f} ELSE opened
       /\ MayOpen(ok)
       /\ flushed' = flushed \cup {i}
  /\ UNCHANGED <<localClock, tables, used, linked, layout, walVars, putVars,
                 worker, task, get, history, puts, kills,
                 powerLosses>>

PublishFlush ==
  /\ worker = "flush"
  /\ mutex = "worker"
  /\ Unflushed = {}
  /\ layout' = [layout EXCEPT ![0] = @ \cup opened]
  /\ opened' = {}
  /\ mutex' = "free"
  /\ worker' = "plan"
  /\ UNCHANGED <<memVars, levelFiles, files, manifest, walVars, pending, task,
                 get, history, bounds>>

\* Mistake: without a flush there is no compaction.
NothingToFlushNoPlan ==
  /\ worker = "flush"
  /\ mutex = "free"
  /\ Unflushed = {}
  /\ UNCHANGED vars

NothingToFlush ==
  /\ worker = "flush"
  /\ mutex = "free"
  /\ Unflushed = {}
  /\ worker' = "plan"
  /\ UNCHANGED <<memVars, fileVars, walVars, putVars, opened, task, get,
                 history, bounds>>

-----------------------------------------------------------------------------
(* background_worker: compaction (plan, execute, apply). *)

Trigger(l) == IF l = 0 THEN L0Trigger ELSE LnTrigger

Full(l) == l + 1 \in Level /\ Cardinality(levelFiles[l]) >= Trigger(l)

\* plan_compaction: the first level that has too many files; the whole
\* level is the input.
PlanCompaction ==
  /\ worker = "plan"
  /\ mutex = "free"
  /\ IF \E l \in Level : Full(l)
     THEN /\ \E l \in Level :
               /\ Full(l)
               /\ \A m \in Level : Full(m) => l <= m
               /\ task' = [level |-> l, names |-> levelFiles[l],
                           inputs |-> layout[l], output |-> {}]
          /\ worker' = "execute"
     ELSE /\ worker' = "flush"
          /\ UNCHANGED task
  /\ UNCHANGED <<memVars, fileVars, walVars, putVars, opened, get, history, bounds>>

\* Mistake: the last file that has the key wins.
FoldedLastWins(s, k) ==
  LET has == {i \in 1..Len(s) : files[s[i]][k] # NoReg}
  IN  IF has = {} THEN NoReg
      ELSE files[s[CHOOSE i \in has : \A j \in has : j <= i]][k]

\* The fold of execute_compaction over one key: the files in the order of
\* the level, each version merged into what has been found so far.
Folded(s, k) ==
  LET fold[i \in 0..Len(s)] ==
        IF i = 0 THEN NoReg
        ELSE LET reg == files[s[i]][k]
             IN  IF reg = NoReg THEN fold[i - 1]
                 ELSE IF fold[i - 1] = NoReg THEN reg
                 ELSE Merge(fold[i - 1], reg)
  IN  fold[Len(s)]

\* execute_compaction runs without the mutex; with no input it writes no
\* file, and a file that cannot be opened counts as none.
ExecuteCompaction ==
  /\ worker = "execute"
  /\ IF task.inputs = {}
     THEN UNCHANGED <<files, task, failures>>
     ELSE \E s \in Listings(task.inputs), ok \in BOOLEAN :
            /\ files' = Append(files, [k \in Key |-> Folded(s, k)])
            /\ task' = IF ok THEN [task EXCEPT !.output = {Len(files')}]
                             ELSE task
            /\ MayOpen(ok)
  /\ worker' = "apply"
  /\ UNCHANGED <<memVars, layout, levelFiles, manifest, walVars, putVars,
                 opened, get, history, puts, kills,
                 powerLosses>>

\* apply_compaction: the inputs leave their level, whether there is an
\* output or not.
ApplyCompaction ==
  /\ worker = "apply"
  /\ mutex = "free"
  /\ LET l == task.level
     IN  /\ levelFiles' = [levelFiles EXCEPT ![l] = @ \ task.names,
                                             ![l + 1] = @ \cup task.output]
         /\ layout' = [layout EXCEPT ![l] = @ \ task.inputs,
                                     ![l + 1] = @ \cup task.output]
         /\ manifest' = IF task.output = {} THEN Append(manifest, Del)
                        ELSE manifest \o <<<<l + 1, Len(files)>>, Del>>
  /\ task' = NoTask
  /\ worker' = "flush"
  /\ UNCHANGED <<memVars, files, walVars, putVars, opened, get, history, bounds>>

-----------------------------------------------------------------------------
(* get(key) from a thread that holds no lock. *)

IdleGet == [at |-> "idle", key |-> 0, allowed |-> {}, rotated |-> FALSE,
            found |-> NoReg]

\* The call is in the step named by "at"; allowed are the versions it may
\* return: the last finished put of the key when it began, the one that was
\* under way, and every one since.  rotated says that a memtable was neither
\* active nor in the list at some time during the call.
BeginGet(r, k, at, reg) ==
  get' = [get EXCEPT ![r] =
            [at |-> at, key |-> k,
             allowed |-> {acked[k]} \cup (IF pending # NoPut /\ pending.key = k
                                          THEN {pending.reg} ELSE {}),
             rotated |-> mutex = "link",
             found |-> reg]]

\* The active memtable is loaded and searched.
GetActive(r, k) ==
  /\ get[r].at = "idle"
  /\ LET reg == tables[Len(tables)][k]
     IN IF reg # NoReg THEN BeginGet(r, k, "done", Visible(reg))
                       ELSE BeginGet(r, k, "immutable", NoReg)
  /\ UNCHANGED <<memVars, fileVars, walVars, putVars, workVars, history, bounds>>

\* The head of the list is loaded; the memtables behind it never change.
GetImmutable(r) ==
  /\ get[r].at = "immutable"
  /\ LET reg == Newest(tables, 1..linked, get[r].key)
     IN get' = IF reg # NoReg
               THEN [get EXCEPT ![r].at = "done", ![r].found = Visible(reg)]
               ELSE [get EXCEPT ![r].at = "files"]
  /\ UNCHANGED <<memVars, fileVars, walVars, putVars, workVars, history, bounds>>

\* The layout is loaded; it is never changed in place.
GetFiles(r) ==
  /\ get[r].at = "files"
  /\ \E reg \in FileVersions(layout, get[r].key) :
       get' = [get EXCEPT ![r].at = "done", ![r].found = Visible(reg)]
  /\ UNCHANGED <<memVars, fileVars, walVars, putVars, workVars, history, bounds>>

EndGet(r) ==
  /\ get[r].at = "done"
  /\ get' = [get EXCEPT ![r] = IdleGet]
  /\ UNCHANGED <<memVars, fileVars, walVars, putVars, workVars, history, bounds>>

-----------------------------------------------------------------------------
(* Crashes, and the constructor that opens what they left. *)

\* How the line of a record comes back: the serialized clock is binary, and
\* the log is split at newlines and each line at '|'.
Framing(reg) ==
  IF \E n \in Node : reg.clock[n] \in BarCounters THEN "dropped"
  ELSE IF \E n \in Node : reg.clock[n] \in NlCounters THEN "cut"
  ELSE "whole"

\* A record behind a torn one shares its line.
Readable(w, i) ==
  /\ w[i] # Torn
  /\ i = 1 \/ w[i - 1] # Torn
  /\ Framing(w[i].reg) # "dropped"

\* LWWRegister::deserialize on what is left of a record.
Parsed(reg) ==
  IF Framing(reg) = "cut" THEN [value |-> Garbage, clock |-> ZeroClock] ELSE reg

\* WAL::replay into an empty memtable: the last readable record of a key.
Replay(w) ==
  [k \in Key |->
     LET at == {i \in DOMAIN w : Readable(w, i) /\ w[i].key = k}
     IN  IF at = {} THEN NoReg
         ELSE Parsed(w[CHOOSE i \in at : \A j \in at : j <= i].reg)]

\* Number 0 is a name that no file has: what is left of an ADD record that
\* was cut within the file name.
Broken(e) == e = Torn \/ (e # Del /\ e[2] = 0)

\* A record behind a broken one shares its line, and a line without an end
\* is not read.
Parses(m, i) ==
  /\ m[i] \notin {Torn, Del}
  /\ i = 1 \/ ~Broken(m[i - 1])
  /\ \E j \in i..Len(m) : ~Broken(m[j])

\* Manifest::load: every file ever added to a level, deleted or not.
Loaded(m) ==
  [l \in Level |-> {m[i][2] : i \in {j \in DOMAIN m : Parses(m, j) /\ m[j][1] = l}}]

\* What a loss of power may leave of a record of the manifest.
Remains(e) == {Torn} \cup (IF e \in {Torn, Del} THEN {} ELSE {<<e[1], 0>>})

\* The files that are opened: those that exist.
Opened(m) == [l \in Level |-> Loaded(m)[l] \ {0}]

\* What comes back for each key: what the log gives, or else what get_crdt
\* finds in the files.
Recovered(w, m) ==
  LET back(k) == IF Replay(w)[k] # NoReg THEN {Replay(w)[k]}
                 ELSE FileVersions(Opened(m), k)
  IN  {a \in [Key -> UNION {back(k) : k \in Key}] : \A k \in Key : a[k] \in back(k)}

\* The process is gone and the database is opened on the log w, of which s
\* records are synced, and the manifest m.  To open the log is not to sync it.
Recover(w, s, m) ==
  /\ wal' = w
  /\ manifest' = m
  /\ synced' = s
  /\ tables' = <<Replay(w)>>
  /\ used' = Cardinality({i \in DOMAIN w : Readable(w, i)})
  /\ linked' = 0
  /\ flushed' = {}
  /\ levelFiles' = Loaded(m)
  /\ layout' = Opened(m)
  /\ localClock' = ZeroClock
  /\ mutex' = "free"
  /\ pending' = NoPut
  /\ worker' = "flush"
  /\ opened' = {}
  /\ task' = NoTask
  /\ get' = [r \in Reader |-> IdleGet]
  /\ acked' \in Recovered(w, m)
  /\ UNCHANGED <<files, puts, failures>>

\* What the log may hold when everything stops: a put may have appended its
\* record without having returned.
Logs == {wal} \cup (IF mutex = "log" THEN {Append(wal, pending)} ELSE {})

\* The process is killed, or shut down and started again: what it has
\* written is there.
Kill ==
  /\ kills < MaxKills
  /\ kills' = kills + 1
  /\ \E w \in Logs : Recover(w, synced, manifest)
  /\ unsettled' = [k \in Key |-> unsettled[k] \cup {acked[k]}]
  /\ UNCHANGED powerLosses

\* What a loss of power may leave of the manifest, which is never synced:
\* some of its records, the last perhaps in part.
Manifests ==
  {SubSeq(manifest, 1, n) : n \in 0..Len(manifest)} \cup
  UNION {{Append(SubSeq(manifest, 1, n - 1), e) : e \in Remains(manifest[n])} :
           n \in 1..Len(manifest)}

\* The machine loses power: of the log what was synced is there, and some of
\* what follows, the last record perhaps in part.  What is there has reached
\* the disk.
PowerLoss ==
  /\ powerLosses < MaxPowerLosses
  /\ powerLosses' = powerLosses + 1
  /\ \E w \in Logs, m \in Manifests : \E keep \in synced..Len(w) :
       LET prefix == SubSeq(w, 1, keep)
       IN  \/ Recover(prefix, keep, m)
           \/ keep < Len(w) /\ Recover(Append(prefix, Torn), keep + 1, m)
  /\ unsettled' = Settled
  /\ UNCHANGED kills

-----------------------------------------------------------------------------
Init ==
  /\ localClock = ZeroClock
  /\ tables = <<Nothing>>
  /\ used = 0
  /\ linked = 0
  /\ flushed = {}
  /\ layout = [l \in Level |-> {}]
  /\ levelFiles = [l \in Level |-> {}]
  /\ files = <<>>
  /\ manifest = <<>>
  /\ wal = <<>>
  /\ synced = 0
  /\ mutex = "free"
  /\ pending = NoPut
  /\ worker = "flush"
  /\ opened = {}
  /\ task = NoTask
  /\ get = [r \in Reader |-> IdleGet]
  /\ acked = Nothing
  /\ unsettled = Settled
  /\ puts = 0 /\ kills = 0 /\ powerLosses = 0 /\ failures = 0

Write ==
  \/ \E k \in Key : \E v \in Written[k] : Put(k, v)
  \/ \E k \in Key : \E reg \in Incoming[k] : PutCrdt(k, reg)

Writer == Write \/ AppendLog \/ SwapActive \/ LinkFrozen

Worker ==
  \/ StartFlush \/ FlushTable \/ PublishFlush \/ NothingToFlush
  \/ PlanCompaction \/ ExecuteCompaction \/ ApplyCompaction

Get(r) ==
  \/ \E k \in Key : GetActive(r, k)
  \/ GetImmutable(r)
  \/ GetFiles(r)
  \/ EndGet(r)

Next ==
  \/ Writer
  \/ Worker
  \/ \E r \in Reader : Get(r)
  \/ Kill
  \/ PowerLoss

Spec == Init /\ [][Next]_vars

\* The worker never stops and a put that holds the mutex goes on.
Fairness ==
  /\ WF_vars(AppendLog) /\ WF_vars(SwapActive) /\ WF_vars(LinkFrozen)
  /\ WF_vars(Worker)

FairSpec == Spec /\ Fairness

-----------------------------------------------------------------------------
(* Properties. *)

Files == 1..Len(files)

Names == 0..Len(files)

\* A record of the manifest.
Entry == (Level \X Names) \cup {Torn, Del}

\* A CompactionTask; its level is not the last one.
Task == [level : 0..(NumLevels - 2), names : SUBSET Names,
         inputs : SUBSET Files, output : SUBSET Files]

Call == [at : {"idle", "immutable", "files", "done"},
         key : Key \cup {0},
         allowed : SUBSET (Register \cup {NoReg}),
         rotated : BOOLEAN,
         found : Register \cup {NoReg}]

TypeOK ==
  /\ localClock \in Clock
  /\ tables \in Seq(Content) /\ tables # <<>>
  /\ used \in Nat
  /\ linked \in 0..(Len(tables) - 1)
  /\ flushed \in SUBSET (1..linked)
  /\ layout \in [Level -> SUBSET Files]
  /\ levelFiles \in [Level -> SUBSET Names]
  /\ files \in Seq(Content)
  /\ manifest \in Seq(Entry)
  /\ wal \in Seq(Record \cup {Torn})
  /\ synced \in 0..Len(wal)
  /\ mutex \in {"free", "log", "swap", "link", "worker"}
  /\ pending \in Record \cup {NoPut}
  /\ mutex \in {"log", "swap", "link"} => pending \in Record
  /\ worker \in {"flush", "plan", "execute", "apply"}
  /\ opened \in SUBSET Files
  /\ task \in Task \cup {NoTask}
  /\ worker \in {"execute", "apply"} => task \in Task
  /\ get \in [Reader -> Call]
  /\ \A r \in Reader : get[r].at # "idle" => get[r].key \in Key
  /\ acked \in Content
  /\ unsettled \in [Key -> SUBSET (Register \cup {NoReg})]
  /\ puts \in Nat /\ kills \in Nat /\ powerLosses \in Nat /\ failures \in Nat

\* The memtables hold exactly what a replay of the log would give, but for
\* the put that has not reached the log yet: a kill loses nothing else.
MemoryIsLogged ==
  \A k \in Key :
    \/ Newest(tables, 1..Len(tables), k) = Replay(wal)[k]
    \/ mutex = "log" /\ pending.key = k

\* A put that has returned survives a kill of the process: what comes back
\* for its key is what it wrote or what a put under way was writing.
AckedSurvives ==
  [][kills' > kills
       => \A k \in Key :
            \/ acked'[k] = acked[k]
            \/ pending # NoPut /\ pending.key = k /\ acked'[k] = pending.reg]_vars

\* The record of a put stands behind a torn one, on the same line of the log:
\* no replay will ever read it.
Shadowed(k) ==
  \E i \in 2..Len(wal) : wal[i - 1] = Torn /\ wal[i] # Torn /\ wal[i].key = k

\* The same over losses of power, followed or preceded by kills, if writes
\* are synced.  A put that was killed between its record and the sync comes
\* back, and may be gone again after a loss of power, with which its key
\* turns to what it was before that kill: no put that returned is lost, but
\* those whose record stands behind a torn one in the log.
AckedSurvivesOffTornTail ==
  [][kills' > kills \/ (SyncWrites /\ powerLosses' > powerLosses)
       => \A k \in Key :
            \/ Shadowed(k)
            \/ acked'[k] = acked[k]
            \/ pending # NoPut /\ pending.key = k /\ acked'[k] = pending.reg
            \/ powerLosses' > powerLosses /\ acked'[k] \in unsettled[k]]_vars

\* What get() returns was the current version of the key at some time
\* during the call.
ReadsAreRegular ==
  \A r \in Reader :
    get[r].at = "done" => get[r].found \in {Visible(v) : v \in get[r].allowed}

\* The same for the calls during which no memtable was being rotated.  A put
\* that only a table file remembers, because its record stands behind a torn
\* one, is excepted once a table could not be opened: a compaction whose
\* output does not open drops what it merged.
ReadsOffRotationAreRegular ==
  \A r \in Reader :
    /\ get[r].at = "done"
    /\ ~get[r].rotated
    /\ ~(failures > 0 /\ Shadowed(get[r].key))
    => get[r].found \in {Visible(v) : v \in get[r].allowed}

\* All the registers a scan collects for a key.
Versions(k) ==
  ({tables[i][k] : i \in 1..linked \cup {Len(tables)}}
     \cup {files[f][k] : f \in UNION {layout[l] : l \in Level}}) \ {NoReg}

\* What merging them one after the other may give: scan_crdt sorts them with
\* std::sort, which keeps no order between equal keys.
ScanMerges(k) ==
  LET fold[V \in SUBSET Versions(k)] ==
        IF V = {} THEN {NoReg}
        ELSE UNION {{IF acc = NoReg THEN v ELSE Merge(acc, v) :
                       acc \in fold[V \ {v}]} : v \in V}
  IN  fold[Versions(k)]

\* What scan_crdt may give for a key: an empty value is left out.
ScanResults(k) == {Visible(reg) : reg \in ScanMerges(k)}

\* The last put of a key.
LastPut(k) == Newest(tables, 1..Len(tables), k)

\* It covers every remove of the key.
CoversRemoves(k) ==
  \A i \in DOMAIN wal :
    wal[i].key = k /\ wal[i].reg.value = Empty
      => Leq(wal[i].reg.clock, LastPut(k).clock)

\* It carries a stamp that no other version of the key has.
HasNewStamp(k) ==
  \E n \in Node : \A v \in Versions(k) :
    v = LastPut(k) \/ v.clock[n] < LastPut(k).clock[n]

\* Merging every version of a key that is in a memtable or a file gives the
\* clock of the last put, and what a get finds if that put carries a stamp
\* that no other version has: before the first restart, for the keys whose
\* last put covers every remove of them.  (get_crdt hides a removed key, so
\* an incoming register is written over the remove without a merge, and an
\* older version that is still in a frozen memtable or in a file wins the
\* scan again.  An incoming register without a new stamp, such as an echo of
\* what this node sent, may have another value under a clock that some of
\* the versions have or make up together.)
ScanAgreesWithGet ==
  mutex = "free" /\ kills = 0 /\ powerLosses = 0 =>
    \A k \in Key :
      CoversRemoves(k) =>
        /\ \A reg \in ScanMerges(k) : reg # NoReg => reg.clock = LastPut(k).clock
        /\ HasNewStamp(k) => ScanResults(k) = GetResults(k)

\* What a flushed memtable held is in the published files, or superseded by
\* what is: neither a flush nor a compaction loses a version.
FlushedIsReachable ==
  \A i \in flushed, k \in Key :
    tables[i][k] # NoReg =>
      \E f \in opened \cup UNION {layout[l] : l \in Level} :
        /\ files[f][k] # NoReg
        /\ Leq(tables[i][k].clock, files[f][k].clock)

\* Once the writers are done every full memtable is flushed and no level but
\* the last holds too many files.
WorkerCatchesUp == <>[](Unflushed = {} /\ \A l \in Level : ~Full(l))

-----------------------------------------------------------------------------
(* The abstract store. *)

Store == INSTANCE CrdtStore
           WITH current <- [k \in Key |-> Newest(tables, 1..Len(tables), k)],
                durable <- Replay(wal)

\* Whatever memtables are swapped and linked, whatever is flushed, compacted
\* and opened again, the engine is one register per key that a kill of the
\* process takes back to the log.
ImplementsStore == Store!Spec

=============================================================================
