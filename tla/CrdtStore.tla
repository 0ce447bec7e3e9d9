----------------------------- MODULE CrdtStore -----------------------------
(***************************************************************************)
(* What a node relies on when it uses the storage engine: one register per *)
(* key, written by put(key, value) and put(key, crdt) of src/db.h in one   *)
(* step each, and a durable copy that a restart goes back to.  Memtables,  *)
(* the list of immutable ones, files, flushes and compactions do not exist *)
(* here.  StorageEngine implements this; Replication is written over it.   *)
(***************************************************************************)
EXTENDS LWWRegister

CONSTANTS Key, Self, Written, Incoming, NoReg

VARIABLES current,    \* the register a key has now, or NoReg
          durable,    \* the register it has after a restart
          localClock

vars == <<current, durable, localClock>>

Init ==
  /\ current = [k \in Key |-> NoReg]
  /\ durable = [k \in Key |-> NoReg]
  /\ localClock = ZeroClock

Put(k, v) ==
  LET c == Increment(localClock, Self)
  IN  /\ localClock' = c
      /\ current' = [current EXCEPT ![k] = [value |-> v, clock |-> c]]
      /\ UNCHANGED durable

\* A register without a value is as good as none.
PutCrdt(k, incoming) ==
  /\ localClock' = MergeClock(localClock, incoming.clock)
  /\ current' = [current EXCEPT ![k] =
                   IF @ = NoReg \/ @.value = Empty THEN incoming
                                                   ELSE Merge(incoming, @)]
  /\ UNCHANGED durable

\* The last write becomes durable.
Persist ==
  /\ durable' = current
  /\ UNCHANGED <<current, localClock>>

\* All but the last write is durable, and that may be; the local clock is
\* not.
Restart ==
  /\ current' \in {durable, current}
  /\ durable' = current'
  /\ localClock' = ZeroClock

Next ==
  \/ \E k \in Key : \E v \in Written[k] : Put(k, v)
  \/ \E k \in Key : \E reg \in Incoming[k] : PutCrdt(k, reg)
  \/ Persist
  \/ Restart

Spec == Init /\ [][Next]_vars

=============================================================================
