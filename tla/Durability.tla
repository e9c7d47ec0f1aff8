------------------------------ MODULE Durability ------------------------------
(***************************************************************************)
(* The path of a SET from memory to disk and back: executeCommand          *)
(* (pkg/server/server.go) applies it to the store and appends it to the    *)
(* append-only file (pkg/persistence/aof.go); at start-up restoreData      *)
(* loads the snapshot and replays the AOF over it.                         *)
(*                                                                         *)
(* SETs are numbered in the order in which the store applies them; the     *)
(* number stands for the value, so that a larger number is a newer value,  *)
(* 0 an absent key and Garbage a value that no client has set.  Memory is  *)
(* never full and keys have no TTL here (module Store); the snapshot is    *)
(* saved in one step (module Snapshot).                                    *)
(***************************************************************************)
EXTENDS Integers, SequencesExt

CONSTANTS
  Keys,
  Clients,      \* connections that execute SETs
  Policies,     \* fsync policies the server may run with
  RDBConfigured, \* whether SAVE is possible
  WriteErrors,  \* whether writes to the AOF may fail
  PowerLosses,  \* whether the machine may lose power
  TornKinds,    \* what may be left of a record that was not fully written
  MaxSets       \* bound on the number of SETs

(***************************************************************************)
(* The reader (ParseCommand) has no way to tell where a record ends but    *)
(* its lengths.  A record cut short is of one of five kinds, by what it    *)
(* makes of the records after it:                                          *)
(*   "payload" an argument ends too early: an unexpected EOF, at once      *)
(*   "middle"  EOF at a place where the file may end, but the next record  *)
(*             is misread as part of this one, with an error               *)
(*   "start"   the array header without its line's end: the next header    *)
(*             continues the line, Sscanf ignores it, and that record is   *)
(*             read as it should be                                        *)
(*   "key", "value"  the length line of the key or the value, for a length *)
(*             that ends at a CRLF of the next record (2: "*3"): EOF at    *)
(*             the end of the file, but of a next record the reader takes  *)
(*             the argument, and a second one for a value that is missing; *)
(*             it executes a SET nobody sent and reads the rest of the     *)
(*             record as inline commands.  So that record is lost, and     *)
(*             after "value" the key of the first one holds garbage.       *)
(* Of a record that is itself so taken a cut leaves the same five cases.   *)
(* A length that ends beyond the next record takes several; here it is     *)
(* one.  No client uses a key with the garbage name, and no argument read  *)
(* as an inline command is the name of one.                                *)
(***************************************************************************)
AllTornKinds == {"payload", "middle", "start", "key", "value"}

ASSUME DurabilityAssumption ==
  /\ Policies \subseteq {"always", "everysec", "no"}
  /\ RDBConfigured \in BOOLEAN /\ WriteErrors \in BOOLEAN /\ PowerLosses \in BOOLEAN
  /\ TornKinds \subseteq AllTornKinds
  /\ MaxSets \in Nat

VARIABLES
  policy,
  server,   \* "up", "down", or "refused": Start returned an error
  mem,      \* the store
  last,     \* number of SETs applied so far
  set,      \* the SET each client is in
  file,     \* the AOF as the operating system holds it
  synced,   \* how many of its records are on disk
  failed,   \* bufio's sticky error: a flush has failed
  rdb,      \* the snapshot file
  logged,   \* newest SET of each key whose aof.Write returned no error
  durable   \* the same as far as a later sync, or its own, has covered it

vars == <<policy, server, mem, last, set, file, synced, failed, rdb, logged, durable>>
diskVars == <<file, synced, rdb>>

Idle == [phase |-> "idle", id |-> 0]
Whole == "whole"
Garbage == -1
-----------------------------------------------------------------------------
\* ReadCommands stops at EOF and fails on anything else it cannot parse.
LoadFails(f) ==
  \E i \in 1..Len(f) : \/ f[i].part = "payload"
                       \/ f[i].part = "middle" /\ i < Len(f)

\* The record before took this one's first lines for its argument.
Taken(f, i) == i > 1 /\ f[i - 1].part \in {"key", "value"}

\* The reader executes a SET of the record's own key.
Executes(f, i) ==
  /\ ~Taken(f, i)
  /\ f[i].part = Whole \/ (f[i].part = "value" /\ i < Len(f))

valueOf(r) == IF r.part = Whole THEN r.id ELSE Garbage

\* Mutant: the first SET of a key wins the replay.
RecoveredFirst(base, f) ==
  [k \in Keys |->
     LET sets == {i \in 1..Len(f) : f[i].key = k /\ Executes(f, i)}
     IN  IF sets = {} THEN base[k] ELSE valueOf(f[Min(sets)])]

\* The store after restoreData: the snapshot, then every SET of the AOF.
Recovered(base, f) ==
  [k \in Keys |->
     LET sets == {i \in 1..Len(f) : f[i].key = k /\ Executes(f, i)}
     IN  IF sets = {} THEN base[k] ELSE valueOf(f[Max(sets)])]

\* aof.mu is held by the client that has appended and not yet synced.
AofFree == \A c \in Clients : set[c].phase # "sync"

newer(a, b) == IF a > b THEN a ELSE b
-----------------------------------------------------------------------------
Init ==
  /\ policy \in Policies
  /\ server = "up"
  /\ mem = [k \in Keys |-> 0]
  /\ last = 0
  /\ set = [c \in Clients |-> Idle]
  /\ file = <<>>
  /\ synced = 0
  /\ failed = FALSE
  /\ rdb = [k \in Keys |-> 0]
  /\ logged = [k \in Keys |-> 0]
  /\ durable = [k \in Keys |-> 0]

\* SET: store.Set.
SetApply(c, k) ==
  /\ server = "up"
  /\ set[c] = Idle
  /\ last < MaxSets
  /\ last' = last + 1
  /\ mem' = [mem EXCEPT ![k] = last + 1]
  /\ set' = [set EXCEPT ![c] = [phase |-> "append", id |-> last + 1, key |-> k]]
  /\ UNCHANGED <<policy, server, diskVars, failed, logged, durable>>

\* The client is told OK, whatever aof.Write returned.
Answer(c, ok) ==
  LET k == set[c].key
  IN  /\ set' = [set EXCEPT ![c] = Idle]
      /\ logged' = IF ok THEN [logged EXCEPT ![k] = newer(@, set[c].id)] ELSE logged

record(c, part) == [key |-> set[c].key, id |-> set[c].id, part |-> part]

\* Mutant: the client is answered before the sync.
AofAppendNoSync(c) ==
  /\ set[c].phase = "append"
  /\ AofFree
  /\ ~failed
  /\ file' = Append(file, record(c, Whole))
  /\ Answer(c, TRUE)
  /\ durable' = logged'
  /\ UNCHANGED <<policy, server, mem, last, synced, failed, rdb>>

\* aof.Write appends and flushes; under "always" it goes on to sync.
AofAppend(c) ==
  /\ set[c].phase = "append"
  /\ AofFree
  /\ ~failed
  /\ file' = Append(file, record(c, Whole))
  /\ IF policy = "always"
     THEN set' = [set EXCEPT ![c].phase = "sync"] /\ UNCHANGED logged
     ELSE Answer(c, TRUE)
  /\ UNCHANGED <<policy, server, mem, last, synced, failed, rdb, durable>>

AofSync(c) ==
  /\ set[c].phase = "sync"
  /\ synced' = Len(file)
  /\ Answer(c, TRUE)
  /\ durable' = logged'
  /\ UNCHANGED <<policy, server, mem, last, file, failed, rdb>>

\* file.Sync fails: the record is in the file and may not be on disk.
AofSyncFails(c) ==
  /\ WriteErrors
  /\ set[c].phase = "sync"
  /\ Answer(c, FALSE)
  /\ UNCHANGED <<policy, server, mem, last, diskVars, failed, durable>>

\* The flush fails, perhaps with part of the record written; bufio keeps
\* the error.
AofWriteFails(c) ==
  /\ WriteErrors
  /\ set[c].phase = "append"
  /\ AofFree
  /\ ~failed
  /\ failed' = TRUE
  /\ file' \in {file} \union {Append(file, record(c, t)) : t \in TornKinds}
  /\ Answer(c, FALSE)
  /\ UNCHANGED <<policy, server, mem, last, synced, rdb, durable>>

\* After that every aof.Write returns the old error and writes nothing.
AofWriteSkipped(c) ==
  /\ set[c].phase = "append"
  /\ AofFree
  /\ failed
  /\ Answer(c, FALSE)
  /\ UNCHANGED <<policy, server, mem, last, diskVars, failed, durable>>

\* backgroundSync, once a second under "everysec"; if its sync fails it
\* changes nothing.
backgroundSync ==
  /\ server = "up"
  /\ policy = "everysec"
  /\ AofFree
  /\ synced' = Len(file)
  /\ durable' = logged
  /\ UNCHANGED <<policy, server, mem, last, set, file, failed, rdb, logged>>

\* SAVE, as one step.
Save ==
  /\ RDBConfigured
  /\ server = "up"
  /\ rdb' = mem
  /\ UNCHANGED <<policy, server, mem, last, set, file, synced, failed, logged, durable>>

\* The process dies: SETs in progress get no answer.
Kill ==
  /\ server = "up"
  /\ server' = "down"
  /\ set' = [c \in Clients |-> Idle]
  /\ UNCHANGED <<policy, mem, last, diskVars, failed, logged, durable>>

\* The machine loses power: of the records not synced any prefix survives,
\* the next one perhaps in part.  Only the synced SETs were sure to survive.
PowerLoss ==
  /\ PowerLosses
  /\ server' = "down"
  /\ set' = [c \in Clients |-> Idle]
  /\ \E n \in synced..Len(file) :
       LET kept == SubSeq(file, 1, n)
       IN  file' \in {kept} \union
                     {Append(kept, [file[n + 1] EXCEPT !.part = t]) :
                        t \in IF n < Len(file) THEN TornKinds ELSE {}}
  /\ synced' = Len(file')
  /\ logged' = durable
  /\ UNCHANGED <<policy, mem, last, failed, rdb, durable>>

\* Start: restoreData, with initAOF opening and replaying the AOF.
Start ==
  /\ server # "up"
  /\ failed' = FALSE
  /\ IF LoadFails(file)
     THEN server' = "refused" /\ mem' = mem
     ELSE server' = "up" /\ mem' = Recovered(rdb, file)
  /\ UNCHANGED <<policy, last, set, diskVars, logged, durable>>

Next ==
  \/ \E c \in Clients : \/ \E k \in Keys : SetApply(c, k)
                        \/ AofAppend(c)
                        \/ AofSync(c)
                        \/ AofSyncFails(c)
                        \/ AofWriteFails(c)
                        \/ AofWriteSkipped(c)
  \/ backgroundSync
  \/ Save
  \/ Kill
  \/ PowerLoss
  \/ Start

Spec == Init /\ [][Next]_vars
-----------------------------------------------------------------------------
\* Keys with a record that was taken for part of a torn one, or that a torn
\* one gave a value nobody set.
Spoilt(f) ==
  {f[i].key : i \in {i \in 1..Len(f) : Taken(f, i) \/ (f[i].part = "value" /\ i < Len(f))}}

\* Keys of which two SETs were logged in the other order than they were
\* applied in: store.Set and aof.Write are two critical sections, and SETs of
\* a key can come from several clients.
Overtaken(f) ==
  {f[j].key : j \in {j \in 1..Len(f) :
     \E i \in 1..j - 1 : f[i].key = f[j].key /\ f[i].id > f[j].id}}

\* Keys whose records are all read, and in the order of their SETs.
Sound(f) == Keys \ (Spoilt(f) \union Overtaken(f))

\* A SET that aof.Write logged is recovered by the next start that succeeds,
\* with the value it set or a newer one, although the AOF is replayed over a
\* snapshot that may be newer: a dead process loses none, and a power failure
\* none under fsync "always" and none that a tick of backgroundSync has
\* covered under "everysec", whatever errors and torn records came before.
\* Not so the keys of which a torn record took a later one, and those of
\* which two SETs were logged in the other order.
RecoversLogged ==
  ~LoadFails(file) =>
    \A k \in Sound(file) :
      logged[k] # 0 => Recovered(rdb, file)[k] >= logged[k]

\* No SET is in progress and no write has failed since the start.
Quiet == server = "up" /\ ~failed /\ \A c \in Clients : set[c] = Idle

\* initAOF "replays its contents to restore state": at rest a restart would
\* bring back exactly the state in memory, but for the same keys, if the file
\* can be read at all.
ReplayRestoresState ==
  Quiet /\ ~LoadFails(file) =>
    \A k \in Sound(file) : Recovered(rdb, file)[k] = mem[k]

\* The same promise for all keys, which two clients that set one key can
\* break although nothing fails.
RestoresState ==
  Quiet /\ ~LoadFails(file) => Recovered(rdb, file) = mem
=============================================================================
