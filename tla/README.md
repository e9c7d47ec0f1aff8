# A TLA+ model of fast-and-accurate-store

This project models the Go server `fas` (a Redis-like key-value server: RESP over TCP, string
values with TTL, memory limit with eviction, append-only file, snapshots, publish/subscribe, a
master with replicas, hash slots) and checks it with TLC and TLAPS. Paths below are relative to the
repository root, which is `src/` here.

- [Inventory](#inventory): the system, its state, what is hard about it
- [Modules](#modules): how the models correspond to the code
- [Runs](#runs): what TLC checks, the bounds, the fairness
- [Proofs](#proofs): what TLAPS proves and along which argument
- [Findings](#findings): where the code and its own documentation disagree
- [What is not modelled](#what-is-not-modelled) and [Plan](#plan)

To repeat a check: `tlc -workers 2 -config MCStore.cfg MCStore`, `tlapm StoreProofs.tla`.
`PROJECT.json` lists the components, the runs with their properties, for every property a mutant of
the model that breaks it, the source lines of every definition, the findings, the hazards and the
theorems.

## Inventory

| Component | State | Operations | Correct when |
|---|---|---|---|
| Store (`pkg/store/store.go`) | `data`, `usedMemory`, FIFO ring, `lruHeap`, `lfuHeap`, `accessCounter`, `expiredCount`, policy, limit; all under `s.mu` | `Set`, `Get` (lazy expiry), `Delete`, `evictIfNeeded` under five policies, `activeExpire` every 100 ms, `SnapshotEntries`, `RestoreSnapshot` | accounting is exact, eviction finds every victim and the right one, only keys past their TTL expire and all of them do, a restore is exact, a `Get` answers something true |
| FIFO ring (same file) | `fifoKeys`, `fifoHead`, `fifoTail`, `fifoSize`, `fifoCap`, `tombs` | add, remove (tombstone), pop, grow, compact | it is a queue; nothing is overwritten; its capacity depends on the keys, not on the number of SETs |
| Publish/subscribe (`pkg/pubsub/pubsub.go`, `handleSubscribe`) | `channels` under `ps.mu`, one buffered Go channel per subscription | `Subscribe`, `Unsubscribe`, `Publish`, forwarding loop | no send on a closed channel, per-publisher order, a publisher never waits |
| Append-only file (`pkg/persistence/aof.go`) | file, bufio buffer and its sticky error, fsync policy | `Write`, `backgroundSync`, `ReadCommands` | what was reported written is recovered |
| Snapshot file (`pkg/persistence/snapshot.go`, `saveSnapshot`, `startBGSAVE`) | two paths, `bgSave.running` | `SAVE`, `BGSAVE`, `LoadSnapshot` | the file is always loadable; saves are not lost |
| Start-up (`restoreData`, `initAOF`) | – | load snapshot, replay AOF | it restores the state, and succeeds |
| Replication (`handleReplicaConnection`, `broadcastToReplicas`, `startReplicaClient`, `startLeaderHeartbeat`) | `s.replicas`, a channel of 1024 per replica, `replicaMode`, `leaderAddr` | snapshot, stream, reconnect, self-election | a connected replica holds what the master holds |
| Command execution (`executeCommand`) | – | SET, GET, PUBLISH, SAVE, BGSAVE, MIGRATE, INFO, CLUSTER, AUTH | effects in store, AOF and stream agree |
| Connection handling (accept loop of `Start`, `handleConnection`) | `s.clients`, `authenticated` per connection | limit, allowlist, AUTH, REPL and SUBSCRIBE taking over, deferred calls | the limit counts exactly and places come back; nothing passes the gates |
| Cluster slots (`cluster.go`, `slot.go`) | slot table | `keySlot`, `Lookup`, `ParseSlotRanges`, the ownership check | a key that has an owner is served by it |
| Migration (`migrate.go`) | – | read, send, delete | the newest value is not lost; the call ends |
| Event loops (`eventloop_linux.go`, `eventloop_darwin.go`) | descriptor table, read and write buffer, write interest, `authed` | epoll / kqueue cycles | every complete command is answered, once and in order; no connection is forgotten or closed without cause |
| Protocol (`pkg/protocol`) | – | `ParseCommand`, `ParseCommandFromBytes`, writer | bytes to commands and back, however they are cut |
| Configuration (`main.go`, `config_loader.go`, `ValidateAndFill`) | `Config` | flags, file, defaults, refusals | the server runs with what was asked for |
| Metrics, TLS, CLI | – | – | – |

**Interactions.** One goroutine per connection calls `executeCommand`, which calls the store under
`s.mu`, then the AOF under `aof.mu`, and in a deferred call broadcasts to the replicas' channels;
no lock spans two of these. `activeExpirationLoop`, `backgroundSync`, BGSAVE, the replica client and
the heartbeat are goroutines of their own. Subscriptions and replicas each have a goroutine that
forwards a Go channel to a connection.

**What is hard.** The clock read and the two lookups of `Get` around other goroutines' critical
sections; heap entries that outlive their item; a ring whose tombstone counter is only an estimate;
the empty string as key, tombstone and "nothing" at once; loops that delete from the map they range
over; three effects of one SET in three critical sections; a crash between any two of them; one
temporary file for several savers; a replica registered after its snapshot; channels at capacity;
descriptors that are closed and used again while events of the old connection wait in the batch;
write interest switched by two handlers; a client count kept by two goroutines; a migration in three
steps on two nodes, whose answer is typed by its text; event loops that wait for each other.
Every such place is a `hazards` entry of `PROJECT.json` at its line, with the properties that watch
it or the reason why none does.

## Modules

| Module | Models | Role |
|---|---|---|
| `Fifo` | – | the FIFO as a sequence: `addFIFO`, `removeFIFO`; shared by `Store` and `FifoQueue` |
| `FifoQueue` | – | abstract specification of the ring: a queue of the non-TTL keys and the victim popped |
| `FifoRing` | ring functions of `store.go` | detailed specification; implements `FifoQueue` |
| `Store` | `store.go` | the component everything else is built on |
| `StoreReads` | `Get` | `Store` with the history of what each pending `Get` could see |
| `PubSub` | `pubsub.go`, `handleSubscribe` | |
| `Durability` | `executeCommand` SET, `aof.go`, `restoreData`, `initAOF` | store, AOF and snapshot composed over crashes |
| `Snapshot` | `snapshot.go`, `saveSnapshot`, `startBGSAVE`, `LoadSnapshot` | savers on a small file system |
| `Replication` | replication part of `server.go` | master, network and replica composed |
| `Protocol` | `parser.go`, `writer.go` | pure functions: `ParseCommandFromBytes`, `WriteCommand` |
| `EventLoop` | `eventloop_linux.go`, `eventloop_darwin.go` | loop, kernel and clients composed; uses `Protocol` |
| `Config` | `main.go`, `config_loader.go`, `eviction.go`, `ValidateAndFill` | pure functions from flags and file to a configuration |
| `Connection` | accept loop, `handleConnection`, `handleSubscribe` | starts from every outcome of `Config` |
| `Slot` | `slot.go` | pure functions: CRC16 and slot of a key |
| `Cluster` | `cluster.go`, slot check and SET of `executeCommand`, `migrate.go` | two masters and a replica composed; its instance uses `Slot` |
| `SequenceProofs` | – | lemmas about sequences, positions and recursive functions that the proofs share |
| `StoreProofs` | – | theorems about `Store`, `StoreReads` and `FifoRing` |
| `ConnectionProofs` | – | theorems about `Connection` (with `Config`) and `EventLoop` |
| `PubSubProofs`, `DurabilityProofs`, `SnapshotProofs`, `ReplicationProofs`, `ClusterProofs` | – | theorems about the module of that name |
| `MC*` | – | instances for TLC: key and value lengths, symmetry sets |

Operators whose comment starts with "Mutant:" are wrong variants of the definition that follows;
no specification uses them. They record, for each property, a bug of the code it would catch.

### Store

An action is a critical section of `s.mu`, or one iteration of a loop that runs while `s.mu` is
held. `mu` says which loop holds the lock (`"evict"`, `"sample"`, `"sweep"`, `"restore"`), and no
other critical section is enabled until it is `"free"`. So Go's unspecified map order and a range
over a map from which keys are being deleted are explored step by step: `todo` is the set of keys
the range may still visit.

| Code | Model |
|---|---|
| `Set`/`setUnlocked` | `Set`, with `evictIfNeeded` entering the eviction loop |
| FIFO loop, TTL loop of `evictIfNeeded` | `evictFIFO`, `evictTTL` |
| `evictRandom`, `evictLRU`+`popLRU`, `evictLFU`+`popLFU` | `evictRandom`, `evictLRU`, `evictLFU`, one popped entry each |
| return of `evictIfNeeded` | `evictReturn` |
| `Get`/`getWithNow` | `GetCall` (clock), `GetRLock` (first lookup), then `GetMiss`, `GetExpired` or `GetHit` under the write lock |
| `Delete` | `Delete` |
| `activeExpire` | `activeExpire`, `sampleVisit`, `sampleDone`, `sweepVisit`, `sweepDone` |
| `SnapshotEntries` | `SnapshotEntries` |
| `New` + `RestoreSnapshot` at start-up | `Restart`, `restoreEntry`, `restoreDone` |

The FIFO is a sequence here, which `FifoRing` justifies. The heaps are sets of entries; `heap.Pop`
takes any entry that no other is `Less` than, so ties are nondeterministic as they are in
`container/heap` for a caller. `Item.Type` is constant in the code and left out. Time is a counter;
it does not pass while a loop holds the lock, since each critical section reads the clock once. `MaxClock`
and `MaxAccess` bound the clock and the access counter. `UnsafeSet` and `UnsafeGet` run the same
code without the lock, have no caller and are not modelled separately.

### FifoRing

The ring is a record of the six fields of the code, and `addFIFOUnlocked`, `removeFIFOUnlocked`,
`popFIFO`, `ensureFIFOCap`, `compactIfNeeded` are functions on it, driven by the store's calls.
`Window` is the sequence of valid slots, tombstones included; `Packed` is the copying loop of
compaction, a recursive function over the slots. Under the mapping `queue <- LiveQueue` (the window
without tombstones) every step is a step of `FifoQueue` or a stutter.

`tombs` is an estimate: growth copies the tombstones and sets it to 0, and popping leaves it too
large. A ring that grows with tombstones in it may double again after two more keys, so the capacity
is bounded by `InitCap * 2^(keys \div 2)` (`CapacityBounded`), not by twice the keys; the code
starts with 1024.

### Durability

SETs are numbered in the order the store applies them; the number is the value. A SET is
`SetApply` (store), then `AofAppend` (append and flush), and under fsync `always` `AofSync`. Failing
writes (with bufio's sticky error: after one failed flush every later `aof.Write` fails) and failing
syncs are actions of their own. `Kill` loses the process, `PowerLoss` also what was not synced, and
may leave the first lost record in part. What the reader does with a partial record, and with those
after it, depends on where the cut is: the five `TornKinds` are the ways `ReadCommands` can go on, and
the module's comment describes them. Two make a start fail (`LoadFails`), one does no harm, and two
let the start succeed with a later record swallowed as an argument (`Taken`). `logged` and `durable` are
histories: SETs whose `aof.Write` returned nil, and those of them that a sync has covered, which a
power failure must not take.

The properties speak of `Sound` keys. The others are named by what the file shows: a torn record took a
record of the key or gave the key a value that nobody set (`Spoilt`), or two SETs of the key were
logged in the other order than the store applied them (`Overtaken`). Both happen in the code, and
`RestoresState`, which makes no exception, is refuted by the run `durability_order`.

A sync that succeeds after a failed one is taken to have written everything, which is more than
Linux promises. The snapshot is one step here; `Snapshot` takes it apart.

### Snapshot

Two directory entries (`tmp`, `rdb`) name inodes; an open file writes to its inode whatever its name
has become, and `os.Create` truncates an existing one. Gob encoding is two writes, type descriptors
and entries. `onDisk` is what a sync has made durable, and a crash may replace any inode's content
by it. `past` is a history of whether saves have overlapped and whether anything has failed. `setup`
chooses which commands are used, whether operations may fail and the machine may crash. Renames
are durable and ordered: `SaveSnapshot` does not sync the directory, and
nothing in the repository promises that a rename survives a power failure.

### Replication

One replica; every connection it opens has its own handler at the master, which lives on after the
connection broke until it notices. `stream` moves a command from the handler's channel to the wire,
`apply` from the wire to the replica's store. SETs of several clients may be broadcast in another
order than the store applied them (`Late`), since `broadcastToReplicas` runs after `store.Set` has let
go of its lock. `behind` is a history, per session: the keys whose newest SET is not the last one put
on the way, because it fell between snapshot and registration, met a full channel or was overtaken by
a late one; a later SET of the key takes it out again. Either side evicts on its own if it has a memory
limit (`Evictions`: any part of the store, since `Store` says which), and tells nobody. The
replica's heartbeat elects it when it cannot reach the master; it then takes SETs. A restart of the
master is in `Cluster`; a second replica (whose handler is independent) and PUBLISH (which changes no
store) are left out.

### PubSub

A subscription is a Go channel and its forwarding goroutine. `Publish` holds the read lock over one
`PublishSend` per subscriber, so publishers interleave; `Subscribe` and `Unsubscribe` need the lock
alone (`NoReaders`), and `close` follows after the unlock. A client may stall or go away at any time.

### Protocol and EventLoop

A stream is a sequence of units: header, length, word, line end. The parser works on any prefix
of it, so every cut between two units is a read that ends there. Words are one unit long; inline
commands over 8 KB are left out. A negative count, or a length below -1, makes `make` or the slice
panic, which nothing recovers: the parser's third outcome besides a command and an error is `Panic`.
A script is a stream with its items: where each ends, what it is, and its command. `ScriptAssumption`
ties the items to the code: they are what `ParseCommandFromBytes` makes of every prefix of the stream
that ends in or after them.

The loop's steps are the poll, which takes a batch of events, and for each event its handlers: the
iterations of `accept`, the reading part of `read`, each round of its parse loop, `write`, and
`close`. `batch` keeps the events as they were at the poll, with the connection each was about
(`owner`, which the code does not have): when an event's turn comes, its descriptor may be free or
another connection's. `todo` is what is left of the flags of an epoll event, in the code's order
read, then write. One specification has both pollers; they differ in `EpollEvents`/`KqueueEvents`
(one event with flags, or one per filter with EV_EOF), in `readLinux`/`readDarwin` (until EAGAIN,
or once), in the gate (`authedLinux`/`authedDarwin`) and in `interestAfter`. Commands have no effect
on each other here. A round of the parse loop is one step that stands for its command up to the reply;
of the commands only MIGRATE waits for somebody else. Its targets are those in `Deaf`, which never
answer (the loop itself is one), and the others, which answer in the end. `Migrating` says that the loop
is about to execute one to a deaf target, and from there on nothing is promised of the loop.

| Code | Model |
|---|---|
| `EpollWait`, `Kevent`; the `for` over events | `Poll`; `Dispatch` |
| `accept` | `accept`, one connection; `return` |
| `read` | `readLinux`, `readDarwin`, then `parse` per round (`serve` is the gate and `executeCommand`) |
| `queueWrite` + `enableWrite`; `write` + `disableWrite` | `queueWrite`; `write`, `interestAfter` |
| EPOLLHUP, EPOLLERR, EV_EOF; `close` | `closeGone`; `close` |
| a panic in `parseRESPArray`, `parseArg` | `crash`: the process ends, and with it every connection |

### Config and Connection

`main` maps flags, lines of the file and the mode to a configuration and `"refused"`, `"standard"`
or `"eventloop"`; `Connection`'s initial states are these outcomes, and those of a program that
embeds the server and calls `NewServer` itself, which drops the error of `ValidateAndFill`.
A handler's life is a sequence of phases; `leaving` and `closing` are the deferred calls, in their
order, so the count goes down before the socket is closed. A MIGRATE is a phase of its own
(`"migrating"`): `migrateKey` reads the target's answer without a deadline, and its handler reads
nothing of its own connection meanwhile. A replica's handler leaves when its connection ends and
also when the replica sends any byte (`replicaRead`). A command of a client that has gone may
still be read, and a write to it succeeds once (`Written`), as TCP has it. `proven` is a history:
the password was sent on this connection.

### Slot and Cluster

`crc16` follows the code bit by bit on uint16; the ASSUME `CRCCheckValue` compares it with the
published check value of this polynomial (0x1021, initial value 0: CRC-16/XMODEM; the comment at
`slot.go:3` says IBM/ANSI).

Two masters and a replica of the first, each with a slot table of its own. A SET is three critical
sections with other handlers' in between: `storeSet` (with the evictions it causes), `aofWrite` and
`broadcast`; `exec` holds the SETs between the first and the last. The handlers of an event loop
follow one another (`Free`). Any number of MIGRATEs of a node run beside each other up to the bound, one
in an event loop. `migrateKey` is
`migrateGet`, `migrateSend`, the target's `serveCall` with its SET, and `migrateDelete`; `Break` is a
connection that breaks before or after the target has executed the SET, in which case it may still be
executed later (`late`). A node in an event loop serves nothing while it waits. A restart brings back what
the AOF replays to, which includes migrated keys, since MIGRATE's deletion is not logged; the master's
or the replica's ends with a full synchronisation. The replica's client is a goroutine of its own and
applies the stream in either mode.

`spoiled` is a history of the keys that met one of the cases in which the code loses values: a MOVED
answer taken for success, a MIGRATE to the node itself, a SET or another MIGRATE of the key
between `store.Get` and `store.Delete`, a MIGRATE of a value that is no longer the newest, an
eviction, two SETs logged in the other order than they were stored. `NewestKept` says that there are no
others, for the newest value that was logged (`newest`). `astray` has, in the same way, the keys in
which the replica may differ: deleted by MIGRATE or evicted on either side, last broadcast with a value
that was no longer the master's, or not at the master at the last synchronisation; the next
broadcast of the master's value takes a key out again. The targets of MIGRATEs are nodes of the model: one
outside that never answers is in `EventLoop` (`Deaf`) and `Connection` (`"migrating"`).

## Runs

| Run (`.cfg`) | Checks | Instance |
|---|---|---|
| `fifo_ring` (`MCFifoRing`) | `NothingOverwritten`, `CapacityBounded`, refinement `RingImplementsQueue` | 4 keys with the empty string, initial capacity 2: the ring wraps, doubles twice and compacts, with tombstones copied by growth |
| `store` (`MCStore`) | `TypeOK`, `MemoryAccounting`, `FifoTracksNonTTL`, `LoopInv`, `HeapsTrackData`, `EvictionExhaustive`, `VictimIsColdest`, `OnlyDueKeysExpire` | 3 keys, all five policies, a limit that two short items fill and a long value exceeds alone, with and without TTL, a sample of 1 so that partial samples and the adaptive sweep occur, restarts without a snapshot |
| `store_reads` (`MCStoreReads`) | `GetLinearizable` | 2 keys of which one fits, 2 values, 2 readers beside Sets, Deletes, evictions and expirations |
| `store_restart` (`MCStoreRestart`) | `RestoredExactly`, `LockReleased`, `ExpiredEventuallyGone` | 2 keys, two kinds of eviction loop, snapshots and restarts at any time, with the same limit or a smaller one |
| `pubsub` (`MCPubSub`) | `NoSendOnClosed`, `InPublishOrder`, `ListedWhileOpen`, `ReceivedIsDelivered`, `PublishReturns` | 2 subscribers, 2 publishers with 2 and 1 messages, a buffer of 1 that overflows |
| `durability` (`MCDurability`) | `RecoversLogged`, `ReplayRestoresState` | 2 keys, 2 clients, 3 SETs, all fsync policies, SAVE, kills, power failures, failing writes and syncs, records torn in all five ways |
| `snapshot` (`MCSnapshot`) | `AloneIsAtomic`, `OverlapHeals`, `BgSaveEnds` | both commands without failures (3 versions of the store), each alone with I/O errors and crashes (3), both with I/O errors and crashes (1) |
| `replication` (`MCReplication`) | `OnlyMissedDiffer`, `NeverBackwards`, `StreamDrains`, `StaleUnregistered` | 2 keys, 2 clients, 2 SETs, 2 connections, a channel of 1 that overflows, a memory limit on both sides |
| `event_loop` (`MCEventLoop`) | `NoneForgotten`, `AnswersInOrder`, `ServedEventually`, `ClosedForCause` | 2 connections, 2 descriptors, both pollers, three kinds of authentication, a socket that takes one reply, reads of 3 units, 15 scripts |
| `connection` (`MCConnection`) | `SlotsExact`, `GateHolds`, `SlotReturned`, `SettingsHonoured` | 2 connections that are used again, 2 addresses, 16 starts of the server |
| `cluster` (`MCCluster`) | `NewestKept`, `ReplicaDiffers`, `MigrationEnds` | 2 masters and a replica, 1 key in its real slot (15495), 2 SETs, 2 MIGRATEs, 1 restart, 8 setups: equal, missing and one-sided slot tables, event loops, memory limits |
| `durability_order` (`MCDurabilityOrder`) | `RestoresState`, which TLC refutes | 2 clients, no failures; see [Findings](#findings) |

**Why the bounds are enough.** The store's keys interact through the sum of sizes, the order
of the FIFO and of the heaps: three keys give an evicted one, a kept one and one in between. The
limit of 210 bytes holds two short items and not three, and no long one; 140, to which
`store_restart` may lower it, holds one. Three accesses are
enough for a heap with a stale entry of one key, its current one and another key's, during an
eviction that the long value starts; `HeapsCorrect`, `EvictionCorrect` and `VictimCorrect` have no
such bound. Channels and buffers have capacity 1 instead of 100 and 1024 so that they overflow. One
pub/sub channel is enough, because channels share only the lock. In `durability` three SETs over
two keys give a torn record, the one it swallows and one more, or two that are logged in the other
order and one that follows. Two savers and three versions let a save be overtaken by an older and by a
newer one. With failures and overlap together one version is enough: what a save holds matters only to
`OverlapHeals`, which excepts failures, and `AloneIsAtomic`, which excepts overlap. In `replication`
two SETs of one key change places, or of two keys evict each other, over a session and the one after it.
In the event loop connections meet only through descriptors and the batch: a second client
without commands is enough to leave an event behind or to inherit a descriptor, and with both
open no descriptor is free. The scripts have a command in one piece and in
pieces, pipelined commands around an AUTH, wrong AUTHs, a null argument, each of the three lines the
parse loop does not get past, each error, both panics, and a MIGRATE that nobody answers. Clients
that have not reached the limit do not influence each other, so two connections and a limit of 1
show the count; the proof has no bound. Two MIGRATEs cross, repeat and go back, on one node or two. Keys meet only in an eviction, which in
this run can take only the key being set; that it takes others is in `replication` and in the proofs
of `ClusterProofs`, which have any number of keys, SETs and MIGRATEs.
Key permutations are a sound symmetry: no action names a key except the empty one, which
is kept out of the symmetry sets. Runs with liveness use no symmetry; `fifo_ring` may, because
`FifoQueue` is a safety specification that does not tell keys apart either.

**Fairness**, used only by the runs with `FairSpec`:
- a goroutine that holds a lock or has a runnable step keeps running (Go's scheduler is preemptive);
- the ticker of `activeExpirationLoop` keeps firing, and a Go mutex does not
  starve a waiter (starvation mode), so its critical section is weakly fair although others
  compete; `Unsubscribe` is strongly fair because a waiting writer of a Go `RWMutex` holds back new
  readers;
- TCP delivers what was written while the connection lasts;
- the event loop's goroutine keeps running (`WF` of the loop as a whole: it is sequential), but not
  while it executes a MIGRATE to a target that may never answer, itself for one;
- the handlers of the nodes of `Cluster` finish their SETs; what a goroutine-per-connection handler
  waits for outside the server, the answer to its MIGRATE, comes or not (`migrated` is not fair);
- what a client had sent before it went comes to an end, so its handler, if it reads on, reads the end of
  the connection (`SF` of `eof`);
- an event loop handles every connection that is ready in each of its rounds, so a MIGRATE that waits
  for it cannot be passed over for ever (`SF` of `serveCall`).

No client is assumed to read, to send or to leave. `ExpiredEventuallyGone` is checked with a
sample at least as large as the map: with more keys than `sampleSize` the code relies on the
randomness of Go's map order, which makes the property a matter of probability.

**Deadlock** is checked everywhere but in the runs `pubsub`, `replication`, `event_loop`, `connection`
and `cluster`, which may stop: clients may be gone for good or have sent everything, the process may
have ended in a panic, a refused start does nothing, and the bounds on SETs, connections and MIGRATEs
may be used up. That something which
waits goes on is what the liveness properties there say.

**Exceptions.** The code keeps some of its promises only but for certain cases, which the properties
name; without its exception TLC finds each of them violated.

| Property | Excepts |
|---|---|
| `RecoversLogged`, `ReplayRestoresState` | a file the start cannot read; keys whose record a torn one took, or that were logged out of order (`Sound`) |
| `AloneIsAtomic`, `OverlapHeals` | saves that overlap; overlapping ones that meet a failure |
| `OnlyMissedDiffer` | keys whose newest SET the session did not send last (`behind`), evicted keys |
| `NeverBackwards` | applying a SET that was broadcast late (`AppliesLate`), evictions |
| `NewestKept`, `ReplicaDiffers` | `spoiled`; `astray` and what the replica's table gives away |
| `MigrationEnds` | event loops that wait for each other |
| `ServedEventually` | lines the parse loop does not get past, a loop at a MIGRATE that may have no answer |
| `ClosedForCause` | a panic, whoever caused it; a kqueue event of the descriptor's earlier connection |
| `SlotReturned` | a subscription without messages, which does not notice that its client has gone; a MIGRATE that is never answered |

Under everysec and no, a power failure may also take back a value that a SAVE had put on disk, because
the AOF is replayed over the snapshot; the documentation describes that order
(`docs/features.md:114`).

The default policy (`noeviction`) is the store package's own default and what its tests
use; the server's `ValidateAndFill` turns it into `allkeys-random` (`SettingsHonoured`). The store is
checked and proved under every policy.

## Proofs

TLAPS proves every invariant, every action property and the refinement that the runs check, for every
value of the constants (sets of keys, clients, nodes, connections, scripts, starts; bounds on SETs,
restarts and the like; buffer sizes, policies and limits), from the named assumptions of the modules.
What is left to TLC alone is liveness.

| Theorem (module) | States |
|---|---|
| `TypeCorrect` (`StoreProofs`) | `Spec => []TypeOK` |
| `FifoCorrect` | `Spec => []FifoTracksNonTTL` |
| `LoopsCorrect` | `Spec => []LoopInv` |
| `MemoryCorrect` | `Spec => []MemoryAccounting` |
| `RestoreCorrect` | `Spec => RestoredExactly` |
| `ExpiryCorrect` | `Spec => OnlyDueKeysExpire` |
| `HeapsCorrect` | `Spec => []HeapsTrackData`, if the empty string is not a key |
| `EvictionCorrect` | `Spec => EvictionExhaustive`, under the same assumption |
| `VictimCorrect` | `Spec => VictimIsColdest`, under the same assumption |
| `ReadsCorrect` | `HSpec => GetLinearizable` |
| `RingSafe` | `RingSpec => []NothingOverwritten` |
| `RingRefines` | `RingSpec => RingImplementsQueue` |
| `RingBounded` | `RingSpec => []CapacityBounded`, if there are finitely many keys |
| `PublishIsSafe` (`PubSubProofs`) | `Spec => []NoSendOnClosed` |
| `SubscriptionIsListed` | `Spec => []ListedWhileOpen` |
| `OrderIsKept` | `Spec => []InPublishOrder` |
| `LoggedIsRecovered` (`DurabilityProofs`) | `Spec => []RecoversLogged` |
| `RestartIsExact` | `Spec => []ReplayRestoresState` |
| `SaveIsAtomic` (`SnapshotProofs`) | `Spec => []AloneIsAtomic` |
| `OverlapsHeal` | `Spec => []OverlapHeals` |
| `ReplicaConverges` (`ReplicationProofs`) | `Spec => []OnlyMissedDiffer` |
| `RepRises` | `Spec => NeverBackwards` |
| `NewestIsKept` (`ClusterProofs`) | `Spec => []NewestKept` |
| `ReplicaFollows` | `Spec => []ReplicaDiffers` |
| `GatesCorrect` (`ConnectionProofs`) | `Spec => []GateHolds` |
| `SlotsCorrect` | `Spec => []SlotsExact`, if the limit is an integer, as it is in Go |
| `SettingsCorrect` | `Spec => []SettingsHonoured` |
| `LoopKeepsConnections` | `LoopSpec => []NoneForgotten` |
| `AnswersCorrect` | `LoopSpec => []AnswersInOrder` |
| `ClosesForCause` | `LoopSpec => ClosedForCause` |

**Assumptions.** Most say no more than the type of a constant. The others:
- `ConnectionAssumption`: there are finitely many connections.
- `SnapshotAssumption`: there are finitely many savers and more inodes than savers, so that
  `os.Create` finds a free one. With fewer the model, not the code, would stop.
- The heap theorems exclude the empty key: `popLRU` returning it ends the eviction with keys left.
- `RingBounded` has finitely many keys as a hypothesis. The bound it proves is a function of their
  number; with infinitely many there is none, and the property says nothing.
- `ScriptAssumption`: the items of a script are what the parser makes of its stream. TLC evaluates it
  for the fifteen scripts of `MCEventLoop`, that is, it runs the parser on each of their prefixes. So
  `AnswersCorrect` is about the loop, for any stream that parses; that the parser itself does not
  depend on where a stream is cut is checked for those scripts.
- `StartsAssumption`: flags are the fields of a `Config`, and a line's value is one that the parser of
  its key can return. Nothing is assumed of the number of lines, their order or their validity.

**Store.** The inductive invariant is `TypeOK /\ FifoTracksNonTTL /\ LoopInv`.
`FifoTracksNonTTL` alone is inductive for Set, Delete and the evictions but for the restore loop, which
must never add a key that is already there. That is the first part of `LoopInv`: keys still in `todo`
are absent. `RestoredExactly` is its value at the end of the loop, where `todo` is empty. The second
part says that an eviction loop has passed over no key it should have evicted; with an
empty `todo` it gives `EvictionExhaustive` for the default and random policies. The third
part, that a pending `Get` has a time not ahead of the clock, gives `OnlyDueKeysExpire` for lazy
expiration: a key expired at the old time is expired now.
The heaps need the fourth part, that no version in a heap is ahead of `accessCounter`: a new access
ID then differs from every version there, so no stale entry becomes current
(`HeapsTrackData`). From that, an empty heap means an empty map (`EvictionExhaustive`), and the
minimum of the heap, when it is fresh, is no larger than the current entry of any key
(`VictimIsColdest`).
`MemoryAccounting` speaks of a sum over a set, which the community module defines by recursion. The
recursion has exactly one solution on the finite subsets of a finite set (`TableUnique`,
`TableExists`); so the sum changes by the size of one item when one key comes or goes (`BytesPut`,
`BytesDrop`). The invariant adds that the map is finite; the set of possible keys need not be.

For `GetLinearizable`, `ReadInv` says of every pending `Get` that its history has what its key shows
at this moment, and also the value of an item that has expired by now but not at the `Get`'s own,
older time. While a loop holds the lock that value may be one just set or restored; it is then
not expired at the present time either, which is what the history gets when the lock is released.

**The ring.** `RingOK` says that `fifoTail` is `fifoHead` plus the number of slots in use, modulo the
capacity, and that one slot is always free: from this `NothingOverwritten` follows. The refinement
needs that every operation of the ring does to `LiveQueue` what the abstract one does to its queue
(`HoldsAdd`, `HoldsRemove`, `HoldsPop`): a slot overwritten by a tombstone takes the first occurrence
of its key out, `ensureFIFOCap` keeps the window, and `compactIfNeeded` keeps what is left of it
without tombstones. With that, each action of `RingNext` is one of `FifoQueue` (`RingStep`).
`Packed` is defined by recursion; `Recursion` gives a function that satisfies its equations for
every sequence, and the rest is an induction over sequences by smallest counterexample.
`CapacityBounded` needs an account of the tombstones that `tombs` has forgotten. With d doublings
behind the ring, there is a number b of such entries: those not counted as tombstones are at most b
more than the keys (`Room`), and the capacity is 2(b + 2d) (`Spare`). The ring doubles when all slots but
one are in use, of which fewer than half are counted as tombstones (`FewOrNone`); that leaves at
least b + 2d + 1 entries, so 2d + 1 keys, and the one being added makes 2(d + 1) (`CapInv`).

**Publish/subscribe.** `ListedWhileOpen` is inductive once a subscription is known to have a channel
(`ClosedLast`). `NoSendOnClosed` needs `RestListed`: whatever a publisher still has ahead of it is in a
list, because nobody can leave one while a publisher holds the read lock, and what is listed is not
closed. The order of messages holds for delivered and buffered ones together, along with the
fact that they are older than what their publisher has yet to send there (`GotPast`).

**Durability.** Every logged SET is whole in the file, every durable one in the synced part of it
(`Kept`). Of a key that is neither spoilt nor overtaken the replay executes every whole record
and nothing else, and the last of them is the newest. While the server is up and no write has failed,
either the newest SET of such a key is yet to be logged, or memory is what a restart would recover
(`Current`); in the second case an older SET that is yet to be logged will come after the newest, which
makes the key an overtaken one. The snapshot may be ahead of the AOF or behind it: the replay takes
the snapshot's value only where the file has no record.

**Snapshot.** Two arguments side by side. Without overlap a saver owns the temporary file from
`os.Create` to `os.Rename`, and it is never the snapshot's inode (`Alone`). With overlap but without
failures, a named file that is not complete has a saver at work that will complete it (`Heals`).

**Replication.** What a session has yet to apply (the wire, then the channel) is, key by key, a
sequence that rises but for late commands (`Rising`) between the replica's value and the newest
(`Within`), and ends with the master's value, unless the newest SET is yet to be broadcast (`Pending`)
or the session is behind for the key (`InStep`). A master without the newest value of a key has evicted
it (`Stores`); a key the replica has evicted counts as up to date (`Value`). Handlers of broken
connections never reach the replica, because only the current session is open (`Sessions`).

**Cluster.** A value that a master holds in its store and its AOF (`Kept`) survives its restart, and
what would take it away spoils the key. `Held` says that the newest logged value is so kept somewhere. A
SET on its way between store and AOF has its value in the store, or a MIGRATE has moved it to a
node that keeps it (`Pending`); the handler of a MIGRATE's SET is followed from the store to the answer
(`Serving`), so that a MIGRATE about to delete has copied the value to a node that keeps it (`Copied`).
`Numbers` ties handlers and late SETs to their MIGRATEs. For the replica, the stream ends, key by
key, with the master's value, or a handler is still to send it (`InStep`, with `Ends` of
`SequenceProofs`).

**Connections.** `GateHolds` is not inductive: that a subscription or a command follows the gate
depends on what `authed` means. `GateInv` adds, for each connection, that a serving one has the password
set if authentication is on and is `authed` only if `proven`, and that one whose command loop has not
begun has had no effect, so that `Dial` may give it another address. For `SlotsExact` every step keeps
the set of holders, adds one (`Accept`, below the limit) or removes one (`countOff`), and the
cardinality follows (`HoldersStep`, `SlotStep`). `SettingsHonoured` speaks of lines of a file of any
length, which `LoadConfigFile` reads by a recursive function. It exists (`LoadsExist`), and after n lines
every setting is what the last of them that names it says, or else what the flags say; `auth` is true
if the last `seed` line comes after the last `auth` line (`LoadedAs`, kept from line to line by
`LoadedMore`). The last line of a key is unique (`LastLineIs`), so this is what was asked for, but for
the values that `ValidateAndFill` replaces (`FilledIn`).

**Event loops.** `NoneForgotten` is not inductive either: a reset socket keeps its buffer, and its
descriptor, until the loop gets to it. `LoopShape` says that writing is enabled for every connection
with replies left, open or not, and that a socket never holds more than it has room for, so that
`write` empties the buffer or leaves the interest on.
`AnswersInOrder` follows from an account of every unit of a stream (`Served`). If d replies have been
received or buffered, the first d items are commands and the replies are theirs; what the loop has read
ends at `got`; and its read buffer is exactly the stream from the end of item d to there. `authed` of an
open connection is what those d commands left (`Opened`). A round of the parse loop then sees a
prefix that starts with item d+1, and `ScriptAssumption` says what the parser makes of it
(`ParsedNext`, `ParseServed`).
An error or a panic of the parser is an item that the client has sent (`StumblesOver`). Beyond that,
`ClosedForCause` needs to know what waits in the batch (`EventsInv`): an event that says "close" is
about a connection whose client is gone for good; and under epoll, which reports one event with all
flags, a descriptor has at most one event among those waiting and the one being handled, so it still
belongs to the connection the event was about.

`SequenceProofs` has what these share: taking an element out of a sequence without duplicates, losing
elements from one whose order matters, cutting a sequence in two, the last position of a set. It also
replaces the induction that the provers cannot instantiate. `LeastNatural`: a set of numbers has a
least one, so the smallest counterexample has a predecessor that is none. `Recursion`: a step
function, given as data, has a function that follows it from any start; so the recursive functions
of `Packed`, `Doubled` and `LoadConfigFile` exist and satisfy their equations.

**Only model-checked**
- Liveness, out of the prover's reach: `LockReleased`, `ExpiredEventuallyGone`, `ReceivedIsDelivered`,
  `PublishReturns`, `BgSaveEnds`, `StreamDrains`, `StaleUnregistered`, `ServedEventually`,
  `SlotReturned`, `MigrationEnds`.
- The tables of the parser's behaviour (`ScriptAssumption`): that `ParseCommandFromBytes` gives the
  same commands however a stream is cut is evaluated for the scripts of the instance. The parser
  is a recursive function over the arguments of a command.
- `crc16` is a computation, evaluated for the slots used.

## Findings

`durability_order` is a run that TLC ends with a counterexample: two clients set one key, the store
applies them in one order and the AOF has them in the other, and the replay restores the older value,
although `server.go:187` says that it is "to restore state".

Other divergences met while modelling. The models behave as described; the properties that come near
name the case in their conditions or histories.

*Persistence and replication*
- A record cut inside an argument makes the next start fail (`aof.go:126` "reads all commands from the
  AOF file"). One cut after a length line is read as one with the beginning of the next record for its
  argument. With most lengths the start after that fails. With a length that ends at a line end of the
  next record (2: `*3`) it succeeds: a SET nobody sent is executed, and the next record, which may have
  been synced, is lost without an error (`parser.go:82-93`, `aof.go:138-151`).
- What the store evicts is neither logged nor broadcast (`server.go:632`): evicted keys are back after
  a restart and stay on the replicas.
- SETs of a key from two clients may be broadcast in the other order than they were applied
  (`server.go:599` after 632); the replica then keeps the older value until the next SET or connection.
- SAVE and BGSAVE share a temporary path: while they overlap the snapshot may be incomplete
  (`snapshot.go:16`; `snapshot.go:11` "atomically (temp + rename)"). Without a failure the file is
  whole again once all savers have returned (`OverlapHeals`).
- A SET between a replica's snapshot and its registration is in neither (`server.go:487`;
  `server.go:469` "a full snapshot then streams future write commands").

*Event loops*
- An empty line, `*0`, and an array element that does not begin with `$` are never consumed: the
  connection gets no further answer (`eventloop_linux.go:194`, `parser.go:159`). The other
  server skips empty commands.
- An array with a negative count, or with a length below -1, panics (`parser.go:157`, `parser.go:181`),
  which ends the process and closes every connection. `ParseCommand` of the other server and of
  the AOF's replay does the same (`parser.go:59`, `parser.go:82-89`).
- When the client closes its side, commands already received are discarded (`eventloop_linux.go:178`,
  `eventloop_darwin.go:132`); the other server executes them.
- kqueue asks for the password without `-auth` (`eventloop_darwin.go:174`; `README.md:37` "must be true
  to enforce password").
- A kqueue event that waits in the batch closes a connection that has inherited its descriptor.
- SUBSCRIBE, REPL and a second AUTH are unknown commands; `-maxclients`, the slot table and the
  heartbeat are ignored.

*Configuration*
- `-maxmemory-policy noeject` (`docs/features.md:20`) runs as `allkeys-random`, `-maxmemory 0` as 1 GB.

*Slots and migration*
- MIGRATE to a node whose table gives the slot elsewhere gets MOVED, sent as a bulk string, takes it
  for success and deletes the key (`server.go:375`, `migrate.go:35`). With the same table on
  every node this is every target but the node itself, and a MIGRATE to the node itself deletes
  the key as well.
- In an event loop MIGRATE blocks the loop; two loops that migrate to each other, or one to itself,
  never go on (`migrate.go:31` reads without a deadline). In the other server a MIGRATE that gets no
  answer keeps its handler, and so its place under `-maxclients`, also after its client has gone.
- Two MIGRATEs of a key that cross, or a SET between `store.Get` and `store.Delete`, lose the newest
  value (`migrate.go:39`).
- A migrated key stays on the replicas and is back on the source after a restart (`migrate.go:39`).
- A replica whose table has only its master's address applies nothing (`server.go:615`).

*Store, subscriptions, AOF*
- `tombs` counts the "tombstones to trigger compaction" (`store.go:85`), but `ensureFIFOCap` copies the
  tombstones and sets it to 0 (`store.go:533`), so a ring may hold more tombstones than keys and not
  be compacted. With six keys and an initial capacity of 4 this takes eleven calls.
- `evictLRU` and `evictLFU` take a popped empty key for an empty heap and stop above the limit
  (`store.go:305`); the model has this behaviour (`evictPopped`).
- `RestoreSnapshot` does not evict, so a restart with a smaller `-maxmemory` serves above it until
  the next SET (`store.go:181`).
- The adaptive sweep does not count what it deletes (`store.go:233`), although `expiredCount` is the
  "number of keys expired lazily/actively" (`store.go:89`).
- The subscription loop notices that its client is gone only when it writes to it, although
  it "blocks until the client disconnects" (`server.go:437`).
- A SET is answered OK although `aof.Write` failed (`server.go:636`; `docs/features.md:115` "flush on
  every write").

## What is not modelled

- TLS and metrics: library calls and a handler that reads counters. The command-line client: input
  and output only. None has state that another part depends on.
- Commands that only read and format: PING, INFO, CLUSTER, and the text of replies but for the type
  MIGRATE looks at.
- Descriptors of other goroutines (files, the replica client's socket) in an event-loop process: a
  stale kqueue event could close one of them; the model's descriptors are the clients'.
- The growth of a write buffer, and of a read buffer without a line end, in the event loop: no bound
  exists in the code or the documents.
- The growth of the LRU and LFU heaps (an entry per access) is in the model, but no property
  speaks of it, because nothing in the repository bounds it.
- Inline commands over 8 KB, and the end of the process by a panic in `Connection` (there, as in the
  event loops, it takes every handler with it; that a client can cause it is in `EventLoop`).
- Targets of MIGRATEs outside the nodes of `Cluster`.
- The race on `replicaMode` (read and written without a lock): the model reads it atomically. A
  Boolean read racily is the old or the new value on the platforms Go supports, which is what the
  interleaving gives.

## Plan

1. *Done:* `Store` with `Fifo`, `FifoRing` refining `FifoQueue`, `StoreReads`; `PubSub`;
   `Durability`; `Snapshot`; `Replication`; `Protocol` with `EventLoop`; `Config` with `Connection`;
   `Slot` with `Cluster`; the store's safety theorems; the gates and the limit of `Connection`.
2. *Done:* the safety theorems of `PubSub`, `Durability`, `Snapshot`, `Replication`, `Cluster` and
   `EventLoop`, of the ring with its refinement, of `GetLinearizable` and of the settings.
3. Left: `ScriptAssumption` as a theorem about the parser, by recursion over the units as for
   `Packed`; several replicas; a snapshot taken apart in `Durability`.
