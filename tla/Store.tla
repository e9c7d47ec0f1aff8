-------------------------------- MODULE Store --------------------------------
(***************************************************************************)
(* The in-memory store of pkg/store/store.go: the map of items, the memory *)
(* accounting, the eviction policies, lazy and active expiration, and the  *)
(* snapshot of the map with its restoration at start-up.                   *)
(*                                                                         *)
(* One action is one critical section of s.mu or, where the code loops     *)
(* while it holds s.mu, one iteration of the loop: mu tells which loop     *)
(* holds the lock, and no other critical section runs until it is "free".  *)
(* A Get is three actions, because the code reads the clock before it      *)
(* takes the lock and takes the lock twice.                                *)
(*                                                                         *)
(* The clock stands still while a loop holds the lock: every critical      *)
(* section reads it once, and a Get that reads it meanwhile may as well    *)
(* read it after the loop.  The FIFO of non-TTL keys is the sequence of    *)
(* module Fifo, which FifoRing shows the ring buffer to implement.  Item's *)
(* Type field is left out: every item of the program is a string.          *)
(***************************************************************************)
EXTENDS Integers, Fifo, FiniteSets

CONSTANTS
  Values,       \* the values clients store
  KeyLen,       \* length of a key in bytes
  ValueLen,     \* length of a value in bytes
  TTLs,         \* the TTLs Set is called with, 0 for none
  Clients,      \* goroutines that may be inside Get at the same time
  Policies,     \* eviction policies the server may be started with
  MaxMemories,  \* memory limits the server may be started with
  SampleSize,   \* keys activeExpire samples (20 in the code)
  RDBConfigured, \* whether the server saves snapshots (an RDB path is set)
  NoItem,       \* an absent map entry
  MaxClock,     \* bound on the clock
  MaxAccess     \* bound on accessCounter

AllPolicies == {"noeviction", "allkeys-random", "volatile-random",
                "allkeys-lru", "allkeys-lfu"}

VARIABLES
  data,            \* s.data
  usedMemory,
  fifo,            \* the ring buffer of non-TTL keys, as a sequence
  expiredCount,
  accessCounter,
  lruHeap,
  lfuHeap,
  evictionPolicy,
  maxMemory,
  clock,           \* time.Now()
  mu,              \* which loop holds s.mu, "free" if none does
  todo,            \* keys a range over s.data has yet to visit
  sampled,         \* activeExpire's count
  expired,         \* activeExpire's expired
  get,             \* the Get each client is in
  snapshot         \* the entries last taken by SnapshotEntries

mapVars  == <<data, usedMemory, fifo>>
heapVars == <<accessCounter, lruHeap, lfuHeap>>
confVars == <<evictionPolicy, maxMemory>>
loopVars == <<mu, todo, sampled, expired>>
vars == <<mapVars, expiredCount, heapVars, confVars, clock, loopVars, get, snapshot>>

Item == [value : Values, expiresAt : Nat, size : Nat,
         freq : Nat, lastAccess : Nat, accessID : Nat]
Entry == [value : Values, expiresAt : Nat]
LruEntry == [key : Keys, ts : Nat, version : Nat]
LfuEntry == [key : Keys, freq : Nat, ts : Nat, version : Nat]
Idle == [phase |-> "idle", key |-> EmptyKey, now |-> 0]

ASSUME StoreAssumption ==
  /\ KeyLen \in [Keys -> Nat]
  /\ ValueLen \in [Values -> Nat]
  /\ TTLs \subseteq Nat
  /\ Policies \subseteq AllPolicies
  /\ MaxMemories \subseteq Int
  /\ SampleSize \in Nat
  /\ RDBConfigured \in BOOLEAN
  /\ NoItem \notin Item \union Entry
-----------------------------------------------------------------------------
Live(d) == {k \in Keys : d[k] # NoItem}
HasTTL(item) == item # NoItem /\ item.expiresAt > 0
NonTTL(item) == item # NoItem /\ item.expiresAt = 0
\* Mutant: a key is gone at its expiry time instead of after it.
IsExpiredEarly(item, now) == item.expiresAt > 0 /\ now >= item.expiresAt

IsExpired(item, now) == item.expiresAt > 0 /\ now > item.expiresAt

estimateItemSize(k, v) == KeyLen[k] + ValueLen[v] + 100

\* Mutant: the operands of the time arithmetic are swapped.
expiryOfSwapped(ttl) == IF ttl > 0 THEN ttl - clock ELSE 0

\* setUnlocked's expiry time.
expiryOf(ttl) == IF ttl > 0 THEN clock + ttl ELSE 0

\* Mutant: the expiry time of a restored entry is taken for a TTL.
NewItemRelative(k, v, expiresAt) ==
  [value |-> v, expiresAt |-> IF expiresAt > 0 THEN clock + expiresAt ELSE 0,
   size |-> estimateItemSize(k, v),
   freq |-> 1, lastAccess |-> clock, accessID |-> accessCounter + 1]

NewItem(k, v, expiresAt) ==
  [value |-> v, expiresAt |-> expiresAt, size |-> estimateItemSize(k, v),
   freq |-> 1, lastAccess |-> clock, accessID |-> accessCounter + 1]

lruEntry(k, item) == [key |-> k, ts |-> item.lastAccess, version |-> item.accessID]
lfuEntry(k, item) ==
  [key |-> k, freq |-> item.freq, ts |-> item.lastAccess, version |-> item.accessID]

\* nextAccessID and pushHeaps for an item that carries the next access ID.
pushHeaps(k, item) ==
  /\ accessCounter' = item.accessID
  /\ lruHeap' = lruHeap \union {lruEntry(k, item)}
  /\ lfuHeap' = lfuHeap \union {lfuEntry(k, item)}

\* Mutant: the size of the deleted item is not given back.
deleteKeyLeaks(k, q) ==
  IF data[k] = NoItem
  THEN fifo' = q /\ UNCHANGED <<data, usedMemory>>
  ELSE /\ usedMemory' = usedMemory
       /\ fifo' = IF data[k].expiresAt = 0 THEN removeFIFO(q, k) ELSE q
       /\ data' = [data EXCEPT ![k] = NoItem]

\* Mutant: the key stays in the FIFO.
deleteKeyKeepsFIFO(k, q) ==
  /\ fifo' = q
  /\ IF data[k] = NoItem
     THEN UNCHANGED <<data, usedMemory>>
     ELSE /\ usedMemory' = usedMemory - data[k].size
          /\ data' = [data EXCEPT ![k] = NoItem]

\* q is the FIFO as the caller has left it.
deleteKeyUnlocked(k, q) ==
  IF data[k] = NoItem
  THEN fifo' = q /\ UNCHANGED <<data, usedMemory>>
  ELSE /\ usedMemory' = usedMemory - data[k].size
       /\ fifo' = IF data[k].expiresAt = 0 THEN removeFIFO(q, k) ELSE q
       /\ data' = [data EXCEPT ![k] = NoItem]

OverLimit == maxMemory > 0 /\ usedMemory > maxMemory
-----------------------------------------------------------------------------
Init ==
  /\ data = [k \in Keys |-> NoItem]
  /\ usedMemory = 0
  /\ fifo = <<>>
  /\ expiredCount = 0
  /\ accessCounter = 0
  /\ lruHeap = {}
  /\ lfuHeap = {}
  /\ evictionPolicy \in Policies
  /\ maxMemory \in MaxMemories
  /\ clock = 1
  /\ mu = "free"
  /\ todo = {}
  /\ sampled = 0
  /\ expired = 0
  /\ get = [c \in Clients |-> Idle]
  /\ snapshot = [k \in Keys |-> NoItem]

Tick ==
  /\ mu = "free"
  /\ clock < MaxClock
  /\ clock' = clock + 1
  /\ UNCHANGED <<mapVars, expiredCount, heapVars, confVars, loopVars, get, snapshot>>
-----------------------------------------------------------------------------
(* Set *)

\* Mutant: the loop ranges over the map as it was before the Set.
evictIfNeededStale ==
  IF maxMemory > 0 /\ usedMemory' > maxMemory
  THEN mu' = "evict" /\ todo' = Live(data)
  ELSE UNCHANGED <<mu, todo>>

\* evictIfNeeded is entered with the lock held; its loops are the actions below.
evictIfNeeded ==
  IF maxMemory > 0 /\ usedMemory' > maxMemory
  THEN mu' = "evict" /\ todo' = Live(data')
  ELSE UNCHANGED <<mu, todo>>

\* Set, with the whole of setUnlocked up to evictIfNeeded's loops.
Set(k, v, ttl) ==
  LET old  == data[k]
      item == NewItem(k, v, expiryOf(ttl))
      q    == IF NonTTL(old) THEN removeFIFO(fifo, k) ELSE fifo
  IN  /\ mu = "free"
      /\ accessCounter < MaxAccess
      /\ data' = [data EXCEPT ![k] = item]
      /\ usedMemory' = usedMemory - (IF old = NoItem THEN 0 ELSE old.size) + item.size
      /\ fifo' = IF ttl = 0 THEN addFIFO(q, k) ELSE removeFIFO(q, k)
      /\ pushHeaps(k, item)
      /\ evictIfNeeded
      /\ UNCHANGED <<expiredCount, confVars, clock, sampled, expired, get, snapshot>>

EvictFrame ==
  UNCHANGED <<expiredCount, accessCounter, confVars, clock, sampled, expired, get, snapshot>>

\* Default policy, first loop: pop the oldest non-TTL key.
evictFIFO ==
  /\ mu = "evict"
  /\ evictionPolicy = "noeviction"
  /\ OverLimit
  /\ fifo # <<>>
  /\ deleteKeyUnlocked(Head(fifo), Tail(fifo))
  /\ UNCHANGED <<lruHeap, lfuHeap, mu, todo>>
  /\ EvictFrame

\* Default policy, second loop: with the FIFO empty, visit a key and evict it if it has a TTL.
evictTTL(k) ==
  /\ mu = "evict"
  /\ evictionPolicy = "noeviction"
  /\ OverLimit
  /\ fifo = <<>>
  /\ k \in todo \intersect Live(data)
  /\ todo' = todo \ {k}
  /\ IF HasTTL(data[k]) THEN deleteKeyUnlocked(k, fifo) ELSE UNCHANGED mapVars
  /\ UNCHANGED <<lruHeap, lfuHeap, mu>>
  /\ EvictFrame

\* Mutant: a key passed over is visited again.
evictRandomAgain(k) ==
  /\ mu = "evict"
  /\ evictionPolicy \in {"allkeys-random", "volatile-random"}
  /\ OverLimit
  /\ k \in todo \intersect Live(data)
  /\ IF evictionPolicy = "volatile-random" /\ data[k].expiresAt = 0
     THEN UNCHANGED <<mapVars, todo>>
     ELSE todo' = todo \ {k} /\ deleteKeyUnlocked(k, fifo)
  /\ UNCHANGED <<lruHeap, lfuHeap, mu>>
  /\ EvictFrame

\* evictRandom visits the map in any order; volatile-random passes over non-TTL keys.
evictRandom(k) ==
  /\ mu = "evict"
  /\ evictionPolicy \in {"allkeys-random", "volatile-random"}
  /\ OverLimit
  /\ k \in todo \intersect Live(data)
  /\ todo' = todo \ {k}
  /\ IF evictionPolicy = "volatile-random" /\ data[k].expiresAt = 0
     THEN UNCHANGED mapVars
     ELSE deleteKeyUnlocked(k, fifo)
  /\ UNCHANGED <<lruHeap, lfuHeap, mu>>
  /\ EvictFrame

\* Mutant: the version of a popped entry is not looked at.
FreshIfLive(e) == data[e.key] # NoItem

\* popLRU and popLFU skip an entry whose key is gone or was accessed since.
Fresh(e) == data[e.key] # NoItem /\ data[e.key].accessID = e.version

\* Mutant: a stale entry ends the eviction.
evictPoppedGivesUp(e) ==
  IF ~Fresh(e) \/ e.key = EmptyKey
  THEN mu' = "free" /\ todo' = {} /\ UNCHANGED mapVars
  ELSE deleteKeyUnlocked(e.key, fifo) /\ UNCHANGED <<mu, todo>>

\* What evictLRU and evictLFU do with one popped entry; a popped empty key
\* is taken for an empty heap.
evictPopped(e) ==
  IF ~Fresh(e)
  THEN UNCHANGED <<mapVars, mu, todo>>
  ELSE IF e.key = EmptyKey
  THEN mu' = "free" /\ todo' = {} /\ UNCHANGED mapVars
  ELSE deleteKeyUnlocked(e.key, fifo) /\ UNCHANGED <<mu, todo>>

\* heap.Pop takes an entry no other entry is Less than.
lruLess(e, f) == e.ts < f.ts
lfuLess(e, f) == IF e.freq = f.freq THEN e.ts < f.ts ELSE e.freq < f.freq

evictLRU(e) ==
  /\ mu = "evict"
  /\ evictionPolicy = "allkeys-lru"
  /\ OverLimit
  /\ e \in lruHeap
  /\ \A f \in lruHeap : ~lruLess(f, e)
  /\ lruHeap' = lruHeap \ {e}
  /\ evictPopped(e)
  /\ UNCHANGED lfuHeap
  /\ EvictFrame

evictLFU(e) ==
  /\ mu = "evict"
  /\ evictionPolicy = "allkeys-lfu"
  /\ OverLimit
  /\ e \in lfuHeap
  /\ \A f \in lfuHeap : ~lfuLess(f, e)
  /\ lfuHeap' = lfuHeap \ {e}
  /\ evictPopped(e)
  /\ UNCHANGED lruHeap
  /\ EvictFrame

\* A policy has run out of candidates.
NoCandidate ==
  CASE evictionPolicy = "allkeys-lru" -> lruHeap = {}
    [] evictionPolicy = "allkeys-lfu" -> lfuHeap = {}
    [] evictionPolicy = "noeviction"  -> fifo = <<>> /\ todo \intersect Live(data) = {}
    [] OTHER                          -> todo \intersect Live(data) = {}

\* evictIfNeeded returns and Set releases the lock.
evictReturn ==
  /\ mu = "evict"
  /\ ~OverLimit \/ NoCandidate
  /\ mu' = "free"
  /\ todo' = {}
  /\ UNCHANGED <<mapVars, lruHeap, lfuHeap>>
  /\ EvictFrame
-----------------------------------------------------------------------------
(* Get and Delete *)

GetFrame == UNCHANGED <<confVars, clock, loopVars, snapshot>>

\* Get reads the clock before it takes any lock.
GetCall(c, k) ==
  /\ get[c] = Idle
  /\ get' = [get EXCEPT ![c] = [phase |-> "rlock", key |-> k, now |-> clock]]
  /\ UNCHANGED <<mapVars, expiredCount, heapVars>>
  /\ GetFrame

\* getWithNow looks the key up under the read lock.
GetRLock(c) ==
  /\ get[c].phase = "rlock"
  /\ mu = "free"
  /\ get' = [get EXCEPT ![c] = IF data[@.key] = NoItem THEN Idle
                               ELSE [@ EXCEPT !.phase = "lock"]]
  /\ UNCHANGED <<mapVars, expiredCount, heapVars>>
  /\ GetFrame

\* getWithNow under the write lock: the key is gone, expired, or found.
GetMiss(c) ==
  /\ get[c].phase = "lock"
  /\ mu = "free"
  /\ data[get[c].key] = NoItem
  /\ get' = [get EXCEPT ![c] = Idle]
  /\ UNCHANGED <<mapVars, expiredCount, heapVars>>
  /\ GetFrame

GetExpired(c) ==
  /\ get[c].phase = "lock"
  /\ mu = "free"
  /\ data[get[c].key] # NoItem
  /\ IsExpired(data[get[c].key], get[c].now)
  /\ deleteKeyUnlocked(get[c].key, fifo)
  /\ expiredCount' = expiredCount + 1
  /\ get' = [get EXCEPT ![c] = Idle]
  /\ UNCHANGED heapVars
  /\ GetFrame

\* Mutant: a hit does not take a new access ID.
touchSameID(item, now) == [item EXCEPT !.lastAccess = now, !.freq = @ + 1]

\* A hit refreshes the access statistics and pushes new heap entries.
touch(item, now) ==
  [item EXCEPT !.lastAccess = now, !.accessID = accessCounter + 1, !.freq = @ + 1]

GetHit(c) ==
  LET k    == get[c].key
      item == touch(data[k], get[c].now)
  IN  /\ get[c].phase = "lock"
      /\ mu = "free"
      /\ accessCounter < MaxAccess
      /\ data[k] # NoItem
      /\ ~IsExpired(data[k], get[c].now)
      /\ data' = [data EXCEPT ![k] = item]
      /\ pushHeaps(k, item)
      /\ get' = [get EXCEPT ![c] = Idle]
      /\ UNCHANGED <<usedMemory, fifo, expiredCount>>
      /\ GetFrame

Delete(k) ==
  /\ mu = "free"
  /\ deleteKeyUnlocked(k, fifo)
  /\ UNCHANGED <<expiredCount, heapVars, get>>
  /\ GetFrame
-----------------------------------------------------------------------------
(* Active expiration *)

ExpireFrame == UNCHANGED <<heapVars, confVars, clock, get, snapshot>>

\* Mutant: the ticker does nothing until there are enough keys for a sample.
activeExpireFullSample ==
  /\ mu = "free"
  /\ Cardinality(Live(data)) >= SampleSize
  /\ mu' = "sample"
  /\ todo' = Live(data)
  /\ UNCHANGED <<mapVars, expiredCount, sampled, expired>>
  /\ ExpireFrame

\* The ticker fires; activeExpire takes the lock unless the map is empty.
activeExpire ==
  /\ mu = "free"
  /\ Live(data) # {}
  /\ mu' = "sample"
  /\ todo' = Live(data)
  /\ UNCHANGED <<mapVars, expiredCount, sampled, expired>>
  /\ ExpireFrame

sampleVisit(k) ==
  /\ mu = "sample"
  /\ sampled < SampleSize
  /\ k \in todo
  /\ todo' = todo \ {k}
  /\ sampled' = sampled + 1
  /\ IF IsExpired(data[k], clock)
     THEN /\ deleteKeyUnlocked(k, fifo)
          /\ expiredCount' = expiredCount + 1
          /\ expired' = expired + 1
     ELSE UNCHANGED <<mapVars, expiredCount, expired>>
  /\ UNCHANGED mu
  /\ ExpireFrame

\* More than half of a full sample was expired: range over the whole map.
sampleDone ==
  /\ mu = "sample"
  /\ sampled >= SampleSize \/ todo = {}
  /\ IF expired > SampleSize \div 2
     THEN mu' = "sweep" /\ todo' = Live(data)
     ELSE mu' = "free" /\ todo' = {}
  /\ sampled' = 0
  /\ expired' = 0
  /\ UNCHANGED <<mapVars, expiredCount>>
  /\ ExpireFrame

\* The extra pass deletes without counting.
sweepVisit(k) ==
  /\ mu = "sweep"
  /\ k \in todo
  /\ todo' = todo \ {k}
  /\ IF IsExpired(data[k], clock) THEN deleteKeyUnlocked(k, fifo) ELSE UNCHANGED mapVars
  /\ UNCHANGED <<expiredCount, mu, sampled, expired>>
  /\ ExpireFrame

sweepDone ==
  /\ mu = "sweep"
  /\ todo = {}
  /\ mu' = "free"
  /\ UNCHANGED <<mapVars, expiredCount, todo, sampled, expired>>
  /\ ExpireFrame
-----------------------------------------------------------------------------
(* Snapshots *)

SnapshotEntries ==
  /\ RDBConfigured
  /\ mu = "free"
  /\ snapshot' = [k \in Keys |->
       IF data[k] = NoItem \/ IsExpired(data[k], clock) THEN NoItem
       ELSE [value |-> data[k].value, expiresAt |-> data[k].expiresAt]]
  /\ UNCHANGED <<mapVars, expiredCount, heapVars, confVars, clock, loopVars, get>>

\* The server is started again, perhaps with another policy or limit: New,
\* then RestoreSnapshot takes the lock and resets the map.  The old process
\* may die at any time; dying inside a critical section leaves no more
\* behind than dying before it, because nothing but the snapshot survives.
Restart(policy, limit) ==
  /\ mu = "free"
  /\ data' = [k \in Keys |-> NoItem]
  /\ usedMemory' = 0
  /\ fifo' = <<>>
  /\ expiredCount' = 0
  /\ accessCounter' = 0
  /\ lruHeap' = {}
  /\ lfuHeap' = {}
  /\ evictionPolicy' = policy
  /\ maxMemory' = limit
  /\ mu' = "restore"
  /\ todo' = Live(snapshot)
  /\ get' = [c \in Clients |-> Idle]
  /\ UNCHANGED <<clock, sampled, expired, snapshot>>

\* One entry: entries expired in the meantime are skipped, the limit is not looked at.
restoreEntry(k) ==
  LET entry == snapshot[k]
      item  == NewItem(k, entry.value, entry.expiresAt)
  IN  /\ mu = "restore"
      /\ k \in todo
      /\ todo' = todo \ {k}
      /\ IF IsExpired(entry, clock)
         THEN UNCHANGED <<mapVars, heapVars>>
         ELSE /\ data' = [data EXCEPT ![k] = item]
              /\ usedMemory' = usedMemory + item.size
              /\ fifo' = IF item.expiresAt = 0 THEN addFIFO(fifo, k) ELSE fifo
              /\ pushHeaps(k, item)
      /\ UNCHANGED <<expiredCount, confVars, clock, mu, sampled, expired, get, snapshot>>

restoreDone ==
  /\ mu = "restore"
  /\ todo = {}
  /\ mu' = "free"
  /\ UNCHANGED <<mapVars, expiredCount, heapVars, confVars, clock, todo, sampled, expired,
                 get, snapshot>>
-----------------------------------------------------------------------------
Evict ==
  \/ evictFIFO
  \/ \E k \in Keys : evictTTL(k) \/ evictRandom(k)
  \/ \E e \in lruHeap : evictLRU(e)
  \/ \E e \in lfuHeap : evictLFU(e)
  \/ evictReturn

Expire ==
  \/ \E k \in Keys : sampleVisit(k) \/ sweepVisit(k)
  \/ sampleDone
  \/ sweepDone

Restore == restoreDone \/ \E k \in Keys : restoreEntry(k)

Get(c) ==
  \/ \E k \in Keys : GetCall(c, k)
  \/ GetRLock(c)
  \/ GetMiss(c)
  \/ GetExpired(c)
  \/ GetHit(c)

Next ==
  \/ \E k \in Keys, v \in Values, ttl \in TTLs : Set(k, v, ttl)
  \/ \E c \in Clients : Get(c)
  \/ \E k \in Keys : Delete(k)
  \/ Evict
  \/ activeExpire
  \/ Expire
  \/ SnapshotEntries
  \/ \E p \in Policies, m \in MaxMemories : Restart(p, m)
  \/ Restore
  \/ Tick

Spec == Init /\ [][Next]_vars

\* The goroutine that holds s.mu keeps running, and the ticker of
\* activeExpirationLoop keeps firing; a Go mutex does not starve it.
Fairness == WF_vars(Evict) /\ WF_vars(Expire) /\ WF_vars(Restore) /\ WF_vars(activeExpire)

FairSpec == Spec /\ Fairness
-----------------------------------------------------------------------------
TypeOK ==
  /\ data \in [Keys -> Item \union {NoItem}]
  /\ usedMemory \in Int
  /\ fifo \in Seq(Keys)
  /\ expiredCount \in Nat
  /\ accessCounter \in Nat
  /\ lruHeap \in SUBSET LruEntry
  /\ lfuHeap \in SUBSET LfuEntry
  /\ evictionPolicy \in Policies
  /\ maxMemory \in MaxMemories
  /\ clock \in Nat
  /\ mu \in {"free", "evict", "sample", "sweep", "restore"}
  /\ todo \in SUBSET Keys
  /\ sampled \in Nat
  /\ expired \in Nat
  /\ get \in [Clients -> {Idle} \union [phase : {"rlock", "lock"}, key : Keys, now : Nat]]
  /\ snapshot \in [Keys -> Entry \union {NoItem}]

\* usedMemory, which every eviction decision and INFO's memory_used rely
\* on, is the sum of the sizes of the items in the map, however the keys
\* were overwritten, evicted, expired, deleted or restored.
MemoryAccounting ==
  usedMemory = MapThenSumSet(LAMBDA k : data[k].size, Live(data))

\* The FIFO holds each non-TTL key of the map exactly once and no other
\* key: a key missing from it could never be evicted, a stale or doubled
\* one would be evicted out of turn.
FifoTracksNonTTL ==
  /\ IsInjective(fifo)
  /\ ToSet(fifo) = {k \in Keys \ {EmptyKey} : NonTTL(data[k])}

\* Both heaps hold the current entry of every key of the map, so that
\* popLRU and popLFU can find it; every other entry of the key is stale, and
\* no stale entry passes for the current one.
HeapsTrackData ==
  /\ \A k \in Live(data) :
       lruEntry(k, data[k]) \in lruHeap /\ lfuEntry(k, data[k]) \in lfuHeap
  /\ \A e \in lruHeap : Fresh(e) => e = lruEntry(e.key, data[e.key])
  /\ \A e \in lfuHeap : Fresh(e) => e = lfuEntry(e.key, data[e.key])

\* What a key of the snapshot has become once RestoreSnapshot is past it.
Restored(k) ==
  IF snapshot[k] = NoItem \/ IsExpired(snapshot[k], clock)
  THEN data[k] = NoItem
  ELSE /\ data[k] # NoItem
       /\ data[k].value = snapshot[k].value
       /\ data[k].expiresAt = snapshot[k].expiresAt

\* What holds in the middle of the store's loops and of a Get: the restore
\* loop is exact up to the keys still to come; the eviction loops have
\* passed over no key they should have evicted; no pending Get has a time
\* ahead of the clock; and access IDs are handed out in order, so that a new
\* one differs from every version in the heaps.
LoopInv ==
  /\ mu = "restore" =>
       \A k \in Keys : IF k \in todo THEN snapshot[k] # NoItem /\ data[k] = NoItem
                                     ELSE Restored(k)
  /\ mu = "evict" =>
       \A k \in Live(data) \ todo : NonTTL(data[k]) /\ evictionPolicy # "allkeys-random"
  /\ \A c \in Clients : get[c].now <= clock
  /\ \A e \in lruHeap \union lfuHeap : e.version <= accessCounter

\* A key the policy may evict.
Evictable(k) ==
  evictionPolicy = "volatile-random" => HasTTL(data[k])

\* evictIfNeeded gives up only when the limit is honoured or no key the
\* policy may evict is left: no key hides from it because of a stale FIFO,
\* a lost heap entry or a deletion during the range over the map.
EvictionExhaustive ==
  [][mu = "evict" /\ mu' = "free" =>
       ~OverLimit \/ \A k \in Live(data) : ~Evictable(k)]_vars

EvictedBy(policy, k) ==
  evictionPolicy = policy /\ mu = "evict" /\ data[k] # NoItem /\ data'[k] = NoItem

\* A key evicted by allkeys-lru was accessed least recently of all keys, one
\* by allkeys-lfu least often, and the default policy evicts a key with TTL
\* only when no other key is left; concurrent Gets that read the clock
\* before the lock do not confuse the heaps.
VictimIsColdest ==
  [][\A k \in Keys, j \in Live(data) :
       /\ EvictedBy("allkeys-lru", k) => data[k].lastAccess <= data[j].lastAccess
       /\ EvictedBy("allkeys-lfu", k) =>
            \/ data[k].freq < data[j].freq
            \/ data[k].freq = data[j].freq /\ data[k].lastAccess <= data[j].lastAccess
       /\ EvictedBy("noeviction", k) /\ HasTTL(data[k]) => HasTTL(data[j])]_vars

\* A key taken away by an expiration, lazy or active, was past its TTL at
\* that moment, although Get decides with a time it read before the lock.
OnlyDueKeysExpire ==
  [][mu = "sweep" \/ expiredCount' > expiredCount =>
       \A k \in Keys : data[k] # NoItem /\ data'[k] = NoItem =>
         data[k].expiresAt > 0 /\ clock > data[k].expiresAt]_vars

\* After a restart the map holds what the snapshot held, with the same
\* expiry times, less what has expired since.
RestoredExactly ==
  [][mu = "restore" /\ mu' = "free" => \A k \in Keys : Restored(k)]_vars

\* Every loop under the lock ends: s.mu is always released again.
LockReleased == mu # "free" ~> mu = "free"

\* A key past its TTL that nobody reads does not stay in the map for ever.
ExpiredEventuallyGone ==
  \A k \in Keys :
    (data[k] # NoItem /\ IsExpired(data[k], clock)) ~>
    ~(data[k] # NoItem /\ IsExpired(data[k], clock))
=============================================================================
