----------------------------- MODULE StoreProofs -----------------------------
(***************************************************************************)
(* Proofs about Store for every set of keys, values and clients, every     *)
(* memory limit and every eviction policy; about what Gets may answer      *)
(* (StoreReads); and about the ring buffer the store's FIFO stands for     *)
(* (FifoRing), for every set of keys and every initial capacity.           *)
(***************************************************************************)
EXTENDS StoreReads, FifoRing, SequenceProofs, FiniteSetTheorems

\* The inductive invariant.
IInv == TypeOK /\ FifoTracksNonTTL /\ LoopInv
-----------------------------------------------------------------------------
(* Lemmas about the helpers of the store *)

\* removeFIFOUnlocked takes the key out of a queue without duplicates and
\* leaves every other key in it.
LEMMA RemoveFIFOProperties ==
  ASSUME NEW S, NEW q \in Seq(S), IsInjective(q), NEW x
  PROVE  /\ removeFIFO(q, x) \in Seq(S)
         /\ IsInjective(removeFIFO(q, x))
         /\ ToSet(removeFIFO(q, x)) = ToSet(q) \ {x}
BY RemoveFirstProperties DEF removeFIFO

\* addFIFOUnlocked of a key not yet in the queue; the empty string is a
\* tombstone and not added.
LEMMA AddFIFOProperties ==
  ASSUME NEW S, NEW q \in Seq(S), IsInjective(q), NEW x \in S, x \notin ToSet(q)
  PROVE  /\ addFIFO(q, x) \in Seq(S)
         /\ IsInjective(addFIFO(q, x))
         /\ ToSet(addFIFO(q, x)) = IF x = EmptyKey THEN ToSet(q) ELSE ToSet(q) \union {x}
BY AppendUniqueProperties, ZenonT(40) DEF addFIFO

\* setUnlocked and RestoreSnapshot build well-formed items that carry the
\* next access ID.
LEMMA NewItemType ==
  ASSUME TypeOK, NEW k \in Keys, NEW v \in Values, NEW e \in Nat
  PROVE  /\ NewItem(k, v, e) \in Item
         /\ NewItem(k, v, e) # NoItem
         /\ NewItem(k, v, e).expiresAt = e
         /\ NewItem(k, v, e).value = v
         /\ NewItem(k, v, e).accessID = accessCounter + 1
BY StoreAssumption DEF TypeOK, NewItem, Item, estimateItemSize

\* A Get that hits leaves a well-formed item with the same expiry time and
\* the next access ID.
LEMMA TouchType ==
  ASSUME TypeOK, NEW item \in Item, NEW now \in Nat
  PROVE  /\ touch(item, now) \in Item
         /\ touch(item, now) # NoItem
         /\ touch(item, now).expiresAt = item.expiresAt
         /\ touch(item, now).accessID = accessCounter + 1
<1> DEFINE r1 == [item EXCEPT !.lastAccess = now]
           r2 == [r1 EXCEPT !.accessID = accessCounter + 1]
           r3 == [r2 EXCEPT !.freq = item.freq + 1]
<1>1. accessCounter \in Nat /\ item.freq \in Nat
  BY DEF TypeOK, Item
<1>2. touch(item, now) = r3
  BY DEF touch
<1>3. r1 \in Item
  BY DEF Item
<1> HIDE DEF r1
<1>4. r2 \in Item
  BY <1>1, <1>3 DEF Item
<1> HIDE DEF r2
<1>5. r3 \in Item
  BY <1>1, <1>4 DEF Item
<1>6. /\ touch(item, now).expiresAt = item.expiresAt
      /\ touch(item, now).accessID = accessCounter + 1
  BY DEF touch, Item
<1> QED BY <1>2, <1>5, <1>6, StoreAssumption

\* deleteKeyUnlocked takes the key out of the map and out of the FIFO, and
\* touches no other key.
LEMMA DeleteLemma ==
  ASSUME TypeOK, FifoTracksNonTTL, NEW k \in Keys, deleteKeyUnlocked(k, fifo)
  PROVE  /\ data' = [data EXCEPT ![k] = NoItem]
         /\ data' \in [Keys -> Item \union {NoItem}]
         /\ usedMemory' \in Int
         /\ fifo' \in Seq(Keys)
         /\ FifoTracksNonTTL'
<1>1. CASE data[k] = NoItem
  BY <1>1 DEF TypeOK, FifoTracksNonTTL, deleteKeyUnlocked, NonTTL
<1>2. CASE data[k] # NoItem
  <2>1. data[k] \in Item
    BY <1>2 DEF TypeOK
  <2>2. /\ data' = [data EXCEPT ![k] = NoItem]
        /\ usedMemory' = usedMemory - data[k].size
        /\ fifo' = IF data[k].expiresAt = 0 THEN removeFIFO(fifo, k) ELSE fifo
    BY <1>2 DEF deleteKeyUnlocked
  <2>3. /\ removeFIFO(fifo, k) \in Seq(Keys)
        /\ IsInjective(removeFIFO(fifo, k))
        /\ ToSet(removeFIFO(fifo, k)) = ToSet(fifo) \ {k}
    BY RemoveFIFOProperties DEF TypeOK, FifoTracksNonTTL
  <2>4. usedMemory' \in Int
    BY <2>1, <2>2 DEF TypeOK, Item
  <2>5. fifo' \in Seq(Keys) /\ IsInjective(fifo')
    BY <2>2, <2>3 DEF TypeOK, FifoTracksNonTTL
  <2>6. ToSet(fifo') = ToSet(fifo) \ {k}
    BY <1>2, <2>2, <2>3 DEF FifoTracksNonTTL, NonTTL
  <2>7. ToSet(fifo') = {j \in Keys \ {EmptyKey} : NonTTL(data'[j])}
    BY <2>2, <2>6 DEF FifoTracksNonTTL, TypeOK, NonTTL
  <2> QED BY <2>2, <2>4, <2>5, <2>7 DEF TypeOK, FifoTracksNonTTL
<1> QED BY <1>1, <1>2

\* A round of FIFO eviction: the popped key is in the map, so popping and
\* deleting it keeps map and FIFO in step.
LEMMA PopLemma ==
  ASSUME TypeOK, FifoTracksNonTTL, fifo # <<>>,
         deleteKeyUnlocked(Head(fifo), Tail(fifo))
  PROVE  /\ Head(fifo) \in Keys
         /\ data' = [data EXCEPT ![Head(fifo)] = NoItem]
         /\ data' \in [Keys -> Item \union {NoItem}]
         /\ usedMemory' \in Int
         /\ fifo' \in Seq(Keys)
         /\ FifoTracksNonTTL'
<1> DEFINE k == Head(fifo)
           q == Tail(fifo)
<1>1. /\ k \in ToSet(fifo)
      /\ q \in Seq(Keys)
      /\ IsInjective(q)
      /\ ToSet(q) = ToSet(fifo) \ {k}
  BY TailProperties DEF TypeOK, FifoTracksNonTTL
<1>2. k \in Keys /\ NonTTL(data[k])
  BY <1>1 DEF FifoTracksNonTTL
<1>3. data[k] \in Item
  BY <1>2 DEF TypeOK, NonTTL
<1> HIDE DEF k, q
<1>4. deleteKeyUnlocked(k, q)
  BY DEF k, q
<1>5. /\ data' = [data EXCEPT ![k] = NoItem]
      /\ usedMemory' = usedMemory - data[k].size
      /\ fifo' = removeFIFO(q, k)
  BY <1>2, <1>4 DEF deleteKeyUnlocked, NonTTL
<1>6. /\ fifo' \in Seq(Keys)
      /\ IsInjective(fifo')
      /\ ToSet(fifo') = ToSet(fifo) \ {k}
  BY <1>1, <1>5, RemoveFIFOProperties
<1>7. ToSet(fifo') = {j \in Keys \ {EmptyKey} : NonTTL(data'[j])}
  BY <1>2, <1>5, <1>6 DEF FifoTracksNonTTL, TypeOK, NonTTL
<1>8. usedMemory' \in Int
  BY <1>3, <1>5 DEF TypeOK, Item
<1> QED BY <1>2, <1>5, <1>6, <1>7, <1>8 DEF FifoTracksNonTTL, TypeOK, k

\* pushHeaps hands out the next access ID, and no version in a heap is
\* ahead of the counter.
LEMMA PushLemma ==
  ASSUME TypeOK, LoopInv, NEW k \in Keys, NEW item \in Item,
         item.accessID = accessCounter + 1, pushHeaps(k, item)
  PROVE  /\ accessCounter' = accessCounter + 1
         /\ accessCounter' \in Nat
         /\ lruHeap' \in SUBSET LruEntry
         /\ lfuHeap' \in SUBSET LfuEntry
         /\ \A e \in lruHeap' \union lfuHeap' : e.version <= accessCounter'
<1>1. accessCounter \in Nat /\ accessCounter' = accessCounter + 1
  BY DEF TypeOK, pushHeaps
<1>2. lruEntry(k, item) \in LruEntry /\ lruEntry(k, item).version = accessCounter + 1
  BY DEF lruEntry, LruEntry, Item
<1>3. lfuEntry(k, item) \in LfuEntry /\ lfuEntry(k, item).version = accessCounter + 1
  BY DEF lfuEntry, LfuEntry, Item
<1>4. lruHeap' = lruHeap \union {lruEntry(k, item)} /\ lfuHeap' = lfuHeap \union {lfuEntry(k, item)}
  BY DEF pushHeaps
<1>5. \A e \in lruHeap \union lfuHeap : e.version \in Nat /\ e.version <= accessCounter
  BY DEF TypeOK, LoopInv, LruEntry, LfuEntry
<1> QED BY <1>1, <1>2, <1>3, <1>4, <1>5 DEF TypeOK

\* A deletion under the lock leaves Get times and versions alone.
LEMMA UntouchedLemma ==
  ASSUME LoopInv, UNCHANGED <<get, clock, accessCounter>>,
         lruHeap' \subseteq lruHeap, lfuHeap' \subseteq lfuHeap
  PROVE  /\ \A c \in Clients : get'[c].now <= clock'
         /\ \A e \in lruHeap' \union lfuHeap' : e.version <= accessCounter'
BY DEF LoopInv
-----------------------------------------------------------------------------
(* Every step preserves the invariant *)

\* A new store satisfies the invariant.
LEMMA InitInv == Init => IInv
<1> SUFFICES ASSUME Init PROVE IInv
  OBVIOUS
<1>1. TypeOK
  BY StoreAssumption DEF Init, TypeOK
<1>2. FifoTracksNonTTL
  BY DEF Init, FifoTracksNonTTL, NonTTL, IsInjective, ToSet
<1>3. LoopInv
  BY DEF Init, LoopInv, Idle
<1> QED BY <1>1, <1>2, <1>3 DEF IInv

\* Time passing only moves the clock further ahead of the pending Gets.
LEMMA TickInv == ASSUME IInv, Tick PROVE IInv'
<1> USE DEF IInv, Tick, mapVars, heapVars, confVars, loopVars
<1>1. TypeOK'
  BY DEF TypeOK
<1>2. FifoTracksNonTTL'
  BY DEF FifoTracksNonTTL, NonTTL
<1>3. LoopInv'
  <2>1. \A c \in Clients : get[c].now \in Nat
    BY DEF TypeOK, Idle
  <2> QED BY <2>1 DEF LoopInv, TypeOK
<1> QED BY <1>1, <1>2, <1>3

\* Set replaces an item, moves its key in the FIFO and may enter the
\* eviction loops with every key still to be visited.
LEMMA SetInv ==
  ASSUME IInv, NEW k \in Keys, NEW v \in Values, NEW ttl \in TTLs, Set(k, v, ttl)
  PROVE  IInv'
<1> DEFINE item == NewItem(k, v, expiryOf(ttl))
           q    == IF NonTTL(data[k]) THEN removeFIFO(fifo, k) ELSE fifo
<1>0. TypeOK /\ FifoTracksNonTTL /\ LoopInv
  BY DEF IInv
<1>1. /\ mu = "free"
      /\ data' = [data EXCEPT ![k] = item]
      /\ usedMemory' = usedMemory - (IF data[k] = NoItem THEN 0 ELSE data[k].size) + item.size
      /\ fifo' = IF ttl = 0 THEN addFIFO(q, k) ELSE removeFIFO(q, k)
      /\ pushHeaps(k, item)
      /\ evictIfNeeded
      /\ UNCHANGED <<expiredCount, evictionPolicy, maxMemory, clock, sampled, expired, get, snapshot>>
  BY DEF Set, confVars
<1>2. expiryOf(ttl) \in Nat /\ (ttl = 0 <=> expiryOf(ttl) = 0)
  BY <1>0, StoreAssumption DEF expiryOf, TypeOK
<1>3. item \in Item /\ item # NoItem /\ item.expiresAt = expiryOf(ttl)
      /\ item.accessID = accessCounter + 1
  BY <1>0, <1>2, NewItemType
<1> HIDE DEF item, q
<1>4. q \in Seq(Keys) /\ IsInjective(q) /\ ToSet(q) = ToSet(fifo) \ {k}
  <2>1. CASE NonTTL(data[k])
    BY <1>0, <2>1, RemoveFIFOProperties DEF q, TypeOK, FifoTracksNonTTL
  <2>2. CASE ~NonTTL(data[k])
    BY <1>0, <2>2 DEF q, TypeOK, FifoTracksNonTTL
  <2> QED BY <2>1, <2>2
<1>5. /\ fifo' \in Seq(Keys)
      /\ IsInjective(fifo')
      /\ ToSet(fifo') = IF ttl = 0 /\ k # EmptyKey THEN ToSet(q) \union {k} ELSE ToSet(q)
  <2>1. CASE ttl = 0
    BY <1>1, <1>4, <2>1, AddFIFOProperties
  <2>2. CASE ttl # 0
    BY <1>1, <1>4, <2>2, RemoveFIFOProperties
  <2> QED BY <2>1, <2>2
<1>6. FifoTracksNonTTL'
  <2>1. \A j \in Keys : NonTTL(data'[j]) <=> IF j = k THEN ttl = 0 ELSE NonTTL(data[j])
    BY <1>0, <1>1, <1>2, <1>3 DEF TypeOK, NonTTL
  <2>2. ToSet(fifo') = {j \in Keys \ {EmptyKey} : NonTTL(data'[j])}
    BY <1>0, <1>4, <1>5, <2>1 DEF FifoTracksNonTTL
  <2> QED BY <1>5, <2>2 DEF FifoTracksNonTTL
<1>7. /\ accessCounter' \in Nat
      /\ lruHeap' \in SUBSET LruEntry
      /\ lfuHeap' \in SUBSET LfuEntry
      /\ \A e \in lruHeap' \union lfuHeap' : e.version <= accessCounter'
  BY <1>0, <1>1, <1>3, PushLemma
<1>8. /\ mu' \in {"free", "evict"}
      /\ todo' \in SUBSET Keys
      /\ mu' = "evict" => todo' = Live(data')
  BY <1>0, <1>1 DEF evictIfNeeded, Live, TypeOK
<1>9. TypeOK'
  <2>1. data' \in [Keys -> Item \union {NoItem}]
    BY <1>0, <1>1, <1>3 DEF TypeOK
  <2>2. usedMemory' \in Int
    <3>1. data[k] # NoItem => data[k].size \in Int
      BY <1>0 DEF TypeOK, Item
    <3>2. item.size \in Int
      BY <1>3 DEF Item
    <3> QED BY <1>0, <1>1, <3>1, <3>2 DEF TypeOK
  <2> QED BY <1>0, <1>1, <1>5, <1>7, <1>8, <2>1, <2>2 DEF TypeOK
<1>10. LoopInv'
  BY <1>0, <1>1, <1>7, <1>8 DEF LoopInv
<1> QED BY <1>6, <1>9, <1>10 DEF IInv

\* The part of the proof the eviction steps share: they change the map by
\* deleting at most one key, and only shrink the heaps.
LEMMA EvictStepInv ==
  ASSUME IInv, mu = "evict", EvictFrame,
         data' \in [Keys -> Item \union {NoItem}],
         \A j \in Keys : data'[j] # NoItem => data'[j] = data[j],
         usedMemory' \in Int, fifo' \in Seq(Keys), FifoTracksNonTTL',
         lruHeap' \subseteq lruHeap, lfuHeap' \subseteq lfuHeap,
         mu' \in {"evict", "free"}, todo' \in SUBSET Keys,
         mu' = "evict" =>
           \A j \in Live(data') \ todo' :
             j \in todo => NonTTL(data[j]) /\ evictionPolicy # "allkeys-random"
  PROVE  IInv'
<1> USE DEF EvictFrame, confVars
<1>1. TypeOK'
  BY DEF IInv, TypeOK
<1>2. /\ \A c \in Clients : get'[c].now <= clock'
      /\ \A e \in lruHeap' \union lfuHeap' : e.version <= accessCounter'
  BY UntouchedLemma DEF IInv
<1>3. ASSUME mu' = "evict", NEW j \in Live(data') \ todo'
      PROVE  NonTTL(data'[j]) /\ evictionPolicy' # "allkeys-random"
  BY <1>3 DEF IInv, LoopInv, Live
<1>4. LoopInv'
  BY <1>2, <1>3 DEF LoopInv
<1> QED BY <1>1, <1>4 DEF IInv

\* Each iteration of the eviction loops.
LEMMA EvictInv == ASSUME IInv, Evict PROVE IInv'
<1>0. TypeOK /\ FifoTracksNonTTL /\ LoopInv
  BY DEF IInv
<1>1. CASE evictFIFO
  <2>1. /\ mu = "evict" /\ fifo # <<>> /\ EvictFrame
        /\ deleteKeyUnlocked(Head(fifo), Tail(fifo))
        /\ UNCHANGED <<lruHeap, lfuHeap, mu, todo>>
    BY <1>1 DEF evictFIFO
  <2>2. /\ Head(fifo) \in Keys
        /\ data' = [data EXCEPT ![Head(fifo)] = NoItem]
        /\ data' \in [Keys -> Item \union {NoItem}]
        /\ usedMemory' \in Int
        /\ fifo' \in Seq(Keys)
        /\ FifoTracksNonTTL'
    BY <1>0, <2>1, PopLemma
  <2>3. \A j \in Keys : data'[j] # NoItem => data'[j] = data[j]
    BY <1>0, <2>2 DEF TypeOK
  <2> QED BY <1>0, <2>1, <2>2, <2>3, EvictStepInv DEF TypeOK
<1>2. ASSUME NEW k \in Keys, evictTTL(k) \/ evictRandom(k)
      PROVE  IInv'
  <2>1. /\ mu = "evict" /\ EvictFrame
        /\ todo' = todo \ {k}
        /\ UNCHANGED <<lruHeap, lfuHeap, mu>>
    BY <1>2 DEF evictTTL, evictRandom
  <2>2. \/ UNCHANGED mapVars /\ k \in Live(data) /\ ~HasTTL(data[k])
             /\ evictionPolicy # "allkeys-random"
        \/ deleteKeyUnlocked(k, fifo)
    BY <1>0, <1>2 DEF evictTTL, evictRandom, HasTTL, TypeOK, Live, Item
  <2>3. CASE UNCHANGED mapVars /\ k \in Live(data) /\ ~HasTTL(data[k])
             /\ evictionPolicy # "allkeys-random"
    <3>1. NonTTL(data[k])
      BY <1>0, <2>3 DEF HasTTL, NonTTL, Live, TypeOK, Item
    <3>2. FifoTracksNonTTL'
      BY <1>0, <2>3 DEF FifoTracksNonTTL, mapVars, NonTTL
    <3> QED BY <1>0, <2>1, <2>3, <3>1, <3>2, EvictStepInv DEF TypeOK, mapVars
  <2>4. CASE deleteKeyUnlocked(k, fifo)
    <3>1. /\ data' = [data EXCEPT ![k] = NoItem]
          /\ data' \in [Keys -> Item \union {NoItem}]
          /\ usedMemory' \in Int
          /\ fifo' \in Seq(Keys)
          /\ FifoTracksNonTTL'
      BY <1>0, <2>4, DeleteLemma
    <3>2. \A j \in Keys : data'[j] # NoItem => j # k /\ data'[j] = data[j]
      BY <1>0, <3>1 DEF TypeOK
    <3> QED BY <1>0, <2>1, <3>1, <3>2, EvictStepInv DEF TypeOK, Live
  <2> QED BY <2>2, <2>3, <2>4
<1>3. ASSUME NEW e, e.key \in Keys, mu = "evict", EvictFrame, evictPopped(e),
             lruHeap' \subseteq lruHeap, lfuHeap' \subseteq lfuHeap
      PROVE  IInv'
  <2>1. CASE UNCHANGED mapVars
    <3>1. FifoTracksNonTTL'
      BY <1>0, <2>1 DEF FifoTracksNonTTL, mapVars, NonTTL
    <3>2. mu' \in {"evict", "free"} /\ todo' \in SUBSET Keys /\ (mu' = "evict" => todo' = todo)
      BY <1>0, <1>3 DEF evictPopped, TypeOK
    <3> QED BY <1>0, <1>3, <2>1, <3>1, <3>2, EvictStepInv DEF TypeOK, mapVars
  <2>2. CASE deleteKeyUnlocked(e.key, fifo) /\ UNCHANGED <<mu, todo>>
    <3>1. /\ data' = [data EXCEPT ![e.key] = NoItem]
          /\ data' \in [Keys -> Item \union {NoItem}]
          /\ usedMemory' \in Int
          /\ fifo' \in Seq(Keys)
          /\ FifoTracksNonTTL'
      BY <1>0, <1>3, <2>2, DeleteLemma
    <3>2. \A j \in Keys : data'[j] # NoItem => data'[j] = data[j]
      BY <1>0, <3>1 DEF TypeOK
    <3> QED BY <1>0, <1>3, <2>2, <3>1, <3>2, EvictStepInv DEF TypeOK
  <2> QED BY <1>3, <2>1, <2>2 DEF evictPopped
<1>4. ASSUME NEW e \in lruHeap, evictLRU(e)
      PROVE  IInv'
  <2>1. e.key \in Keys
    BY <1>0 DEF TypeOK, LruEntry
  <2> QED BY <1>3, <1>4, <2>1 DEF evictLRU
<1>5. ASSUME NEW e \in lfuHeap, evictLFU(e)
      PROVE  IInv'
  <2>1. e.key \in Keys
    BY <1>0 DEF TypeOK, LfuEntry
  <2> QED BY <1>3, <1>5, <2>1 DEF evictLFU
<1>6. CASE evictReturn
  <2>1. FifoTracksNonTTL'
    BY <1>0, <1>6 DEF evictReturn, FifoTracksNonTTL, mapVars, NonTTL
  <2> QED BY <1>0, <1>6, <2>1, EvictStepInv DEF evictReturn, TypeOK, mapVars
<1> QED BY <1>1, <1>2, <1>4, <1>5, <1>6 DEF Evict

\* The three critical sections of a Get.
LEMMA GetInv == ASSUME IInv, NEW c \in Clients, Get(c) PROVE IInv'
<1>0. TypeOK /\ FifoTracksNonTTL /\ LoopInv
  BY DEF IInv
<1>1. get[c] # Idle => get[c].key \in Keys /\ get[c].now \in Nat
  BY <1>0 DEF TypeOK
<1>2. Idle.phase = "idle" /\ Idle.now = 0
  BY DEF Idle
<1>3. ASSUME UNCHANGED <<mapVars, expiredCount, heapVars>>, GetFrame,
             get' \in [Clients -> {Idle} \union [phase : {"rlock", "lock"}, key : Keys, now : Nat]],
             \A d \in Clients : get'[d].now <= clock
      PROVE  IInv'
  <2> USE DEF mapVars, heapVars, GetFrame, confVars, loopVars
  <2>1. TypeOK'
    BY <1>0, <1>3 DEF TypeOK
  <2>2. FifoTracksNonTTL'
    BY <1>0, <1>3 DEF FifoTracksNonTTL, NonTTL
  <2>3. LoopInv'
    BY <1>0, <1>3 DEF LoopInv, Restored, Live
  <2> QED BY <2>1, <2>2, <2>3 DEF IInv
<1>4. ASSUME NEW k \in Keys, GetCall(c, k) PROVE IInv'
  BY <1>0, <1>3, <1>4 DEF GetCall, TypeOK, LoopInv
<1>5. CASE GetRLock(c)
  <2>1. get[c] # Idle
    BY <1>2, <1>5 DEF GetRLock
  <2>2. get[c] \in [phase : {"rlock", "lock"}, key : Keys, now : Nat]
    BY <1>0, <2>1 DEF TypeOK
  <2>3. get' = [get EXCEPT ![c] = IF data[get[c].key] = NoItem THEN Idle
                                  ELSE [get[c] EXCEPT !.phase = "lock"]]
    BY <1>5 DEF GetRLock
  <2>4. /\ [get[c] EXCEPT !.phase = "lock"] \in [phase : {"rlock", "lock"}, key : Keys, now : Nat]
        /\ [get[c] EXCEPT !.phase = "lock"].now = get[c].now
    BY <2>2
  <2>5. get' \in [Clients -> {Idle} \union [phase : {"rlock", "lock"}, key : Keys, now : Nat]]
    BY <1>0, <2>3, <2>4 DEF TypeOK
  <2>6. \A d \in Clients : get'[d].now <= clock
    BY <1>0, <1>2, <2>3, <2>4 DEF TypeOK, LoopInv
  <2> QED BY <1>3, <1>5, <2>5, <2>6 DEF GetRLock
<1>6. CASE GetMiss(c)
  <2>1. \A d \in Clients : get'[d].now <= clock
    BY <1>0, <1>2, <1>6 DEF GetMiss, TypeOK, LoopInv
  <2> QED BY <1>0, <1>3, <1>6, <2>1 DEF GetMiss, TypeOK
<1>7. CASE GetExpired(c)
  <2> DEFINE k == get[c].key
  <2>1. k \in Keys
    BY <1>1, <1>2, <1>7 DEF GetExpired
  <2>2. /\ data' \in [Keys -> Item \union {NoItem}]
        /\ usedMemory' \in Int
        /\ fifo' \in Seq(Keys)
        /\ FifoTracksNonTTL'
    BY <1>0, <1>7, <2>1, DeleteLemma DEF GetExpired
  <2>3. TypeOK'
    BY <1>0, <1>7, <2>2 DEF GetExpired, GetFrame, TypeOK, heapVars, confVars, loopVars
  <2>4. \A d \in Clients : get'[d].now <= clock'
    BY <1>0, <1>2, <1>7 DEF GetExpired, GetFrame, TypeOK, LoopInv
  <2>5. LoopInv'
    BY <1>0, <1>7, <2>4 DEF GetExpired, GetFrame, LoopInv, heapVars, loopVars
  <2> QED BY <2>2, <2>3, <2>5 DEF IInv
<1>8. CASE GetHit(c)
  <2> DEFINE k == get[c].key
             item == touch(data[k], get[c].now)
  <2>1. k \in Keys /\ get[c].now \in Nat
    BY <1>1, <1>2, <1>8 DEF GetHit
  <2>2. data[k] \in Item
    BY <1>0, <1>8, <2>1 DEF GetHit, TypeOK
  <2>3. /\ item \in Item
        /\ item # NoItem
        /\ item.expiresAt = data[k].expiresAt
        /\ item.accessID = accessCounter + 1
    BY <1>0, <2>1, <2>2, TouchType
  <2>4. /\ mu = "free"
        /\ data[k] # NoItem
        /\ data' = [data EXCEPT ![k] = item]
        /\ pushHeaps(k, item)
        /\ get' = [get EXCEPT ![c] = Idle]
        /\ UNCHANGED <<usedMemory, fifo, expiredCount>>
        /\ GetFrame
    BY <1>8 DEF GetHit
  <2> HIDE DEF k, item
  <2>5. /\ accessCounter' \in Nat
        /\ lruHeap' \in SUBSET LruEntry
        /\ lfuHeap' \in SUBSET LfuEntry
        /\ \A e \in lruHeap' \union lfuHeap' : e.version <= accessCounter'
    BY <1>0, <2>1, <2>3, <2>4, PushLemma
  <2>6. data' \in [Keys -> Item \union {NoItem}]
    BY <1>0, <2>3, <2>4 DEF TypeOK
  <2>7. TypeOK'
    BY <1>0, <2>4, <2>5, <2>6 DEF GetFrame, TypeOK, confVars, loopVars
  <2>8. \A j \in Keys : NonTTL(data'[j]) <=> NonTTL(data[j])
    BY <1>0, <2>3, <2>4 DEF NonTTL, TypeOK
  <2>9. FifoTracksNonTTL'
    BY <1>0, <2>4, <2>8 DEF FifoTracksNonTTL
  <2>10. \A d \in Clients : get'[d].now <= clock'
    BY <1>0, <1>2, <2>4 DEF GetFrame, TypeOK, LoopInv
  <2>11. LoopInv'
    BY <2>4, <2>5, <2>10 DEF GetFrame, LoopInv, loopVars
  <2> QED BY <2>7, <2>9, <2>11 DEF IInv
<1> QED BY <1>4, <1>5, <1>6, <1>7, <1>8 DEF Get

\* Delete.
LEMMA DeleteInv == ASSUME IInv, NEW k \in Keys, Delete(k) PROVE IInv'
<1>1. /\ data' \in [Keys -> Item \union {NoItem}]
      /\ usedMemory' \in Int
      /\ fifo' \in Seq(Keys)
      /\ FifoTracksNonTTL'
  BY DeleteLemma DEF Delete, IInv
<1>2. TypeOK'
  BY <1>1 DEF IInv, Delete, GetFrame, TypeOK, heapVars, confVars, loopVars
<1>3. LoopInv'
  BY DEF IInv, Delete, GetFrame, LoopInv, heapVars, loopVars
<1> QED BY <1>1, <1>2, <1>3 DEF IInv

\* activeExpire and its two passes over the map.
LEMMA ExpireInv == ASSUME IInv, activeExpire \/ Expire PROVE IInv'
<1>0. TypeOK /\ FifoTracksNonTTL /\ LoopInv
  BY DEF IInv
<1>1. ASSUME ExpireFrame, mu' \in {"free", "sample", "sweep"},
             todo' \in SUBSET Keys, sampled' \in Nat, expired' \in Nat, expiredCount' \in Nat,
             UNCHANGED mapVars \/ \E k \in Keys : deleteKeyUnlocked(k, fifo)
      PROVE  IInv'
  <2>1. /\ data' \in [Keys -> Item \union {NoItem}]
        /\ usedMemory' \in Int
        /\ fifo' \in Seq(Keys)
        /\ FifoTracksNonTTL'
    <3>1. CASE UNCHANGED mapVars
      BY <1>0, <3>1 DEF TypeOK, FifoTracksNonTTL, NonTTL, mapVars
    <3>2. CASE \E k \in Keys : deleteKeyUnlocked(k, fifo)
      BY <1>0, <3>2, DeleteLemma
    <3> QED BY <1>1, <3>1, <3>2
  <2>2. TypeOK'
    BY <1>0, <1>1, <2>1 DEF ExpireFrame, TypeOK, heapVars, confVars
  <2>3. LoopInv'
    BY <1>0, <1>1 DEF ExpireFrame, LoopInv, heapVars
  <2> QED BY <2>1, <2>2, <2>3 DEF IInv
<1>2. CASE activeExpire
  BY <1>0, <1>1, <1>2 DEF activeExpire, TypeOK, Live
<1>3. ASSUME NEW k \in Keys, sampleVisit(k) PROVE IInv'
  BY <1>0, <1>1, <1>3 DEF sampleVisit, TypeOK
<1>4. ASSUME NEW k \in Keys, sweepVisit(k) PROVE IInv'
  BY <1>0, <1>1, <1>4 DEF sweepVisit, TypeOK
<1>5. CASE sampleDone
  BY <1>0, <1>1, <1>5 DEF sampleDone, TypeOK, Live
<1>6. CASE sweepDone
  BY <1>0, <1>1, <1>6 DEF sweepDone, TypeOK
<1> QED BY <1>2, <1>3, <1>4, <1>5, <1>6 DEF Expire

\* SnapshotEntries only reads the map.
LEMMA SnapshotInv == ASSUME IInv, SnapshotEntries PROVE IInv'
<1> USE DEF SnapshotEntries, mapVars, heapVars, confVars, loopVars
<1>1. snapshot' \in [Keys -> Entry \union {NoItem}]
  <2>1. ASSUME NEW k \in Keys, data[k] # NoItem
        PROVE  [value |-> data[k].value, expiresAt |-> data[k].expiresAt] \in Entry
    BY <2>1 DEF IInv, TypeOK, Item, Entry
  <2> QED BY <2>1
<1>2. TypeOK'
  BY <1>1 DEF IInv, TypeOK
<1>3. FifoTracksNonTTL'
  BY DEF IInv, FifoTracksNonTTL, NonTTL
<1>4. LoopInv'
  BY DEF IInv, LoopInv
<1> QED BY <1>2, <1>3, <1>4 DEF IInv

\* A restart enters the restore loop with an empty map and every entry to
\* come.
LEMMA RestartInv ==
  ASSUME IInv, NEW policy \in Policies, NEW limit \in MaxMemories, Restart(policy, limit)
  PROVE  IInv'
<1> USE DEF Restart
<1>1. TypeOK'
  BY DEF IInv, TypeOK, Live
<1>2. FifoTracksNonTTL'
  BY DEF FifoTracksNonTTL, NonTTL, IsInjective, ToSet
<1>3. \A k \in Keys : k \notin todo' => Restored(k)'
  BY DEF Restored, Live
<1>4. LoopInv'
  <2>1. clock \in Nat
    BY DEF IInv, TypeOK
  <2> QED BY <1>3, <2>1 DEF LoopInv, Live, Idle
<1> QED BY <1>1, <1>2, <1>4 DEF IInv

\* RestoreSnapshot handles one entry: it restores it exactly or skips it,
\* and adds a key to the FIFO that was not in it.
LEMMA RestoreEntryInv ==
  ASSUME IInv, NEW k \in Keys, restoreEntry(k)
  PROVE  IInv'
<1> DEFINE entry == snapshot[k]
           item  == NewItem(k, entry.value, entry.expiresAt)
<1>0. TypeOK /\ FifoTracksNonTTL /\ LoopInv
  BY DEF IInv
<1>1. /\ mu = "restore"
      /\ k \in todo
      /\ todo' = todo \ {k}
      /\ UNCHANGED <<expiredCount, evictionPolicy, maxMemory, clock, mu, sampled, expired, get,
                     snapshot>>
  BY DEF restoreEntry, confVars
<1>2. entry \in Entry /\ entry # NoItem /\ data[k] = NoItem
  BY <1>0, <1>1 DEF TypeOK, LoopInv
<1>3. \A c \in Clients : get'[c].now <= clock'
  BY <1>0, <1>1 DEF LoopInv
<1>4. CASE IsExpired(entry, clock)
  <2>1. UNCHANGED <<mapVars, heapVars>>
    BY <1>4 DEF restoreEntry
  <2>2. TypeOK'
    BY <1>0, <1>1, <2>1 DEF TypeOK, mapVars, heapVars
  <2>3. FifoTracksNonTTL'
    BY <1>0, <2>1 DEF FifoTracksNonTTL, NonTTL, mapVars
  <2>4. Restored(k)'
    BY <1>1, <1>2, <1>4, <2>1 DEF Restored, IsExpired, mapVars
  <2>5. \A j \in Keys : IF j \in todo' THEN snapshot'[j] # NoItem /\ data'[j] = NoItem
                                       ELSE Restored(j)'
    BY <1>0, <1>1, <2>1, <2>4 DEF LoopInv, Restored, IsExpired, mapVars
  <2>6. LoopInv'
    BY <1>0, <1>1, <1>3, <2>1, <2>5 DEF LoopInv, heapVars
  <2> QED BY <2>2, <2>3, <2>6 DEF IInv
<1>5. CASE ~IsExpired(entry, clock)
  <2>1. /\ data' = [data EXCEPT ![k] = item]
        /\ usedMemory' = usedMemory + item.size
        /\ fifo' = IF item.expiresAt = 0 THEN addFIFO(fifo, k) ELSE fifo
        /\ pushHeaps(k, item)
    BY <1>5 DEF restoreEntry
  <2>2. entry.value \in Values /\ entry.expiresAt \in Nat
    BY <1>2 DEF Entry
  <2>3. /\ item \in Item
        /\ item # NoItem
        /\ item.expiresAt = entry.expiresAt
        /\ item.value = entry.value
        /\ item.accessID = accessCounter + 1
    BY <1>0, <2>2, NewItemType
  <2> HIDE DEF item
  <2>4. k \notin ToSet(fifo)
    BY <1>0, <1>2 DEF FifoTracksNonTTL, NonTTL
  <2>5. /\ fifo' \in Seq(Keys)
        /\ IsInjective(fifo')
        /\ ToSet(fifo') = IF item.expiresAt = 0 /\ k # EmptyKey
                          THEN ToSet(fifo) \union {k} ELSE ToSet(fifo)
    BY <1>0, <2>1, <2>4, AddFIFOProperties, ZenonT(40) DEF TypeOK, FifoTracksNonTTL
  <2>6. \A j \in Keys : NonTTL(data'[j]) <=> IF j = k THEN item.expiresAt = 0 ELSE NonTTL(data[j])
    BY <1>0, <2>1, <2>3 DEF TypeOK, NonTTL
  <2>7. ToSet(fifo') = {j \in Keys \ {EmptyKey} : NonTTL(data'[j])}
    BY <1>0, <1>2, <2>5, <2>6 DEF FifoTracksNonTTL, NonTTL
  <2>8. /\ accessCounter' \in Nat
        /\ lruHeap' \in SUBSET LruEntry
        /\ lfuHeap' \in SUBSET LfuEntry
        /\ \A e \in lruHeap' \union lfuHeap' : e.version <= accessCounter'
    BY <1>0, <2>1, <2>3, PushLemma
  <2>9. data' \in [Keys -> Item \union {NoItem}] /\ usedMemory' \in Int
    BY <1>0, <2>1, <2>3 DEF TypeOK, Item
  <2>10. TypeOK'
    BY <1>0, <1>1, <2>5, <2>8, <2>9 DEF TypeOK
  <2>11. Restored(k)'
    BY <1>0, <1>1, <1>2, <1>5, <2>1, <2>3 DEF Restored, IsExpired, TypeOK
  <2>12. ASSUME NEW j \in Keys
         PROVE  IF j \in todo' THEN snapshot'[j] # NoItem /\ data'[j] = NoItem
                               ELSE Restored(j)'
    BY <1>0, <1>1, <2>1, <2>11 DEF LoopInv, Restored, IsExpired, TypeOK
  <2>13. LoopInv'
    BY <1>1, <1>3, <2>8, <2>12 DEF LoopInv
  <2> QED BY <2>5, <2>7, <2>10, <2>13 DEF IInv, FifoTracksNonTTL
<1> QED BY <1>4, <1>5

\* RestoreSnapshot releases the lock.
LEMMA RestoreDoneInv == ASSUME IInv, restoreDone PROVE IInv'
<1> USE DEF restoreDone, mapVars, heapVars, confVars
<1>1. TypeOK'
  BY DEF IInv, TypeOK
<1>2. FifoTracksNonTTL'
  BY DEF IInv, FifoTracksNonTTL, NonTTL
<1>3. LoopInv'
  BY DEF IInv, LoopInv
<1> QED BY <1>1, <1>2, <1>3 DEF IInv

\* A stuttering step.
LEMMA StutterInv == ASSUME IInv, UNCHANGED vars PROVE IInv'
<1> USE DEF vars, mapVars, heapVars, confVars, loopVars
<1>1. TypeOK'
  BY DEF IInv, TypeOK
<1>2. FifoTracksNonTTL'
  BY DEF IInv, FifoTracksNonTTL, NonTTL
<1>3. LoopInv'
  BY DEF IInv, LoopInv, Restored, IsExpired, Live, NonTTL
<1> QED BY <1>1, <1>2, <1>3 DEF IInv

\* The invariant is inductive.
LEMMA StepInv == IInv /\ [Next]_vars => IInv'
<1> SUFFICES ASSUME IInv, [Next]_vars PROVE IInv'
  OBVIOUS
<1>1. ASSUME NEW k \in Keys, NEW v \in Values, NEW ttl \in TTLs, Set(k, v, ttl) PROVE IInv'
  BY <1>1, SetInv
<1>2. ASSUME NEW c \in Clients, Get(c) PROVE IInv'
  BY <1>2, GetInv
<1>3. ASSUME NEW k \in Keys, Delete(k) PROVE IInv'
  BY <1>3, DeleteInv
<1>4. CASE Evict
  BY <1>4, EvictInv
<1>5. CASE activeExpire \/ Expire
  BY <1>5, ExpireInv
<1>6. CASE SnapshotEntries
  BY <1>6, SnapshotInv
<1>7. ASSUME NEW p \in Policies, NEW m \in MaxMemories, Restart(p, m) PROVE IInv'
  BY <1>7, RestartInv
<1>8. CASE Restore
  BY <1>8, RestoreEntryInv, RestoreDoneInv DEF Restore
<1>9. CASE Tick
  BY <1>9, TickInv
<1>10. CASE UNCHANGED vars
  BY <1>10, StutterInv
<1> QED BY <1>1, <1>2, <1>3, <1>4, <1>5, <1>6, <1>7, <1>8, <1>9, <1>10 DEF Next

\* The invariant holds in every reachable state of the store.
LEMMA Invariance == Spec => []IInv
BY InitInv, StepInv, PTL DEF Spec
-----------------------------------------------------------------------------
(* The theorems *)

\* Every variable of the store keeps its type.
THEOREM TypeCorrect == Spec => []TypeOK
<1>1. IInv => TypeOK
  BY DEF IInv
<1> QED BY <1>1, Invariance, PTL

\* The FIFO holds each non-TTL key of the map exactly once and no other
\* key, whatever Sets, evictions, expirations and restores have done.
THEOREM FifoCorrect == Spec => []FifoTracksNonTTL
<1>1. IInv => FifoTracksNonTTL
  BY DEF IInv
<1> QED BY <1>1, Invariance, PTL

\* The loops under the lock are exact as far as they have come, and access
\* IDs never repeat a version that is still in a heap.
THEOREM LoopsCorrect == Spec => []LoopInv
<1>1. IInv => LoopInv
  BY DEF IInv
<1> QED BY <1>1, Invariance, PTL

\* When RestoreSnapshot releases the lock, the map is what the snapshot
\* held less what has expired.
THEOREM RestoreCorrect == Spec => RestoredExactly
<1>1. IInv /\ [Next]_vars => [mu = "restore" /\ mu' = "free" => \A k \in Keys : Restored(k)]_vars
  <2> SUFFICES ASSUME IInv, Next, mu = "restore", mu' = "free"
               PROVE  \A k \in Keys : Restored(k)
    OBVIOUS
  <2>1. restoreDone
    BY DEF Next, Set, Get, GetCall, GetRLock, GetMiss, GetExpired, GetHit, Delete, Evict,
           evictFIFO, evictTTL, evictRandom, evictLRU, evictLFU, evictReturn, activeExpire,
           Expire, sampleVisit, sweepVisit, sampleDone, sweepDone, SnapshotEntries, Restart,
           Restore, restoreEntry, Tick, GetFrame, loopVars
  <2> QED BY <2>1 DEF restoreDone, IInv, LoopInv
<1> QED BY <1>1, Invariance, PTL DEF Spec, RestoredExactly

\* A key taken away by an expiration was past its TTL, although Get decides
\* with a time it read before it took the lock.
THEOREM ExpiryCorrect == Spec => OnlyDueKeysExpire
<1> DEFINE Due == \A k \in Keys : data[k] # NoItem /\ data'[k] = NoItem =>
                    data[k].expiresAt > 0 /\ clock > data[k].expiresAt
<1>1. IInv /\ [Next]_vars => [mu = "sweep" \/ expiredCount' > expiredCount => Due]_vars
  <2> SUFFICES ASSUME IInv, Next, mu = "sweep" \/ expiredCount' > expiredCount
               PROVE  Due
    OBVIOUS
  <2>0. TypeOK /\ FifoTracksNonTTL /\ LoopInv
    BY DEF IInv
  <2>1. \/ \E c \in Clients : GetExpired(c) \/ \E k \in Keys : GetCall(c, k)
        \/ \E k \in Keys : sampleVisit(k) \/ sweepVisit(k)
        \/ sweepDone
    BY <2>0, SMTT(20) DEF TypeOK, Next, Set, Get, GetCall, GetRLock, GetMiss, GetExpired, GetHit, Delete,
           Evict, EvictFrame, evictFIFO, evictTTL, evictRandom, evictLRU, evictLFU, evictReturn,
           activeExpire, Expire, sampleVisit, sweepVisit, sampleDone, sweepDone,
           SnapshotEntries, Restart, Restore, restoreEntry, restoreDone, Tick, GetFrame, loopVars
  <2>2. ASSUME NEW k \in Keys, deleteKeyUnlocked(k, fifo), IsExpired(data[k], clock)
        PROVE  Due
    <3>1. data' = [data EXCEPT ![k] = NoItem]
      BY <2>0, <2>2, DeleteLemma
    <3> QED BY <2>0, <2>2, <3>1 DEF TypeOK, IsExpired
  <2>3. ASSUME NEW c \in Clients, GetExpired(c) PROVE Due
    <3> DEFINE k == get[c].key
    <3>1. k \in Keys /\ get[c].now \in Nat /\ get[c].now <= clock
      BY <2>0, <2>3 DEF GetExpired, TypeOK, LoopInv, Idle
    <3>2. data[k] \in Item
      BY <2>0, <2>3, <3>1 DEF GetExpired, TypeOK
    <3>3. IsExpired(data[k], clock)
      BY <2>0, <2>3, <3>1, <3>2 DEF GetExpired, IsExpired, Item, TypeOK
    <3> QED BY <2>2, <2>3, <3>1, <3>3 DEF GetExpired
  <2>4. ASSUME NEW k \in Keys, sampleVisit(k) \/ sweepVisit(k) PROVE Due
    BY <2>2, <2>4 DEF sampleVisit, sweepVisit, mapVars
  <2>5. CASE sweepDone
    BY <2>5 DEF sweepDone, mapVars
  <2>6. ASSUME NEW c \in Clients, NEW k \in Keys, GetCall(c, k) PROVE Due
    BY <2>6 DEF GetCall, mapVars
  <2> QED BY <2>1, <2>3, <2>4, <2>5, <2>6
<1> QED BY <1>1, Invariance, PTL DEF Spec, OnlyDueKeysExpire
-----------------------------------------------------------------------------
(* Eviction: the heaps of the LRU and LFU policies track the map,          *)
(* evictIfNeeded misses no key, and it picks the coldest one.  All of it   *)
(* under the assumption that the empty string is not used as a key, which  *)
(* popLRU, popLFU and popFIFO cannot tell from "no key".                   *)

\* A Set, a Get or a restored entry: the pushed entries are the only ones
\* that carry the new access ID.
LEMMA HeapPush ==
  ASSUME IInv, HeapsTrackData, NEW k \in Keys, NEW item \in Item, item # NoItem,
         item.accessID = accessCounter + 1, data' = [data EXCEPT ![k] = item],
         pushHeaps(k, item)
  PROVE  HeapsTrackData'
<1>1. \A j \in Keys : data'[j] = IF j = k THEN item ELSE data[j]
  BY DEF IInv, TypeOK
<1>2. lruHeap' = lruHeap \union {lruEntry(k, item)} /\ lfuHeap' = lfuHeap \union {lfuEntry(k, item)}
  BY DEF pushHeaps
<1>3. lruEntry(k, item).key = k /\ lfuEntry(k, item).key = k
  BY DEF lruEntry, lfuEntry
<1>4. ASSUME NEW e \in lruHeap \union lfuHeap, e.key = k
      PROVE  ~Fresh(e)'
  <2>1. e.version \in Nat /\ e.version <= accessCounter /\ accessCounter \in Nat
    BY DEF IInv, TypeOK, LoopInv, LruEntry, LfuEntry
  <2> QED BY <1>1, <1>4, <2>1 DEF Fresh
<1>5. \A e \in lruHeap \union lfuHeap : e.key \in Keys
  BY DEF IInv, TypeOK, LruEntry, LfuEntry
<1>6. \A e \in lruHeap \union lfuHeap : e.key # k => (Fresh(e)' <=> Fresh(e))
  BY <1>1, <1>5 DEF Fresh
<1>7. \A j \in Live(data') :
        lruEntry(j, data'[j]) \in lruHeap' /\ lfuEntry(j, data'[j]) \in lfuHeap'
  BY <1>1, <1>2 DEF HeapsTrackData, Live
<1>8. \A e \in lruHeap' : Fresh(e)' => e = lruEntry(e.key, data'[e.key])
  BY <1>1, <1>2, <1>3, <1>4, <1>5, <1>6 DEF HeapsTrackData
<1>9. \A e \in lfuHeap' : Fresh(e)' => e = lfuEntry(e.key, data'[e.key])
  BY <1>1, <1>2, <1>3, <1>4, <1>5, <1>6 DEF HeapsTrackData
<1> QED BY <1>7, <1>8, <1>9 DEF HeapsTrackData

\* Deletions leave entries behind, and pops take out only entries that are
\* stale or whose key goes with them.
LEMMA HeapShrink ==
  ASSUME IInv, HeapsTrackData,
         \A j \in Keys : data'[j] # NoItem => data'[j] = data[j],
         lruHeap' \subseteq lruHeap, lfuHeap' \subseteq lfuHeap,
         \A e \in lruHeap \ lruHeap' : ~Fresh(e) \/ data'[e.key] = NoItem,
         \A e \in lfuHeap \ lfuHeap' : ~Fresh(e) \/ data'[e.key] = NoItem
  PROVE  HeapsTrackData'
<1>1. \A e \in lruHeap \union lfuHeap : e.key \in Keys
  BY DEF IInv, TypeOK, LruEntry, LfuEntry
<1>2. \A e \in lruHeap \union lfuHeap : Fresh(e)' => Fresh(e) /\ data'[e.key] = data[e.key]
  BY <1>1 DEF Fresh
<1>3. ASSUME NEW j \in Live(data')
      PROVE  lruEntry(j, data'[j]) \in lruHeap' /\ lfuEntry(j, data'[j]) \in lfuHeap'
  <2>1. j \in Live(data) /\ data'[j] = data[j] /\ data'[j] # NoItem
    BY DEF Live
  <2>2. lruEntry(j, data[j]) \in lruHeap /\ lfuEntry(j, data[j]) \in lfuHeap
    BY <2>1 DEF HeapsTrackData
  <2>3. /\ Fresh(lruEntry(j, data[j])) /\ lruEntry(j, data[j]).key = j
        /\ Fresh(lfuEntry(j, data[j])) /\ lfuEntry(j, data[j]).key = j
    BY <2>1 DEF Fresh, lruEntry, lfuEntry
  <2> QED BY <2>1, <2>2, <2>3
<1> QED BY <1>2, <1>3 DEF HeapsTrackData

\* Steps that touch neither the map nor the heaps.
LEMMA HeapUnchanged ==
  ASSUME HeapsTrackData, UNCHANGED <<data, lruHeap, lfuHeap>>
  PROVE  HeapsTrackData'
BY DEF HeapsTrackData, Live, Fresh

\* What a popped entry does when the empty string is not a key.
LEMMA PoppedEffect ==
  ASSUME IInv, NEW e, e.key \in Keys, EmptyKey \notin Keys, evictPopped(e)
  PROVE  /\ \A j \in Keys : data'[j] # NoItem => data'[j] = data[j]
         /\ \A j \in Keys : data[j] # NoItem /\ data'[j] = NoItem => j = e.key /\ Fresh(e)
         /\ Fresh(e) => data'[e.key] = NoItem
         /\ mu' = mu
<1>1. CASE ~Fresh(e)
  BY <1>1 DEF evictPopped, mapVars
<1>2. CASE Fresh(e)
  <2>1. deleteKeyUnlocked(e.key, fifo) /\ mu' = mu
    BY <1>2 DEF evictPopped
  <2>2. data' = [data EXCEPT ![e.key] = NoItem]
    BY <2>1, DeleteLemma DEF IInv
  <2> QED BY <1>2, <2>1, <2>2 DEF IInv, TypeOK
<1> QED BY <1>1, <1>2
-----------------------------------------------------------------------------
\* Every step of the store keeps the heaps in step with the map.
LEMMA HeapStep ==
  ASSUME EmptyKey \notin Keys, IInv, HeapsTrackData, [Next]_vars
  PROVE  HeapsTrackData'
<1>0. TypeOK /\ FifoTracksNonTTL /\ LoopInv
  BY DEF IInv
<1>1. ASSUME NEW k \in Keys, NEW v \in Values, NEW ttl \in TTLs, Set(k, v, ttl)
      PROVE  HeapsTrackData'
  <2>1. expiryOf(ttl) \in Nat
    BY <1>0, StoreAssumption DEF expiryOf, TypeOK
  <2> DEFINE item == NewItem(k, v, expiryOf(ttl))
  <2>2. item \in Item /\ item # NoItem /\ item.accessID = accessCounter + 1
    BY <1>0, <2>1, NewItemType
  <2>3. data' = [data EXCEPT ![k] = item] /\ pushHeaps(k, item)
    BY <1>1 DEF Set
  <2> QED BY <2>2, <2>3, HeapPush
<1>2. ASSUME NEW c \in Clients, Get(c)
      PROVE  HeapsTrackData'
  <2>1. CASE UNCHANGED <<mapVars, heapVars>>
    BY <2>1, HeapUnchanged DEF mapVars, heapVars
  <2>2. CASE GetExpired(c)
    <3>1. get[c].key \in Keys
      BY <1>0, <2>2 DEF GetExpired, TypeOK, Idle
    <3>2. data' = [data EXCEPT ![get[c].key] = NoItem]
      BY <1>0, <2>2, <3>1, DeleteLemma DEF GetExpired
    <3> QED BY <1>0, <2>2, <3>2, HeapShrink DEF GetExpired, heapVars, TypeOK
  <2>3. CASE GetHit(c)
    <3> DEFINE k == get[c].key
               item == touch(data[k], get[c].now)
    <3>1. k \in Keys /\ get[c].now \in Nat
      BY <1>0, <2>3 DEF GetHit, TypeOK, Idle
    <3>2. data[k] \in Item
      BY <1>0, <2>3, <3>1 DEF GetHit, TypeOK
    <3>3. item \in Item /\ item # NoItem /\ item.accessID = accessCounter + 1
      BY <1>0, <3>1, <3>2, TouchType
    <3>4. data' = [data EXCEPT ![k] = item] /\ pushHeaps(k, item)
      BY <2>3 DEF GetHit
    <3> QED BY <3>1, <3>3, <3>4, HeapPush
  <2> QED BY <1>2, <2>1, <2>2, <2>3 DEF Get, GetCall, GetRLock, GetMiss
<1>3. ASSUME NEW k \in Keys, deleteKeyUnlocked(k, fifo), UNCHANGED <<lruHeap, lfuHeap>>
      PROVE  HeapsTrackData'
  <2>1. data' = [data EXCEPT ![k] = NoItem]
    BY <1>0, <1>3, DeleteLemma
  <2> QED BY <1>0, <1>3, <2>1, HeapShrink DEF TypeOK
<1>4. ASSUME NEW k \in Keys, Delete(k) PROVE HeapsTrackData'
  BY <1>3, <1>4 DEF Delete, heapVars
<1>5. CASE evictFIFO
  <2>1. data' = [data EXCEPT ![Head(fifo)] = NoItem]
    BY <1>0, <1>5, PopLemma DEF evictFIFO
  <2> QED BY <1>0, <1>5, <2>1, HeapShrink DEF evictFIFO, TypeOK
<1>6. ASSUME NEW k \in Keys, evictTTL(k) \/ evictRandom(k) PROVE HeapsTrackData'
  BY <1>3, <1>6, HeapUnchanged DEF evictTTL, evictRandom, mapVars
<1>7. ASSUME NEW e \in lruHeap, evictLRU(e) PROVE HeapsTrackData'
  <2>1. e.key \in Keys
    BY <1>0 DEF TypeOK, LruEntry
  <2>2. evictPopped(e) /\ lruHeap' = lruHeap \ {e} /\ lfuHeap' = lfuHeap
    BY <1>7 DEF evictLRU
  <2> QED BY <2>1, <2>2, PoppedEffect, HeapShrink
<1>8. ASSUME NEW e \in lfuHeap, evictLFU(e) PROVE HeapsTrackData'
  <2>1. e.key \in Keys
    BY <1>0 DEF TypeOK, LfuEntry
  <2>2. evictPopped(e) /\ lfuHeap' = lfuHeap \ {e} /\ lruHeap' = lruHeap
    BY <1>8 DEF evictLFU
  <2> QED BY <2>1, <2>2, PoppedEffect, HeapShrink
<1>9. ASSUME NEW k \in Keys, sampleVisit(k) \/ sweepVisit(k) PROVE HeapsTrackData'
  BY <1>3, <1>9, HeapUnchanged DEF sampleVisit, sweepVisit, ExpireFrame, mapVars, heapVars
<1>10. CASE evictReturn \/ activeExpire \/ sampleDone \/ sweepDone \/ SnapshotEntries
            \/ restoreDone \/ Tick \/ UNCHANGED vars
  BY <1>10, HeapUnchanged DEF evictReturn, activeExpire, sampleDone, sweepDone, SnapshotEntries,
     restoreDone, Tick, ExpireFrame, vars, mapVars, heapVars
<1>11. ASSUME NEW p \in Policies, NEW m \in MaxMemories, Restart(p, m) PROVE HeapsTrackData'
  BY <1>11 DEF Restart, HeapsTrackData, Live
<1>12. ASSUME NEW k \in Keys, restoreEntry(k) PROVE HeapsTrackData'
  <2> DEFINE item == NewItem(k, snapshot[k].value, snapshot[k].expiresAt)
  <2>1. CASE UNCHANGED <<mapVars, heapVars>>
    BY <2>1, HeapUnchanged DEF mapVars, heapVars
  <2>2. CASE data' = [data EXCEPT ![k] = item] /\ pushHeaps(k, item)
    <3>1. snapshot[k] \in Entry
      BY <1>0, <1>12 DEF restoreEntry, LoopInv, TypeOK
    <3>2. item \in Item /\ item # NoItem /\ item.accessID = accessCounter + 1
      BY <1>0, <3>1, NewItemType DEF Entry
    <3> QED BY <2>2, <3>2, HeapPush
  <2> QED BY <1>12, <2>1, <2>2 DEF restoreEntry
<1> QED BY <1>1, <1>2, <1>4, <1>5, <1>6, <1>7, <1>8, <1>9, <1>10, <1>11, <1>12
        DEF Next, Evict, Expire, Restore

\* The invariant the eviction theorems rest on.
HInv == IInv /\ HeapsTrackData

\* The invariant with the heaps holds in every reachable state.
LEMMA HeapInvariance ==
  ASSUME EmptyKey \notin Keys
  PROVE  Spec => []HInv
<1>1. Init => HInv
  BY InitInv DEF HInv, Init, HeapsTrackData, Live
<1>2. HInv /\ [Next]_vars => HInv'
  BY StepInv, HeapStep DEF HInv
<1> QED BY <1>1, <1>2, PTL DEF Spec
-----------------------------------------------------------------------------
\* popLRU and popLFU find the current entry of every key, and no stale entry
\* passes for it.
THEOREM HeapsCorrect ==
  ASSUME EmptyKey \notin Keys
  PROVE  Spec => []HeapsTrackData
<1>1. HInv => HeapsTrackData
  BY DEF HInv
<1> QED BY <1>1, HeapInvariance, PTL

\* evictIfNeeded returns only when the limit is honoured or no key that the
\* policy may evict is left in the map.
THEOREM EvictionCorrect ==
  ASSUME EmptyKey \notin Keys
  PROVE  Spec => EvictionExhaustive
<1> DEFINE Exhausted == ~OverLimit \/ \A k \in Live(data) : ~Evictable(k)
<1>1. HInv /\ [Next]_vars => [mu = "evict" /\ mu' = "free" => Exhausted]_vars
  <2> SUFFICES ASSUME HInv, Next, mu = "evict", mu' = "free"
               PROVE  Exhausted
    OBVIOUS
  <2>0. IInv /\ HeapsTrackData /\ TypeOK /\ FifoTracksNonTTL /\ LoopInv
    BY DEF HInv, IInv
  <2>1. \/ \E e \in lruHeap : evictLRU(e)
        \/ \E e \in lfuHeap : evictLFU(e)
        \/ evictReturn
    BY DEF Next, Set, Get, GetCall, GetRLock, GetMiss, GetExpired, GetHit, Delete, Evict,
           evictFIFO, evictTTL, evictRandom, activeExpire,
           Expire, sampleVisit, sweepVisit, sampleDone, sweepDone, SnapshotEntries, Restart,
           Restore, restoreEntry, restoreDone, Tick, GetFrame, loopVars
  <2>2. ~ \E e \in lruHeap : evictLRU(e)
    BY <2>0, PoppedEffect DEF evictLRU, TypeOK, LruEntry
  <2>3. ~ \E e \in lfuHeap : evictLFU(e)
    BY <2>0, PoppedEffect DEF evictLFU, TypeOK, LfuEntry
  <2>4. evictReturn
    BY <2>1, <2>2, <2>3
  <2>5. CASE NoCandidate
    <3> SUFFICES ASSUME NEW k \in Live(data), Evictable(k)
                 PROVE  FALSE
      OBVIOUS
    <3>1. k \in Keys /\ data[k] \in Item /\ data[k] # NoItem
      BY <2>0 DEF Live, TypeOK
    <3>2. evictionPolicy \in AllPolicies
      BY <2>0, StoreAssumption DEF TypeOK
    <3>3. k \notin todo => NonTTL(data[k]) /\ evictionPolicy # "allkeys-random"
      BY <2>0 DEF LoopInv
    <3>4. CASE evictionPolicy = "allkeys-lru"
      BY <2>0, <2>5, <3>4 DEF NoCandidate, HeapsTrackData
    <3>5. CASE evictionPolicy = "allkeys-lfu"
      BY <2>0, <2>5, <3>5 DEF NoCandidate, HeapsTrackData
    <3>6. CASE evictionPolicy = "noeviction"
      <4>1. fifo = <<>> /\ k \notin todo
        BY <2>5, <3>6 DEF NoCandidate
      <4>2. k \in ToSet(fifo)
        BY <2>0, <3>1, <3>3, <4>1 DEF FifoTracksNonTTL
      <4> QED BY <4>1, <4>2 DEF ToSet
    <3>7. CASE evictionPolicy = "allkeys-random"
      BY <2>5, <3>3, <3>7 DEF NoCandidate
    <3>8. CASE evictionPolicy = "volatile-random"
      BY <2>5, <3>1, <3>3, <3>8 DEF NoCandidate, Evictable, HasTTL, NonTTL
    <3> QED BY <3>2, <3>4, <3>5, <3>6, <3>7, <3>8 DEF AllPolicies
  <2> QED BY <2>4, <2>5 DEF evictReturn
<1> QED BY <1>1, HeapInvariance, PTL DEF Spec, EvictionExhaustive

\* The victim of allkeys-lru was accessed least recently, that of
\* allkeys-lfu least often, and the default policy takes a key with a TTL
\* only when every key has one.
THEOREM VictimCorrect ==
  ASSUME EmptyKey \notin Keys
  PROVE  Spec => VictimIsColdest
<1> DEFINE Coldest(k, j) ==
       /\ EvictedBy("allkeys-lru", k) => data[k].lastAccess <= data[j].lastAccess
       /\ EvictedBy("allkeys-lfu", k) =>
            \/ data[k].freq < data[j].freq
            \/ data[k].freq = data[j].freq /\ data[k].lastAccess <= data[j].lastAccess
       /\ EvictedBy("noeviction", k) /\ HasTTL(data[k]) => HasTTL(data[j])
<1>1. HInv /\ [Next]_vars => [\A k \in Keys, j \in Live(data) : Coldest(k, j)]_vars
  <2> SUFFICES ASSUME HInv, Next, NEW k \in Keys, NEW j \in Live(data)
               PROVE  Coldest(k, j)
    OBVIOUS
  <2>0. IInv /\ HeapsTrackData /\ TypeOK /\ FifoTracksNonTTL /\ LoopInv
    BY DEF HInv, IInv
  <2>1. j \in Keys /\ data[j] \in Item /\ data[j] # NoItem
    BY <2>0 DEF Live, TypeOK
  <2>2. ASSUME mu = "evict", data'[k] # data[k]
        PROVE  \/ evictFIFO
               \/ \E i \in Keys : evictTTL(i) \/ evictRandom(i)
               \/ \E e \in lruHeap : evictLRU(e)
               \/ \E e \in lfuHeap : evictLFU(e)
    BY <2>2 DEF Next, Set, Get, GetCall, GetRLock, GetMiss, GetExpired, GetHit, Delete, Evict,
           evictReturn, activeExpire, Expire, sampleVisit, sweepVisit, sampleDone, sweepDone,
           SnapshotEntries, Restart, Restore, restoreEntry, restoreDone, Tick, mapVars
  <2>3. ASSUME EvictedBy("allkeys-lru", k)
        PROVE  data[k].lastAccess <= data[j].lastAccess
    <3>1. mu = "evict" /\ evictionPolicy = "allkeys-lru" /\ data[k] # NoItem /\ data'[k] = NoItem
      BY <2>3 DEF EvictedBy
    <3>2. PICK e \in lruHeap : evictLRU(e)
      BY <2>2, <3>1 DEF evictFIFO, evictTTL, evictRandom, evictLFU
    <3>3. e.key = k /\ Fresh(e)
      BY <2>0, <3>1, <3>2, PoppedEffect DEF evictLRU, TypeOK, LruEntry
    <3>4. e = lruEntry(k, data[k]) /\ lruEntry(j, data[j]) \in lruHeap
      BY <2>0, <3>3 DEF HeapsTrackData
    <3>5. ~(data[j].lastAccess < data[k].lastAccess)
      BY <3>2, <3>4 DEF evictLRU, lruLess, lruEntry
    <3>6. data[k].lastAccess \in Nat /\ data[j].lastAccess \in Nat
      BY <2>0, <2>1, <3>1 DEF TypeOK, Item
    <3> QED BY <3>5, <3>6
  <2>4. ASSUME EvictedBy("allkeys-lfu", k)
        PROVE  \/ data[k].freq < data[j].freq
               \/ data[k].freq = data[j].freq /\ data[k].lastAccess <= data[j].lastAccess
    <3>1. mu = "evict" /\ evictionPolicy = "allkeys-lfu" /\ data[k] # NoItem /\ data'[k] = NoItem
      BY <2>4 DEF EvictedBy
    <3>2. PICK e \in lfuHeap : evictLFU(e)
      BY <2>2, <3>1 DEF evictFIFO, evictTTL, evictRandom, evictLRU
    <3>3. e.key = k /\ Fresh(e)
      BY <2>0, <3>1, <3>2, PoppedEffect DEF evictLFU, TypeOK, LfuEntry
    <3>4. e = lfuEntry(k, data[k]) /\ lfuEntry(j, data[j]) \in lfuHeap
      BY <2>0, <3>3 DEF HeapsTrackData
    <3>5. ~lfuLess(lfuEntry(j, data[j]), lfuEntry(k, data[k]))
      BY <3>2, <3>4 DEF evictLFU
    <3>6. /\ data[k].lastAccess \in Nat /\ data[j].lastAccess \in Nat
          /\ data[k].freq \in Nat /\ data[j].freq \in Nat
      BY <2>0, <2>1, <3>1 DEF TypeOK, Item
    <3> QED BY <3>5, <3>6 DEF lfuLess, lfuEntry
  <2>5. ASSUME EvictedBy("noeviction", k), HasTTL(data[k])
        PROVE  HasTTL(data[j])
    <3>1. mu = "evict" /\ evictionPolicy = "noeviction" /\ data[k] # NoItem /\ data'[k] = NoItem
      BY <2>5 DEF EvictedBy
    <3>2. evictFIFO \/ \E i \in Keys : evictTTL(i)
      BY <2>2, <3>1 DEF evictRandom, evictLRU, evictLFU
    <3>3. CASE evictFIFO
      <4>1. data' = [data EXCEPT ![Head(fifo)] = NoItem] /\ fifo # <<>>
        BY <2>0, <3>3, PopLemma DEF evictFIFO
      <4>2. NonTTL(data[Head(fifo)])
        BY <2>0, <4>1, TailProperties DEF TypeOK, FifoTracksNonTTL
      <4> QED BY <2>0, <2>5, <3>1, <4>1, <4>2 DEF HasTTL, NonTTL, TypeOK
    <3>4. CASE \E i \in Keys : evictTTL(i)
      <4>1. fifo = <<>>
        BY <3>4 DEF evictTTL
      <4>2. ~NonTTL(data[j])
        BY <2>0, <2>1, <4>1 DEF FifoTracksNonTTL, ToSet
      <4> QED BY <2>1, <4>2 DEF HasTTL, NonTTL, Item
    <3> QED BY <3>2, <3>3, <3>4
  <2> QED BY <2>3, <2>4, <2>5
<1> QED BY <1>1, HeapInvariance, PTL DEF Spec, VictimIsColdest
-----------------------------------------------------------------------------
(* Memory accounting.  MapThenSumSet is a recursive function over the      *)
(* subsets of its argument; the lemmas below show that for a finite set    *)
(* the recursion has exactly one solution and that its order is            *)
(* immaterial.  They argue with a smallest counterexample.                 *)

\* The element MapThenSumSet takes next.
Pick(s) == CHOOSE x \in s : TRUE

\* f is the table MapThenSumSet builds for the subsets of S.
Table(f, d, S) ==
  f = [s \in SUBSET S |-> IF s = {} THEN 0 ELSE d[Pick(s)].size + f[s \ {Pick(s)}]]

\* The sum of the sizes of the keys S of the map d.
Bytes(d, S) == MapThenSumSet(LAMBDA k : d[k].size, S)

\* The sum is the last entry of a table.
LEMMA BytesTable ==
  ASSUME NEW d, NEW S
  PROVE  Bytes(d, S) = (CHOOSE f : Table(f, d, S))[S]
BY DEF Bytes, MapThenSumSet, MapThenFoldSet, Table, Pick

\* Taking an element out of a finite nonempty set makes it smaller.
LEMMA PickSmaller ==
  ASSUME NEW S, IsFiniteSet(S), S # {}, NEW x \in S
  PROVE  /\ Pick(S) \in S
         /\ S \ {x} \subseteq S
         /\ IsFiniteSet(S \ {x})
         /\ Cardinality(S) \in Nat
         /\ Cardinality(S \ {x}) \in Nat
         /\ Cardinality(S \ {x}) < Cardinality(S)
<1>1. Pick(S) \in S
  BY DEF Pick
<1>2. IsFiniteSet(S \ {x}) /\ Cardinality(S \ {x}) = Cardinality(S) - 1
  BY FS_RemoveElement
<1>3. Cardinality(S) \in Nat /\ Cardinality(S \ {x}) \in Nat
  BY <1>2, FS_CardinalityType
<1> QED BY <1>1, <1>2, <1>3

\* A set of finite sets has a smallest one.
LEMMA SmallestSet ==
  ASSUME NEW C, C # {}, \A s \in C : IsFiniteSet(s)
  PROVE  \E s \in C : \A t \in C : Cardinality(s) <= Cardinality(t)
<1> DEFINE T == {Cardinality(s) : s \in C}
<1>1. T \subseteq Nat /\ T # {}
  BY FS_CardinalityType
<1>2. PICK n \in T : \A m \in T : n <= m
  BY <1>1, LeastNatural
<1> QED BY <1>2

\* There is at most one table.
LEMMA TableUnique ==
  ASSUME NEW d, NEW S, IsFiniteSet(S), NEW f, NEW g, Table(f, d, S), Table(g, d, S)
  PROVE  f = g
<1> DEFINE C == {s \in SUBSET S : f[s] # g[s]}
<1>1. SUFFICES ASSUME C # {} PROVE FALSE
  BY DEF Table
<1>2. \A s \in C : IsFiniteSet(s)
  BY FS_Subset
<1>3. PICK s \in C : \A t \in C : Cardinality(s) <= Cardinality(t)
  <2> HIDE DEF C
  <2> QED BY <1>1, <1>2, SmallestSet
<1>4. s \in SUBSET S /\ f[s] # g[s] /\ IsFiniteSet(s)
  BY <1>2
<1>5. s # {}
  BY <1>4 DEF Table
<1>6. /\ Pick(s) \in s
      /\ s \ {Pick(s)} \subseteq s
      /\ Cardinality(s) \in Nat
      /\ Cardinality(s \ {Pick(s)}) \in Nat
      /\ Cardinality(s \ {Pick(s)}) < Cardinality(s)
  <2>1. Pick(s) \in s
    BY <1>5 DEF Pick
  <2> QED BY <1>4, <1>5, <2>1, PickSmaller
<1>7. s \ {Pick(s)} \in SUBSET S /\ f[s \ {Pick(s)}] = g[s \ {Pick(s)}]
  BY <1>3, <1>4, <1>6
<1> QED BY <1>4, <1>5, <1>7 DEF Table

\* The part of a table about a smaller set is the smaller set's table.
LEMMA TableRestrict ==
  ASSUME NEW d, NEW S, NEW f, Table(f, d, S), NEW U \in SUBSET S
  PROVE  Table([s \in SUBSET U |-> f[s]], d, U)
<1> DEFINE g == [s \in SUBSET U |-> f[s]]
<1>1. ASSUME NEW s \in SUBSET U
      PROVE  g[s] = IF s = {} THEN 0 ELSE d[Pick(s)].size + g[s \ {Pick(s)}]
  <2>1. s \in SUBSET S /\ s \ {Pick(s)} \in SUBSET U
    OBVIOUS
  <2>2. f[s] = IF s = {} THEN 0 ELSE d[Pick(s)].size + f[s \ {Pick(s)}]
    BY <2>1 DEF Table
  <2> QED BY <2>1, <2>2
<1>2. g = [s \in SUBSET U |-> g[s]]
  OBVIOUS
<1> HIDE DEF g
<1>3. g = [s \in SUBSET U |-> IF s = {} THEN 0 ELSE d[Pick(s)].size + g[s \ {Pick(s)}]]
  BY <1>1, <1>2
<1> QED BY <1>3 DEF Table, g

\* Every finite set has a table.
LEMMA TableExists ==
  ASSUME NEW d, NEW S, IsFiniteSet(S)
  PROVE  \E f : Table(f, d, S)
<1> DEFINE Total(t) == (CHOOSE f : Table(f, d, t))[t]
           C == {t \in SUBSET S : ~ \E f : Table(f, d, t)}
<1>1. SUFFICES ASSUME C # {} PROVE FALSE
  OBVIOUS
<1>2. \A t \in C : IsFiniteSet(t)
  BY FS_Subset
<1>3. PICK M \in C : \A t \in C : Cardinality(M) <= Cardinality(t)
  <2> HIDE DEF C
  <2> QED BY <1>1, <1>2, SmallestSet
<1>4. M \in SUBSET S /\ IsFiniteSet(M) /\ ~ \E f : Table(f, d, M)
  BY <1>2
<1>5. ASSUME NEW t \in SUBSET M, t # M
      PROVE  IsFiniteSet(t) /\ Table(CHOOSE f : Table(f, d, t), d, t)
  <2>1. IsFiniteSet(t) /\ Cardinality(t) <= Cardinality(M) /\ Cardinality(t) # Cardinality(M)
    BY <1>4, <1>5, FS_Subset
  <2>2. Cardinality(t) \in Nat /\ Cardinality(M) \in Nat
    BY <1>4, <2>1, FS_CardinalityType
  <2>3. t \in SUBSET S /\ t \notin C
    BY <1>3, <1>4, <2>1, <2>2
  <2>4. \E f : Table(f, d, t)
    BY <2>3
  <2> QED BY <2>1, <2>4
<1> HIDE DEF C
<1>6. ASSUME NEW t \in SUBSET M, t # M
      PROVE  Total(t) = IF t = {} THEN 0 ELSE d[Pick(t)].size + Total(t \ {Pick(t)})
  <2> DEFINE f == CHOOSE h : Table(h, d, t)
  <2>1. Table(f, d, t) /\ IsFiniteSet(t)
    BY <1>5, <1>6
  <2> HIDE DEF f
  <2>2. f[t] = IF t = {} THEN 0 ELSE d[Pick(t)].size + f[t \ {Pick(t)}]
    BY <2>1 DEF Table
  <2>3. ASSUME t # {} PROVE f[t \ {Pick(t)}] = Total(t \ {Pick(t)})
    <3> DEFINE u == t \ {Pick(t)}
               g == [s \in SUBSET u |-> f[s]]
               h == CHOOSE k : Table(k, d, u)
    <3>1. u \in SUBSET t /\ u \in SUBSET M /\ u # M
      BY <1>6
    <3>2. Table(g, d, u)
      BY <2>1, <3>1, TableRestrict
    <3>3. Table(h, d, u) /\ IsFiniteSet(u)
      BY <1>5, <3>1
    <3>4. g[u] = f[u]
      OBVIOUS
    <3> HIDE DEF u, g, h
    <3>5. g = h
      BY <3>2, <3>3, TableUnique
    <3> QED BY <3>4, <3>5 DEF u, h
  <2> QED BY <2>2, <2>3 DEF f
<1> DEFINE G == [t \in SUBSET M |-> IF t = {} THEN 0 ELSE d[Pick(t)].size + Total(t \ {Pick(t)})]
<1> HIDE DEF Total
<1>7. ASSUME NEW t \in SUBSET M, t # {}
      PROVE  G[t \ {Pick(t)}] = Total(t \ {Pick(t)})
  <2>1. Pick(t) \in t
    BY <1>7 DEF Pick
  <2>2. t \ {Pick(t)} \in SUBSET M /\ t \ {Pick(t)} # M
    BY <2>1
  <2> QED BY <1>6, <2>2
<1>8. Table(G, d, M)
  <2>1. \A t \in SUBSET M : G[t] = IF t = {} THEN 0 ELSE d[Pick(t)].size + G[t \ {Pick(t)}]
    BY <1>7
  <2>2. G = [t \in SUBSET M |-> G[t]]
    OBVIOUS
  <2> HIDE DEF G
  <2>3. G = [t \in SUBSET M |-> IF t = {} THEN 0 ELSE d[Pick(t)].size + G[t \ {Pick(t)}]]
    BY <2>1, <2>2
  <2> QED BY <2>3 DEF Table
<1> QED BY <1>4, <1>8

\* The sum is 0 for the empty set, and otherwise the size of one element
\* and the sum over the rest.
LEMMA BytesStep ==
  ASSUME NEW d, NEW S, IsFiniteSet(S)
  PROVE  Bytes(d, S) = IF S = {} THEN 0 ELSE d[Pick(S)].size + Bytes(d, S \ {Pick(S)})
<1> DEFINE f == CHOOSE h : Table(h, d, S)
           u == S \ {Pick(S)}
           g == [s \in SUBSET u |-> f[s]]
           h == CHOOSE k : Table(k, d, u)
<1>1. Table(f, d, S)
  BY TableExists
<1>2. u \in SUBSET S /\ IsFiniteSet(u)
  BY FS_RemoveElement
<1>3. Table(h, d, u)
  <2> HIDE DEF u
  <2> QED BY <1>2, TableExists
<1>4. Bytes(d, S) = f[S] /\ Bytes(d, u) = h[u]
  BY BytesTable
<1> HIDE DEF f, h
<1>5. f[S] = IF S = {} THEN 0 ELSE d[Pick(S)].size + f[u]
  BY <1>1 DEF Table
<1>6. Table(g, d, u) /\ g[u] = f[u]
  BY <1>1, <1>2, TableRestrict
<1> HIDE DEF g, u
<1>7. g = h
  BY <1>2, <1>3, <1>6, TableUnique
<1> QED BY <1>4, <1>5, <1>6, <1>7 DEF u

\* The sum depends on the sizes of the elements only.
LEMMA BytesSame ==
  ASSUME NEW d, NEW e, NEW S, IsFiniteSet(S), \A k \in S : d[k].size = e[k].size
  PROVE  Bytes(d, S) = Bytes(e, S)
<1> DEFINE f == CHOOSE h : Table(h, d, S)
           g == CHOOSE h : Table(h, e, S)
<1>1. Table(f, d, S) /\ Table(g, e, S) /\ Bytes(d, S) = f[S] /\ Bytes(e, S) = g[S]
  BY TableExists, BytesTable
<1> HIDE DEF f, g
<1>2. \A s \in SUBSET S : s # {} => Pick(s) \in S
  BY DEF Pick
<1>3. Table(g, d, S)
  <2>1. \A s \in SUBSET S : (IF s = {} THEN 0 ELSE e[Pick(s)].size + g[s \ {Pick(s)}])
                          = (IF s = {} THEN 0 ELSE d[Pick(s)].size + g[s \ {Pick(s)}])
    BY <1>2
  <2> QED BY <1>1, <2>1 DEF Table
<1>4. f = g
  BY <1>1, <1>3, TableUnique
<1> QED BY <1>1, <1>4

\* The sum of natural sizes is a natural number.
LEMMA BytesType ==
  ASSUME NEW d, NEW S, IsFiniteSet(S), \A k \in S : d[k].size \in Nat
  PROVE  Bytes(d, S) \in Nat
<1> DEFINE C == {s \in SUBSET S : Bytes(d, s) \notin Nat}
<1>1. SUFFICES ASSUME C # {} PROVE FALSE
  OBVIOUS
<1>2. \A s \in C : IsFiniteSet(s)
  BY FS_Subset
<1>3. PICK s \in C : \A t \in C : Cardinality(s) <= Cardinality(t)
  <2> HIDE DEF C
  <2> QED BY <1>1, <1>2, SmallestSet
<1>4. s \in SUBSET S /\ Bytes(d, s) \notin Nat /\ IsFiniteSet(s)
  BY <1>2
<1>5. Bytes(d, s) = IF s = {} THEN 0 ELSE d[Pick(s)].size + Bytes(d, s \ {Pick(s)})
  BY <1>4, BytesStep
<1>6. s # {}
  BY <1>4, <1>5
<1>7. /\ Pick(s) \in s
      /\ s \ {Pick(s)} \subseteq s
      /\ Cardinality(s) \in Nat
      /\ Cardinality(s \ {Pick(s)}) \in Nat
      /\ Cardinality(s \ {Pick(s)}) < Cardinality(s)
  <2>1. Pick(s) \in s
    BY <1>6 DEF Pick
  <2> QED BY <1>4, <1>6, <2>1, PickSmaller
<1>8. Bytes(d, s \ {Pick(s)}) \in Nat
  BY <1>3, <1>4, <1>7
<1>9. d[Pick(s)].size \in Nat
  BY <1>4, <1>7
<1> QED BY <1>4, <1>5, <1>6, <1>8, <1>9

\* Any element may be taken out of the sum.
LEMMA BytesSplit ==
  ASSUME NEW d, NEW S, IsFiniteSet(S), \A k \in S : d[k].size \in Nat, NEW x \in S
  PROVE  Bytes(d, S) = d[x].size + Bytes(d, S \ {x})
<1> DEFINE Bad(s) == \E y \in s : Bytes(d, s) # d[y].size + Bytes(d, s \ {y})
           C == {s \in SUBSET S : Bad(s)}
<1>1. SUFFICES ASSUME C # {} PROVE FALSE
  OBVIOUS
<1>2. \A s \in C : IsFiniteSet(s)
  BY FS_Subset
<1>3. PICK s \in C : \A t \in C : Cardinality(s) <= Cardinality(t)
  <2> HIDE DEF C
  <2> QED BY <1>1, <1>2, SmallestSet
<1>4. s \in SUBSET S /\ Bad(s) /\ IsFiniteSet(s)
  BY <1>2
<1>5. PICK y \in s : Bytes(d, s) # d[y].size + Bytes(d, s \ {y})
  BY <1>4
<1> DEFINE z == Pick(s)
<1>6. z \in s /\ Bytes(d, s) = d[z].size + Bytes(d, s \ {z})
  BY <1>4, <1>5, BytesStep DEF Pick
<1> HIDE DEF z
<1>7. y # z
  BY <1>5, <1>6
<1>8. ASSUME NEW v \in s
      PROVE  s \ {v} \in SUBSET S /\ IsFiniteSet(s \ {v}) /\ ~Bad(s \ {v})
  <2>1. /\ IsFiniteSet(s \ {v})
        /\ Cardinality(s) \in Nat
        /\ Cardinality(s \ {v}) \in Nat
        /\ Cardinality(s \ {v}) < Cardinality(s)
    BY <1>4, <1>5, PickSmaller
  <2>2. s \ {v} \in SUBSET S
    BY <1>4
  <2>3. s \ {v} \notin C
    BY <1>3, <2>1
  <2> QED BY <2>1, <2>2, <2>3
<1>9. Bytes(d, s \ {z}) = d[y].size + Bytes(d, (s \ {z}) \ {y})
  BY <1>6, <1>7, <1>8
<1>10. Bytes(d, s \ {y}) = d[z].size + Bytes(d, (s \ {y}) \ {z})
  <2>1. z \in s \ {y} /\ ~Bad(s \ {y})
    BY <1>6, <1>7, <1>8
  <2> QED BY <2>1
<1>11. (s \ {z}) \ {y} = (s \ {y}) \ {z}
  OBVIOUS
<1>12. /\ d[y].size \in Nat /\ d[z].size \in Nat
       /\ Bytes(d, (s \ {y}) \ {z}) \in Nat
  <2>1. IsFiniteSet((s \ {y}) \ {z})
    BY <1>8, FS_RemoveElement
  <2>2. \A k \in (s \ {y}) \ {z} : d[k].size \in Nat
    BY <1>4
  <2> QED BY <1>4, <1>6, <2>1, <2>2, BytesType
<1>13. Bytes(d, s \ {z}) = d[y].size + Bytes(d, (s \ {y}) \ {z})
  BY <1>9, <1>11
<1>14. d[z].size + (d[y].size + Bytes(d, (s \ {y}) \ {z}))
         = d[y].size + (d[z].size + Bytes(d, (s \ {y}) \ {z}))
  BY <1>12
<1>15. Bytes(d, s) = d[y].size + Bytes(d, s \ {y})
  BY <1>6, <1>10, <1>13, <1>14, Zenon
<1> QED BY <1>5, <1>15

\* The sum over a map without a key that is written or deleted.
LEMMA BytesWithout ==
  ASSUME NEW d \in [Keys -> Item \union {NoItem}], IsFiniteSet(Live(d)), NEW k \in Keys
  PROVE  /\ IsFiniteSet(Live(d) \ {k})
         /\ Bytes(d, Live(d) \ {k}) \in Nat
         /\ Bytes(d, Live(d)) = (IF d[k] = NoItem THEN 0 ELSE d[k].size) + Bytes(d, Live(d) \ {k})
<1>1. IsFiniteSet(Live(d) \ {k})
  BY FS_RemoveElement
<1>2. \A j \in Live(d) : d[j].size \in Nat
  BY DEF Live, Item
<1>3. Bytes(d, Live(d) \ {k}) \in Nat
  BY <1>1, <1>2, BytesType
<1>4. CASE d[k] = NoItem
  <2>1. Live(d) \ {k} = Live(d)
    BY <1>4 DEF Live
  <2> QED BY <1>1, <1>3, <1>4, <2>1
<1>5. CASE d[k] # NoItem
  <2>1. k \in Live(d)
    BY <1>5 DEF Live
  <2>2. Bytes(d, Live(d)) = d[k].size + Bytes(d, Live(d) \ {k})
    BY <1>2, <2>1, BytesSplit
  <2> QED BY <1>1, <1>3, <1>5, <2>2
<1> QED BY <1>4, <1>5

\* An item is written: the old size is given back and the new one taken.
LEMMA BytesPut ==
  ASSUME NEW d \in [Keys -> Item \union {NoItem}], IsFiniteSet(Live(d)), NEW k \in Keys,
         NEW item \in Item, item # NoItem, NEW e \in [Keys -> Item \union {NoItem}],
         \A j \in Keys : e[j] = IF j = k THEN item ELSE d[j]
  PROVE  /\ IsFiniteSet(Live(e))
         /\ Bytes(e, Live(e)) =
              Bytes(d, Live(d)) - (IF d[k] = NoItem THEN 0 ELSE d[k].size) + item.size
<1> DEFINE rest == Live(d) \ {k}
           old  == IF d[k] = NoItem THEN 0 ELSE d[k].size
<1>1. IsFiniteSet(rest) /\ Bytes(d, rest) \in Nat /\ Bytes(d, Live(d)) = old + Bytes(d, rest)
  BY BytesWithout
<1>2. item.size \in Nat /\ old \in Nat
  BY DEF Item
<1>3. e[k] = item
  OBVIOUS
<1>4. Live(e) = rest \union {k} /\ Live(e) \ {k} = rest
  BY DEF Live
<1>5. IsFiniteSet(Live(e))
  <2>1. IsFiniteSet(rest \union {k})
    BY <1>1, FS_AddElement
  <2> QED BY <1>4, <2>1
<1>6. Bytes(e, Live(e)) = item.size + Bytes(e, rest)
  BY <1>3, <1>4, <1>5, BytesWithout
<1>7. Bytes(e, rest) = Bytes(d, rest)
  <2>1. \A j \in rest : e[j].size = d[j].size
    BY DEF Live
  <2> HIDE DEF rest
  <2> QED BY <1>1, <2>1, BytesSame, ZenonT(30)
<1> HIDE DEF old, rest
<1>8. Bytes(e, Live(e)) = Bytes(d, Live(d)) - old + item.size
  BY <1>1, <1>2, <1>6, <1>7
<1> QED BY <1>5, <1>8 DEF old

\* A key is deleted: its size is given back.
LEMMA BytesDrop ==
  ASSUME NEW d \in [Keys -> Item \union {NoItem}], IsFiniteSet(Live(d)), NEW k \in Keys,
         d[k] # NoItem, NEW e \in [Keys -> Item \union {NoItem}],
         \A j \in Keys : e[j] = IF j = k THEN NoItem ELSE d[j]
  PROVE  /\ IsFiniteSet(Live(e))
         /\ Bytes(e, Live(e)) = Bytes(d, Live(d)) - d[k].size
<1> DEFINE rest == Live(d) \ {k}
<1>1. IsFiniteSet(rest) /\ Bytes(d, rest) \in Nat /\ Bytes(d, Live(d)) = d[k].size + Bytes(d, rest)
  BY BytesWithout
<1>2. d[k].size \in Nat
  BY DEF Item
<1>3. Live(e) = rest /\ \A j \in rest : e[j].size = d[j].size
  BY DEF Live
<1> HIDE DEF rest
<1>4. Bytes(e, rest) = Bytes(d, rest)
  BY <1>1, <1>3, BytesSame, ZenonT(30)
<1> QED BY <1>1, <1>2, <1>3, <1>4

\* An empty map takes no memory.
LEMMA BytesEmpty ==
  ASSUME NEW d, Live(d) = {}
  PROVE  IsFiniteSet(Live(d)) /\ Bytes(d, Live(d)) = 0
BY BytesStep, FS_EmptySet
-----------------------------------------------------------------------------
\* What the memory theorem rests on: the map is finite, and accounted for.
MInv == IsFiniteSet(Live(data)) /\ usedMemory = Bytes(data, Live(data))

\* A Set, a Get or a restored entry writes an item.
LEMMA MemoryPut ==
  ASSUME TypeOK, MInv, NEW k \in Keys, NEW item \in Item, item # NoItem,
         data' = [data EXCEPT ![k] = item],
         usedMemory' = usedMemory - (IF data[k] = NoItem THEN 0 ELSE data[k].size) + item.size
  PROVE  MInv'
<1>1. ASSUME NEW e, e = data'
      PROVE  IsFiniteSet(Live(e)) /\ usedMemory' = Bytes(e, Live(e))
  <2>1. /\ data \in [Keys -> Item \union {NoItem}] /\ IsFiniteSet(Live(data))
        /\ e \in [Keys -> Item \union {NoItem}]
        /\ \A j \in Keys : e[j] = IF j = k THEN item ELSE data[j]
    BY <1>1 DEF TypeOK, MInv
  <2>2. /\ IsFiniteSet(Live(e))
        /\ Bytes(e, Live(e)) =
             Bytes(data, Live(data)) - (IF data[k] = NoItem THEN 0 ELSE data[k].size) + item.size
    BY <2>1, BytesPut
  <2> QED BY <2>2 DEF MInv
<1> QED BY <1>1 DEF MInv

\* deleteKeyUnlocked gives the size of the key back.
LEMMA MemoryDelete ==
  ASSUME TypeOK, MInv, NEW k \in Keys, NEW q, deleteKeyUnlocked(k, q)
  PROVE  MInv'
<1>1. CASE data[k] = NoItem
  BY <1>1 DEF deleteKeyUnlocked, MInv
<1>2. CASE data[k] # NoItem
  <2>1. ASSUME NEW e, e = data'
        PROVE  IsFiniteSet(Live(e)) /\ usedMemory' = Bytes(e, Live(e))
    <3>1. /\ data \in [Keys -> Item \union {NoItem}] /\ IsFiniteSet(Live(data))
          /\ e \in [Keys -> Item \union {NoItem}]
          /\ \A j \in Keys : e[j] = IF j = k THEN NoItem ELSE data[j]
          /\ usedMemory' = usedMemory - data[k].size
      BY <1>2, <2>1 DEF TypeOK, MInv, deleteKeyUnlocked
    <3>2. IsFiniteSet(Live(e)) /\ Bytes(e, Live(e)) = Bytes(data, Live(data)) - data[k].size
      BY <1>2, <3>1, BytesDrop, Zenon
    <3> QED BY <3>1, <3>2 DEF MInv
  <2> QED BY <2>1 DEF MInv
<1> QED BY <1>1, <1>2

\* Steps that leave the map and the counter alone.
LEMMA MemoryUnchanged ==
  ASSUME MInv, UNCHANGED mapVars
  PROVE  MInv'
BY DEF MInv, mapVars

\* A store that starts has an empty map.
LEMMA MemoryReset ==
  ASSUME Live(data') = {}, usedMemory' = 0
  PROVE  MInv'
<1>1. ASSUME NEW e, e = data'
      PROVE  IsFiniteSet(Live(e)) /\ usedMemory' = Bytes(e, Live(e))
  BY <1>1, BytesEmpty
<1> QED BY <1>1 DEF MInv

\* Every step of the store keeps the account exact.
LEMMA MemoryStep ==
  ASSUME IInv, MInv, [Next]_vars
  PROVE  MInv'
<1>0. TypeOK /\ FifoTracksNonTTL /\ LoopInv
  BY DEF IInv
<1>1. ASSUME NEW k \in Keys, NEW v \in Values, NEW ttl \in TTLs, Set(k, v, ttl)
      PROVE  MInv'
  <2>1. expiryOf(ttl) \in Nat
    BY <1>0, StoreAssumption DEF expiryOf, TypeOK
  <2> DEFINE item == NewItem(k, v, expiryOf(ttl))
  <2>2. item \in Item /\ item # NoItem
    BY <1>0, <2>1, NewItemType
  <2>3. /\ data' = [data EXCEPT ![k] = item]
        /\ usedMemory' = usedMemory - (IF data[k] = NoItem THEN 0 ELSE data[k].size) + item.size
    BY <1>1 DEF Set
  <2> HIDE DEF item
  <2> QED BY <1>0, <2>2, <2>3, MemoryPut
<1>2. ASSUME NEW c \in Clients, Get(c)
      PROVE  MInv'
  <2>1. CASE UNCHANGED mapVars
    BY <2>1, MemoryUnchanged
  <2>2. CASE GetExpired(c)
    <3>1. get[c].key \in Keys
      BY <1>0, <2>2 DEF GetExpired, TypeOK, Idle
    <3> QED BY <1>0, <2>2, <3>1, MemoryDelete DEF GetExpired
  <2>3. CASE GetHit(c)
    <3> DEFINE k == get[c].key
               item == touch(data[k], get[c].now)
    <3>1. k \in Keys /\ get[c].now \in Nat
      BY <1>0, <2>3 DEF GetHit, TypeOK, Idle
    <3>2. data[k] \in Item /\ data[k] # NoItem
      BY <1>0, <2>3, <3>1 DEF GetHit, TypeOK
    <3>3. item \in Item /\ item # NoItem
      BY <1>0, <3>1, <3>2, TouchType
    <3>4. item.size = data[k].size
      BY <3>2 DEF touch, Item
    <3>5. data' = [data EXCEPT ![k] = item] /\ usedMemory' = usedMemory
      BY <2>3 DEF GetHit
    <3>6. usedMemory \in Int /\ data[k].size \in Nat
      BY <1>0, <3>2 DEF TypeOK, Item
    <3> HIDE DEF k, item
    <3>7. usedMemory' = usedMemory - (IF data[k] = NoItem THEN 0 ELSE data[k].size) + item.size
      BY <3>2, <3>4, <3>5, <3>6
    <3> QED BY <1>0, <3>1, <3>3, <3>5, <3>7, MemoryPut
  <2> QED BY <1>2, <2>1, <2>2, <2>3 DEF Get, GetCall, GetRLock, GetMiss
<1>3. ASSUME NEW k \in Keys, Delete(k) PROVE MInv'
  BY <1>0, <1>3, MemoryDelete DEF Delete
<1>4. CASE evictFIFO
  BY <1>0, <1>4, PopLemma, MemoryDelete DEF evictFIFO
<1>5. ASSUME NEW k \in Keys,
             evictTTL(k) \/ evictRandom(k) \/ sampleVisit(k) \/ sweepVisit(k)
      PROVE  MInv'
  <2>1. UNCHANGED mapVars \/ deleteKeyUnlocked(k, fifo)
    BY <1>5 DEF evictTTL, evictRandom, sampleVisit, sweepVisit
  <2> QED BY <1>0, <2>1, MemoryUnchanged, MemoryDelete
<1>6. ASSUME NEW e \in lruHeap \union lfuHeap, evictLRU(e) \/ evictLFU(e) PROVE MInv'
  <2>1. e.key \in Keys
    BY <1>0 DEF TypeOK, LruEntry, LfuEntry
  <2>2. UNCHANGED mapVars \/ deleteKeyUnlocked(e.key, fifo)
    BY <1>6 DEF evictLRU, evictLFU, evictPopped
  <2> QED BY <1>0, <2>1, <2>2, MemoryUnchanged, MemoryDelete
<1>7. CASE evictReturn \/ activeExpire \/ sampleDone \/ sweepDone \/ SnapshotEntries
           \/ restoreDone \/ Tick \/ UNCHANGED vars
  BY <1>7, MemoryUnchanged DEF evictReturn, activeExpire, sampleDone, sweepDone,
     SnapshotEntries, restoreDone, Tick, vars
<1>8. ASSUME NEW p \in Policies, NEW m \in MaxMemories, Restart(p, m) PROVE MInv'
  <2>1. Live(data') = {} /\ usedMemory' = 0
    BY <1>8 DEF Restart, Live
  <2> QED BY <2>1, MemoryReset
<1>9. ASSUME NEW k \in Keys, restoreEntry(k) PROVE MInv'
  <2> DEFINE item == NewItem(k, snapshot[k].value, snapshot[k].expiresAt)
  <2>1. CASE UNCHANGED mapVars
    BY <2>1, MemoryUnchanged
  <2>2. CASE data' = [data EXCEPT ![k] = item] /\ usedMemory' = usedMemory + item.size
    <3>1. snapshot[k] \in Entry /\ data[k] = NoItem
      BY <1>0, <1>9 DEF restoreEntry, LoopInv, TypeOK
    <3>2. item \in Item /\ item # NoItem
      BY <1>0, <3>1, NewItemType DEF Entry
    <3>3. item.size \in Nat /\ usedMemory \in Int
      BY <1>0, <3>2 DEF Item, TypeOK
    <3> HIDE DEF item
    <3>4. usedMemory' = usedMemory - (IF data[k] = NoItem THEN 0 ELSE data[k].size) + item.size
      BY <2>2, <3>1, <3>3
    <3> QED BY <1>0, <2>2, <3>2, <3>4, MemoryPut
  <2> QED BY <1>9, <2>1, <2>2 DEF restoreEntry
<1> QED BY <1>1, <1>2, <1>3, <1>4, <1>5, <1>6, <1>7, <1>8, <1>9
        DEF Next, Evict, Expire, Restore

\* usedMemory is the sum of the sizes of the items in the map, whatever was
\* overwritten, evicted, expired, deleted or restored.
THEOREM MemoryCorrect == Spec => []MemoryAccounting
<1>1. Init => MInv
  <2> SUFFICES ASSUME Init PROVE MInv
    OBVIOUS
  <2>1. Live(data) = {} /\ usedMemory = 0
    BY DEF Init, Live
  <2> QED BY <2>1, BytesEmpty DEF MInv
<1>2. IInv /\ MInv /\ [Next]_vars => MInv'
  BY MemoryStep
<1>3. MInv => MemoryAccounting
  BY DEF MInv, MemoryAccounting, Bytes
<1> QED BY <1>1, <1>2, <1>3, Invariance, PTL DEF Spec
-----------------------------------------------------------------------------
(* Gets and what they may answer *)

\* A pending Get has seen what its key holds between critical sections; and
\* if it would still return the item the key has now, it has seen its value,
\* or a loop holds the lock and will leave the item where a reader can see it.
ReadInv ==
  \A c \in Clients : get[c] # Idle =>
    LET k == get[c].key IN
    /\ mu = "free" => Visible(data, k, clock) \in seen[c]
    /\ data[k] # NoItem /\ ~IsExpired(data[k], get[c].now) =>
         \/ data[k].value \in seen[c]
         \/ mu # "free" /\ ~IsExpired(data[k], clock)

\* A step takes the item of a key away, keeps its value and expiry time, or
\* puts a new one there that has not expired.
ItemStep(k) ==
  \/ data'[k] = NoItem
  \/ /\ data[k] # NoItem
     /\ data'[k].value = data[k].value /\ data'[k].expiresAt = data[k].expiresAt
  \/ ~IsExpired(data'[k], clock')

\* A deletion takes away one item at most.
LEMMA DeletionItemStep ==
  ASSUME TypeOK, NEW j \in Keys, NEW q, deleteKeyUnlocked(j, q) \/ UNCHANGED mapVars, NEW k \in Keys
  PROVE  ItemStep(k)
BY DEF TypeOK, deleteKeyUnlocked, mapVars, ItemStep

\* Every step does that to every key.
LEMMA EveryItemStep ==
  ASSUME IInv, [Next]_vars, NEW k \in Keys
  PROVE  ItemStep(k)
<1>0. TypeOK /\ FifoTracksNonTTL /\ LoopInv
  BY DEF IInv
<1>u. ASSUME UNCHANGED data PROVE ItemStep(k)
  BY <1>u DEF ItemStep
<1>1. ASSUME NEW j \in Keys, NEW v \in Values, NEW ttl \in TTLs, Set(j, v, ttl)
      PROVE  ItemStep(k)
  <2>1. data' = [data EXCEPT ![j] = NewItem(j, v, expiryOf(ttl))] /\ clock' = clock
    BY <1>1 DEF Set
  <2>2. ~IsExpired(NewItem(j, v, expiryOf(ttl)), clock)
    BY <1>0, StoreAssumption DEF NewItem, IsExpired, expiryOf, TypeOK
  <2> QED BY <1>0, <2>1, <2>2 DEF ItemStep, TypeOK
<1>2. ASSUME NEW c \in Clients, Get(c) PROVE ItemStep(k)
  <2>1. CASE GetExpired(c)
    <3>1. get[c].key \in Keys
      BY <1>0, <2>1 DEF GetExpired, TypeOK, Idle
    <3> QED BY <1>0, <2>1, <3>1, DeletionItemStep DEF GetExpired
  <2>2. CASE GetHit(c)
    <3> DEFINE j == get[c].key
    <3>1. j \in Keys /\ data[j] \in Item
      BY <1>0, <2>2 DEF GetHit, TypeOK, Idle
    <3>2. data' = [data EXCEPT ![j] = touch(data[j], get[c].now)]
      BY <2>2 DEF GetHit
    <3>3. touch(data[j], get[c].now).value = data[j].value
          /\ touch(data[j], get[c].now).expiresAt = data[j].expiresAt
      BY <3>1 DEF touch, Item
    <3> HIDE DEF j
    <3> QED BY <1>0, <3>1, <3>2, <3>3, StoreAssumption DEF ItemStep, TypeOK
  <2> QED BY <1>2, <1>u, <2>1, <2>2 DEF Get, GetCall, GetRLock, GetMiss, mapVars
<1>3. ASSUME NEW j \in Keys, Delete(j) PROVE ItemStep(k)
  BY <1>0, <1>3, DeletionItemStep DEF Delete
<1>4. CASE Evict
  <2>1. CASE evictFIFO
    <3>1. data' = [data EXCEPT ![Head(fifo)] = NoItem]
      BY <1>0, <2>1, PopLemma DEF evictFIFO
    <3> QED BY <1>0, <3>1 DEF ItemStep, TypeOK
  <2>2. ASSUME NEW j \in Keys, evictTTL(j) \/ evictRandom(j) PROVE ItemStep(k)
    <3>1. deleteKeyUnlocked(j, fifo) \/ UNCHANGED mapVars
      BY <2>2 DEF evictTTL, evictRandom
    <3> QED BY <1>0, <3>1, DeletionItemStep
  <2>3. ASSUME NEW e \in lruHeap \union lfuHeap, evictPopped(e) PROVE ItemStep(k)
    <3>1. e.key \in Keys
      BY <1>0 DEF TypeOK, LruEntry, LfuEntry
    <3>2. deleteKeyUnlocked(e.key, fifo) \/ UNCHANGED mapVars
      BY <2>3 DEF evictPopped
    <3> QED BY <1>0, <3>1, <3>2, DeletionItemStep
  <2> QED BY <1>4, <1>u, <2>1, <2>2, <2>3 DEF Evict, evictLRU, evictLFU, evictReturn, mapVars
<1>5. CASE activeExpire \/ Expire
  <2>1. ASSUME NEW j \in Keys, sampleVisit(j) \/ sweepVisit(j) PROVE ItemStep(k)
    <3>1. deleteKeyUnlocked(j, fifo) \/ UNCHANGED mapVars
      BY <2>1 DEF sampleVisit, sweepVisit
    <3> QED BY <1>0, <3>1, DeletionItemStep
  <2> QED BY <1>5, <1>u, <2>1 DEF Expire, activeExpire, sampleDone, sweepDone, mapVars
<1>6. ASSUME NEW p \in Policies, NEW m \in MaxMemories, Restart(p, m) PROVE ItemStep(k)
  BY <1>6 DEF Restart, ItemStep
<1>7. CASE Restore
  <2>1. ASSUME NEW j \in Keys, restoreEntry(j) PROVE ItemStep(k)
    <3> DEFINE item == NewItem(j, snapshot[j].value, snapshot[j].expiresAt)
    <3>1. \/ UNCHANGED data
          \/ data' = [data EXCEPT ![j] = item] /\ clock' = clock /\ ~IsExpired(snapshot[j], clock)
      BY <2>1 DEF restoreEntry, mapVars
    <3>2. IsExpired(item, clock) <=> IsExpired(snapshot[j], clock)
      BY DEF NewItem, IsExpired
    <3> HIDE DEF item
    <3> QED BY <1>0, <1>u, <3>1, <3>2 DEF ItemStep, TypeOK
  <2> QED BY <1>7, <1>u, <2>1 DEF Restore, restoreDone, mapVars
<1>8. CASE SnapshotEntries \/ Tick \/ UNCHANGED vars
  BY <1>u, <1>8 DEF SnapshotEntries, Tick, vars, mapVars
<1> QED BY <1>1, <1>2, <1>3, <1>4, <1>5, <1>6, <1>7, <1>8 DEF Next

\* A Get is called with the time of the clock, goes on with the time and key
\* it has, or ends; and time does not pass while a loop holds the lock.
LEMMA EveryGetStep ==
  ASSUME IInv, [Next]_vars, NEW c \in Clients
  PROVE  /\ get'[c] # Idle =>
              \/ get[c] # Idle /\ get'[c].key = get[c].key /\ get'[c].now = get[c].now
              \/ get'[c].now = clock /\ clock' = clock
         /\ mu # "free" => clock' = clock
<1>0. TypeOK
  BY DEF IInv
<1>1. CASE \E d \in Clients : Get(d)
  <2>1. PICK d \in Clients : Get(d)
    BY <1>1
  <2>2. clock' = clock
    BY <2>1 DEF Get, GetCall, GetRLock, GetMiss, GetExpired, GetHit, GetFrame
  <2>3. CASE c # d
    <3>1. get'[c] = get[c]
      BY <1>0, <2>1, <2>3 DEF TypeOK, Get, GetCall, GetRLock, GetMiss, GetExpired, GetHit
    <3> QED BY <2>2, <3>1
  <2>4. CASE c = d
    <3>1. ASSUME NEW k \in Keys, GetCall(c, k) PROVE get'[c].now = clock
      BY <1>0, <3>1 DEF TypeOK, GetCall
    <3>2. CASE GetRLock(c)
      <4>1. get[c] # Idle
        BY <3>2 DEF GetRLock, Idle
      <4>2. get'[c] = Idle \/ get'[c] = [get[c] EXCEPT !.phase = "lock"]
        BY <1>0, <3>2 DEF TypeOK, GetRLock
      <4>3. get'[c] # Idle => get'[c].key = get[c].key /\ get'[c].now = get[c].now
        BY <1>0, <4>1, <4>2 DEF TypeOK
      <4> QED BY <2>2, <4>1, <4>3
    <3>3. CASE GetMiss(c) \/ GetExpired(c) \/ GetHit(c)
      BY <1>0, <2>2, <3>3 DEF TypeOK, GetMiss, GetExpired, GetHit
    <3> QED BY <2>1, <2>2, <2>4, <3>1, <3>2, <3>3 DEF Get
  <2> QED BY <2>3, <2>4
<1>2. ASSUME NEW p \in Policies, NEW m \in MaxMemories, Restart(p, m)
      PROVE  get'[c] = Idle /\ clock' = clock
  BY <1>2 DEF Restart
<1>3. CASE Tick
  BY <1>3 DEF Tick
<1>4. CASE \/ \E k \in Keys, v \in Values, ttl \in TTLs : Set(k, v, ttl)
           \/ \E k \in Keys : Delete(k)
           \/ Evict \/ activeExpire \/ Expire \/ SnapshotEntries \/ Restore \/ UNCHANGED vars
  <2>1. get' = get /\ clock' = clock
    BY <1>4 DEF Set, Delete, Evict, evictFIFO, evictTTL, evictRandom, evictLRU, evictLFU,
       evictReturn, EvictFrame, activeExpire, Expire, sampleVisit, sweepVisit, sampleDone,
       sweepDone, ExpireFrame, SnapshotEntries, Restore, restoreEntry, restoreDone, GetFrame, vars
  <2> QED BY <2>1
<1> QED BY <1>1, <1>2, <1>3, <1>4 DEF Next

\* What a pending Get may answer stays among what it has seen.
LEMMA ReadStep == IInv /\ IInv' /\ ReadInv /\ [HNext]_hvars => ReadInv'
<1> SUFFICES ASSUME IInv, IInv', ReadInv, [HNext]_hvars, NEW c \in Clients, get'[c] # Idle
             PROVE  LET k == get'[c].key IN
                    /\ mu' = "free" => Visible(data', k, clock') \in seen'[c]
                    /\ data'[k] # NoItem /\ ~IsExpired(data'[k], get'[c].now) =>
                         \/ data'[k].value \in seen'[c]
                         \/ mu' # "free" /\ ~IsExpired(data'[k], clock')
  BY DEF ReadInv
<1> DEFINE k == get'[c].key
<1>1. CASE UNCHANGED hvars
  BY <1>1 DEF hvars, vars, mapVars, loopVars, ReadInv
<1>2. CASE HNext
  <2>1. seen'[c] = IF mu' = "free" THEN seen[c] \union {Visible(data', k, clock')} ELSE seen[c]
    BY <1>2 DEF HNext, Observe
  <2>2. k \in Keys /\ data'[k] \in Item \union {NoItem}
    BY DEF IInv, TypeOK, Idle
  <2>3. ASSUME data'[k] # NoItem, ~IsExpired(data'[k], get'[c].now)
        PROVE  \/ data'[k].value \in seen'[c]
               \/ mu' # "free" /\ ~IsExpired(data'[k], clock')
    <3>1. CASE ~IsExpired(data'[k], clock')
      <4>1. Visible(data', k, clock') = data'[k].value
        <5>1. data'[k].expiresAt \in Nat /\ clock' \in Nat
          BY <2>2, <2>3 DEF Item, IInv, TypeOK
        <5> QED BY <2>3, <3>1, <5>1 DEF Visible, IsExpired
      <4> QED BY <2>1, <3>1, <4>1
    <3>2. CASE IsExpired(data'[k], clock')
      <4>1. /\ data[k] # NoItem
            /\ data'[k].value = data[k].value /\ data'[k].expiresAt = data[k].expiresAt
        BY <1>2, <2>2, <2>3, <3>2, EveryItemStep DEF HNext, ItemStep
      <4>2. /\ get[c] # Idle /\ get'[c].key = get[c].key /\ get'[c].now = get[c].now
            /\ mu # "free" => clock' = clock
        BY <1>2, <2>3, <3>2, EveryGetStep DEF HNext
      <4>3. data[k].value \in seen[c] \/ (mu # "free" /\ ~IsExpired(data[k], clock))
        BY <2>3, <4>1, <4>2 DEF ReadInv, IsExpired
      <4> QED BY <2>1, <3>2, <4>1, <4>2, <4>3 DEF IsExpired
    <3> QED BY <3>1, <3>2
  <2> QED BY <2>1, <2>3
<1> QED BY <1>1, <1>2

\* A Get answers with something that was true of its key since its call,
\* for any number of clients, keys and steps in between.
THEOREM ReadsCorrect == HSpec => GetLinearizable
<1>1. HInit => IInv /\ ReadInv
  BY InitInv DEF HInit, Init, ReadInv
<1>2. IInv /\ [HNext]_hvars => IInv'
  BY StepInv DEF HNext, hvars
<1>3. IInv /\ IInv' /\ ReadInv /\ [HNext]_hvars => ReadInv'
  BY ReadStep
<1>4. ASSUME IInv, ReadInv, [HNext]_hvars
      PROVE  [\A c \in Clients : get[c] # Idle /\ get'[c] = Idle /\ mu' # "restore" =>
                getReply(c) \in seen[c]]_hvars
  <2> SUFFICES ASSUME HNext, NEW c \in Clients, get[c] # Idle, get'[c] = Idle, mu' # "restore"
               PROVE  getReply(c) \in seen[c]
    BY <1>4
  <2> DEFINE k == get[c].key
  <2>0. TypeOK /\ LoopInv
    BY <1>4 DEF IInv
  <2>1. GetRLock(c) \/ GetMiss(c) \/ GetExpired(c) \/ GetHit(c)
    BY <2>0, SMTT(20) DEF HNext, Next, Set, Get, GetCall, GetRLock, GetMiss, GetExpired, GetHit, Delete,
           Evict, EvictFrame, evictFIFO, evictTTL, evictRandom, evictLRU, evictLFU, evictReturn,
           activeExpire, Expire, sampleVisit, sweepVisit, sampleDone, sweepDone, ExpireFrame,
           SnapshotEntries, Restart, Restore, restoreEntry, restoreDone, Tick, GetFrame, TypeOK
  <2>2. mu = "free"
    BY <2>1 DEF GetRLock, GetMiss, GetExpired, GetHit
  <2>3. /\ Visible(data, k, clock) \in seen[c]
        /\ data[k] # NoItem /\ ~IsExpired(data[k], get[c].now) => data[k].value \in seen[c]
    BY <1>4, <2>2 DEF ReadInv
  <2>4. k \in Keys /\ get[c].now \in Nat /\ get[c].now <= clock /\ clock \in Nat
    BY <2>0 DEF TypeOK, LoopInv, Idle
  <2>5. CASE GetRLock(c)
    <3>1. data[k] = NoItem /\ get[c].phase = "rlock"
      <4>1. get'[c] = IF data[k] = NoItem THEN Idle ELSE [get[c] EXCEPT !.phase = "lock"]
        BY <2>0, <2>5 DEF TypeOK, GetRLock
      <4>2. [get[c] EXCEPT !.phase = "lock"].phase = "lock"
        BY <2>0 DEF TypeOK
      <4> QED BY <2>5, <4>1, <4>2 DEF GetRLock, Idle
    <3> QED BY <2>3, <3>1 DEF getReply, Visible
  <2>6. CASE GetMiss(c)
    BY <2>3, <2>6 DEF GetMiss, getReply, Visible
  <2>7. CASE GetExpired(c)
    <3>1. data[k] \in Item
      BY <2>0, <2>4, <2>7 DEF TypeOK, GetExpired
    <3>2. Visible(data, k, clock) = NotFound
      BY <2>4, <2>7, <3>1 DEF GetExpired, IsExpired, Item, Visible
    <3> QED BY <2>3, <2>7, <3>2 DEF GetExpired, getReply
  <2>8. CASE GetHit(c)
    BY <2>3, <2>8 DEF GetHit, getReply
  <2> QED BY <2>1, <2>5, <2>6, <2>7, <2>8
<1> QED BY <1>1, <1>2, <1>3, <1>4, PTL DEF HSpec, GetLinearizable
-----------------------------------------------------------------------------
(* The ring buffer of non-TTL keys: the entries without the tombstones.     *)

\* f[n] is what is left of the first n entries of w.
Copies(f, w) ==
  f = [n \in 0..Len(w) |->
         IF n = 0 THEN <<>>
         ELSE IF IsKey(w[n]) THEN Append(f[n - 1], w[n]) ELSE f[n - 1]]

\* There is exactly one such function, and it computes Packed.
LEMMA CopiesExist ==
  ASSUME NEW S, NEW w \in Seq(S)
  PROVE  /\ \E f : Copies(f, w)
         /\ \A f : Copies(f, w) => f[Len(w)] = Packed(w) /\ f \in [0..Len(w) -> Seq(S)]
<1> DEFINE step == [n \in Nat |-> [s \in Seq(S) |->
                      IF n \in 1..Len(w) /\ IsKey(w[n]) THEN Append(s, w[n]) ELSE s]]
<1>1. step \in [Nat -> [Seq(S) -> Seq(S)]] /\ <<>> \in Seq(S)
  OBVIOUS
<1>2. PICK f \in [Nat -> Seq(S)] : f[0] = <<>> /\ \A n \in Nat \ {0} : f[n] = step[n][f[n - 1]]
  <2> HIDE DEF step
  <2>1. \E f \in [Nat -> Seq(S)] : Follows(f, <<>>, step)
    BY <1>1, Recursion
  <2> QED BY <2>1 DEF Follows
<1> DEFINE g == [n \in 0..Len(w) |-> f[n]]
<1>3. ASSUME NEW n \in 0..Len(w)
      PROVE  g[n] = IF n = 0 THEN <<>>
                    ELSE IF IsKey(w[n]) THEN Append(g[n - 1], w[n]) ELSE g[n - 1]
  <2>1. CASE n = 0
    BY <1>2, <2>1
  <2>2. CASE n # 0
    <3>1. n \in Nat \ {0} /\ n \in 1..Len(w) /\ n - 1 \in Nat /\ n - 1 \in 0..Len(w)
      BY <2>2
    <3>2. f[n] = step[n][f[n - 1]] /\ f[n - 1] \in Seq(S)
      BY <1>2, <3>1
    <3> QED BY <2>2, <3>1, <3>2
  <2> QED BY <2>1, <2>2
<1>4. g = [n \in 0..Len(w) |-> g[n]] /\ g \in [0..Len(w) -> Seq(S)]
  OBVIOUS
<1> HIDE DEF g, step
<1>5. Copies(g, w)
  BY <1>3, <1>4 DEF Copies
<1>6. ASSUME NEW h, Copies(h, w) PROVE h = g
  <2> DEFINE D == {i \in 0..Len(w) : g[i] # h[i]}
  <2>1. D = {}
    <3> SUFFICES ASSUME D # {} PROVE FALSE
      OBVIOUS
    <3>1. PICK i \in D : \A j \in D : i <= j
      <4>1. D \subseteq Nat
        OBVIOUS
      <4> QED BY <4>1, LeastNatural
    <3>2. i # 0
      BY <1>5, <1>6 DEF Copies
    <3>3. i \in 0..Len(w) /\ i - 1 \in 0..Len(w) /\ ~(i <= i - 1)
      <4>1. i \in 0..Len(w) /\ Len(w) \in Nat
        OBVIOUS
      <4> HIDE DEF D
      <4> QED BY <3>2, <4>1
    <3>4. g[i - 1] = h[i - 1]
      BY <3>1, <3>3
    <3> QED BY <1>5, <1>6, <3>2, <3>4 DEF Copies
  <2>2. h = [i \in 0..Len(w) |-> h[i]]
    BY <1>6 DEF Copies
  <2> QED BY <1>4, <2>1, <2>2
<1>7. Packed(w) = (CHOOSE h : Copies(h, w))[Len(w)]
  BY DEF Packed, Copies
<1> QED BY <1>4, <1>5, <1>6, <1>7

\* Nothing is left of the empty window.
LEMMA PackedEmpty == Packed(<<>>) = <<>>
<1>1. <<>> \in Seq({})
  OBVIOUS
<1>2. PICK f : Copies(f, <<>>)
  BY <1>1, CopiesExist
<1>3. f[Len(<<>>)] = Packed(<<>>)
  BY <1>1, <1>2, CopiesExist
<1> QED BY <1>2, <1>3 DEF Copies

\* An entry after the others is copied after them, a tombstone is not.
LEMMA PackedAppend ==
  ASSUME NEW S, NEW w \in Seq(S), NEW k \in S
  PROVE  /\ Packed(w) \in Seq(S)
         /\ Packed(Append(w, k)) = IF IsKey(k) THEN Append(Packed(w), k) ELSE Packed(w)
<1> DEFINE v == Append(w, k)
<1>1. /\ v \in Seq(S) /\ Len(v) = Len(w) + 1 /\ v[Len(w) + 1] = k
      /\ \A i \in 1..Len(w) : v[i] = w[i]
      /\ Len(w) \in Nat
  OBVIOUS
<1> HIDE DEF v
<1>2. PICK f : Copies(f, v)
  BY <1>1, CopiesExist
<1>3. f[Len(v)] = Packed(v)
  BY <1>1, <1>2, CopiesExist
<1> DEFINE g == [n \in 0..Len(w) |-> f[n]]
<1>4. ASSUME NEW n \in 0..Len(w)
      PROVE  g[n] = IF n = 0 THEN <<>>
                    ELSE IF IsKey(w[n]) THEN Append(g[n - 1], w[n]) ELSE g[n - 1]
  <2>1. n \in 0..Len(v) /\ n \in Nat /\ (n # 0 => n - 1 \in 0..Len(w) /\ v[n] = w[n])
    BY <1>1
  <2>2. f[n] = IF n = 0 THEN <<>>
               ELSE IF IsKey(v[n]) THEN Append(f[n - 1], v[n]) ELSE f[n - 1]
    BY <1>2, <2>1 DEF Copies
  <2> QED BY <2>1, <2>2
<1>5. g = [n \in 0..Len(w) |-> g[n]] /\ g[Len(w)] = f[Len(w)]
  BY <1>1
<1> HIDE DEF g
<1>6. Copies(g, w)
  BY <1>4, <1>5 DEF Copies
<1>7. Packed(w) = f[Len(w)] /\ Packed(w) \in Seq(S)
  <2>1. g[Len(w)] = Packed(w) /\ g \in [0..Len(w) -> Seq(S)]
    BY <1>6, CopiesExist
  <2> QED BY <1>1, <1>5, <2>1
<1>8. f[Len(v)] = IF IsKey(k) THEN Append(f[Len(w)], k) ELSE f[Len(w)]
  <2>1. Len(v) \in 0..Len(v) /\ Len(v) # 0 /\ Len(v) - 1 = Len(w) /\ v[Len(v)] = k
    BY <1>1
  <2>2. f[Len(v)] = IF IsKey(v[Len(v)]) THEN Append(f[Len(v) - 1], v[Len(v)]) ELSE f[Len(v) - 1]
    BY <1>2, <2>1 DEF Copies
  <2> QED BY <2>1, <2>2
<1> QED BY <1>3, <1>7, <1>8 DEF v

\* Copying drops the tombstones and nothing else.
LEMMA PackedProperties ==
  ASSUME NEW S, NEW w \in Seq(S)
  PROVE  /\ Packed(w) \in Seq(S)
         /\ ToSet(Packed(w)) = ToSet(w) \ {EmptyKey}
         /\ Len(Packed(w)) <= Len(w)
<1> DEFINE P(v) == /\ Packed(v) \in Seq(S)
                   /\ ToSet(Packed(v)) = ToSet(v) \ {EmptyKey}
                   /\ Len(Packed(v)) <= Len(v)
           T == {v \in Seq(S) : P(v)}
<1>1. <<>> \in T
  <2>1. ToSet(<<>>) = {} /\ <<>> \in Seq(S) /\ Len(<<>>) <= Len(<<>>)
    BY DEF ToSet
  <2>2. P(<<>>)
    <3> DEFINE e == <<>>
    <3>1. ToSet(e) = {} /\ e \in Seq(S) /\ Len(e) <= Len(e) /\ Packed(e) = e
      BY <2>1, PackedEmpty
    <3> HIDE DEF e
    <3>2. P(e)
      BY <3>1
    <3> QED BY <3>2 DEF e
  <2> QED BY <2>1, <2>2
<1>2. ASSUME NEW v \in Seq(S), NEW k \in S, v \in T PROVE Append(v, k) \in T
  <2> DEFINE a == Append(v, k)
  <2>1. a \in Seq(S) /\ Len(a) = Len(v) + 1 /\ ToSet(a) = ToSet(v) \union {k} /\ P(v)
    BY <1>2, AppendSet
  <2>2. Packed(a) = IF IsKey(k) THEN Append(Packed(v), k) ELSE Packed(v)
    BY PackedAppend
  <2>3. CASE IsKey(k)
    <3>1. ToSet(Packed(a)) = ToSet(Packed(v)) \union {k}
      BY <2>1, <2>2, <2>3, AppendSet
    <3>2. Packed(a) \in Seq(S) /\ Len(Packed(a)) = Len(Packed(v)) + 1
      BY <2>1, <2>2, <2>3
    <3> HIDE DEF a
    <3>3. P(a)
      BY <2>1, <2>3, <3>1, <3>2 DEF IsKey
    <3> QED BY <2>1, <3>3 DEF a
  <2>4. CASE ~IsKey(k)
    <3> HIDE DEF a
    <3>3. P(a)
      BY <2>1, <2>2, <2>4 DEF IsKey
    <3> QED BY <2>1, <3>3 DEF a
  <2> QED BY <2>3, <2>4
<1> HIDE DEF T
<1>3. Seq(S) \subseteq T
  BY <1>1, <1>2, SequenceInduction
<1> QED BY <1>3 DEF T

\* Two parts may be copied one after the other.
LEMMA PackedConcat ==
  ASSUME NEW S, NEW u \in Seq(S), NEW w \in Seq(S)
  PROVE  Packed(u \o w) = Packed(u) \o Packed(w)
<1> DEFINE T == {v \in Seq(S) : Packed(u \o v) = Packed(u) \o Packed(v)}
<1>0. Packed(u) \in Seq(S)
  BY PackedProperties
<1>1. <<>> \in T
  <2>1. u \o <<>> = u /\ Packed(u) \o <<>> = Packed(u) /\ <<>> \in Seq(S)
    BY <1>0
  <2> QED BY <2>1, PackedEmpty
<1>2. ASSUME NEW v \in Seq(S), NEW k \in S, v \in T PROVE Append(v, k) \in T
  <2>1. u \o Append(v, k) = Append(u \o v, k) /\ u \o v \in Seq(S) /\ Append(v, k) \in Seq(S)
    OBVIOUS
  <2>2. Packed(u \o v) = Packed(u) \o Packed(v) /\ Packed(v) \in Seq(S)
    BY <1>2, PackedProperties
  <2>3. Packed(Append(u \o v, k)) = IF IsKey(k) THEN Append(Packed(u \o v), k) ELSE Packed(u \o v)
    BY <2>1, PackedAppend
  <2>4. Packed(Append(v, k)) = IF IsKey(k) THEN Append(Packed(v), k) ELSE Packed(v)
    BY PackedAppend
  <2>5. Packed(u) \o Append(Packed(v), k) = Append(Packed(u) \o Packed(v), k)
    BY <1>0, <2>2
  <2> QED BY <2>1, <2>2, <2>3, <2>4, <2>5
<1> HIDE DEF T
<1>3. Seq(S) \subseteq T
  BY <1>1, <1>2, SequenceInduction
<1> QED BY <1>3 DEF T

\* Copying a sequence without tombstones changes nothing.
LEMMA PackedKeys ==
  ASSUME NEW S, NEW w \in Seq(S), EmptyKey \notin ToSet(w)
  PROVE  Packed(w) = w
<1> DEFINE T == {v \in Seq(S) : EmptyKey \notin ToSet(v) => Packed(v) = v}
<1>1. <<>> \in T
  BY PackedEmpty
<1>2. ASSUME NEW v \in Seq(S), NEW k \in S, v \in T PROVE Append(v, k) \in T
  <2>1. Append(v, k) \in Seq(S) /\ ToSet(Append(v, k)) = ToSet(v) \union {k}
    BY AppendSet
  <2>2. Packed(Append(v, k)) = IF IsKey(k) THEN Append(Packed(v), k) ELSE Packed(v)
    BY PackedAppend
  <2> QED BY <1>2, <2>1, <2>2 DEF IsKey
<1> HIDE DEF T
<1>3. Seq(S) \subseteq T
  BY <1>1, <1>2, SequenceInduction
<1> QED BY <1>3 DEF T

\* Marking the first entry that holds a key takes the key out of what is left.
LEMMA PackedMark ==
  ASSUME NEW S, NEW w \in Seq(S), NEW e \in Seq(S), Len(e) = Len(w), NEW i \in 1..Len(w),
         \A j \in 1..i-1 : w[j] # w[i],
         \A j \in 1..Len(w) : j # i => e[j] = w[j],
         e[i] = EmptyKey
  PROVE  Packed(e) = RemoveFirst(Packed(w), w[i])
<1> DEFINE k == w[i]
<1>0. k \in S /\ EmptyKey \in S
  OBVIOUS
<1>1. PICK a \in Seq(S), b \in Seq(S) : Around(w, i, a, b)
  BY AroundExists
<1>2. k \notin ToSet(a)
  BY <1>1 DEF ToSet, Around
<1>8. w = Join(a, k, b)
  BY <1>1, AroundJoin
<1>9. e = Join(a, EmptyKey, b)
  BY <1>1, AroundJoin
<1> HIDE DEF k
<1>3. /\ Packed(a) \in Seq(S) /\ Packed(b) \in Seq(S) /\ Packed(w) \in Seq(S)
      /\ ToSet(Packed(a)) = ToSet(a) \ {EmptyKey}
      /\ ToSet(Packed(w)) = ToSet(w) \ {EmptyKey}
  BY PackedProperties
<1>4. ASSUME NEW x \in S
      PROVE  Packed(Join(a, x, b))
             = (IF IsKey(x) THEN Append(Packed(a), x) ELSE Packed(a)) \o Packed(b)
  <2>1. Append(a, x) \in Seq(S)
    OBVIOUS
  <2>2. Packed(Append(a, x) \o b) = Packed(Append(a, x)) \o Packed(b)
    BY <2>1, PackedConcat
  <2> QED BY <2>2, PackedAppend DEF Join
<1>5. Packed(e) = Packed(a) \o Packed(b)
  BY <1>0, <1>9, <1>4 DEF IsKey
<1>6. CASE k = EmptyKey
  <2>1. Packed(w) = Packed(e)
    BY <1>8, <1>9, <1>6
  <2>2. RemoveFirst(Packed(w), k) = Packed(w)
    BY <1>3, <1>6, RemoveFirstAbsent
  <2> QED BY <2>1, <2>2 DEF k
<1>7. CASE k # EmptyKey
  <2>1. Packed(w) = Join(Packed(a), k, Packed(b))
    BY <1>0, <1>8, <1>4, <1>7 DEF IsKey, Join
  <2>2. k \notin ToSet(Packed(a))
    BY <1>2, <1>3
  <2>3. RemoveFirst(Join(Packed(a), k, Packed(b)), k) = Packed(a) \o Packed(b)
    <3> DEFINE p == Packed(a)
               r == Packed(b)
    <3>1. p \in Seq(S) /\ r \in Seq(S) /\ k \in S /\ k \notin ToSet(p)
      BY <1>0, <1>3, <2>2 DEF k
    <3> HIDE DEF p, r
    <3>2. RemoveFirst(Join(p, k, r), k) = p \o r
      BY <3>1, RemoveFirstSplit
    <3> QED BY <3>2 DEF p, r
  <2> QED BY <1>5, <2>1, <2>3 DEF k
<1> QED BY <1>6, <1>7
-----------------------------------------------------------------------------
(* Slots and entries of the ring *)

\* The remainder of a sum of two positions of a ring of c slots.
LEMMA ModSum ==
  ASSUME NEW c \in Nat \ {0}, NEW a \in 0..c-1, NEW b \in 0..c-1
  PROVE  (a + b) % c = IF a + b < c THEN a + b ELSE a + b - c
OBVIOUS

\* A position of the ring is its own remainder.
LEMMA ModSmall ==
  ASSUME NEW c \in Nat \ {0}, NEW a \in 0..c-1
  PROVE  (0 + a) % c = a
OBVIOUS

\* Going n and then j positions on is going n + j on.
LEMMA ModShift ==
  ASSUME NEW c \in Nat \ {0}, NEW h \in 0..c-1, NEW n \in 0..c-1, NEW j \in Nat, n + j < c
  PROVE  (h + n) % c \in 0..c-1 /\ (((h + n) % c) + j) % c = (h + (n + j)) % c
<1> DEFINE t == (h + n) % c
<1>1. t = IF h + n < c THEN h + n ELSE h + n - c
  BY ModSum
<1> HIDE DEF t
<1>2. t \in 0..c-1 /\ j \in 0..c-1 /\ n + j \in 0..c-1
  BY <1>1
<1>3. (t + j) % c = IF t + j < c THEN t + j ELSE t + j - c
  BY <1>2, ModSum
<1>4. (h + (n + j)) % c = IF h + (n + j) < c THEN h + (n + j) ELSE h + (n + j) - c
  BY <1>2, ModSum
<1>5. (t + j) % c = (h + (n + j)) % c
  BY <1>1, <1>2, <1>3, <1>4
<1> QED BY <1>2, <1>5 DEF t

\* What a slot of the array may hold.
Slots == Keys \union {EmptyKey}

\* The indices of a ring fit each other and its array, and one slot is free.
RingOK(r) ==
  /\ r \in [keys : {r.keys}, head : Nat, tail : Nat, size : Nat, cap : Nat, tombs : Nat]
  /\ r.cap > 1
  /\ r.keys \in [0..r.cap-1 -> Slots]
  /\ r.head < r.cap
  /\ r.size < r.cap
  /\ r.tail = (r.head + r.size) % r.cap

\* The slot of the i-th entry.
slotOf(r, i) == (r.head + i - 1) % r.cap

\* Different entries of a ring are in different slots, and fifoTail is the
\* slot after the last of them.
LEMMA SlotProperties ==
  ASSUME NEW r, RingOK(r)
  PROVE  /\ \A i \in 1..r.cap : slotOf(r, i) \in 0..r.cap-1
         /\ \A i, j \in 1..r.cap : slotOf(r, i) = slotOf(r, j) => i = j
         /\ r.tail = slotOf(r, r.size + 1)
         /\ r.size + 1 \in 1..r.cap
<1>1. r.cap \in Nat /\ r.head \in Nat /\ r.size \in Nat /\ r.head < r.cap /\ r.size < r.cap /\ r.cap > 1
  BY DEF RingOK
<1> DEFINE c == r.cap
           h == r.head
<1>2. c \in Nat \ {0} /\ h \in 0..c-1
  BY <1>1
<1>3. ASSUME NEW i \in 1..c
      PROVE  slotOf(r, i) = IF h + i - 1 < c THEN h + i - 1 ELSE h + i - 1 - c
  <2> DEFINE j == i - 1
  <2>1. j \in 0..c-1 /\ h + i - 1 = h + j
    BY <1>2
  <2>2. slotOf(r, i) = (h + j) % c
    BY <2>1 DEF slotOf
  <2> HIDE DEF j, c, h
  <2>3. (h + j) % c = IF h + j < c THEN h + j ELSE h + j - c
    BY <1>2, <2>1, ModSum
  <2> QED BY <1>2, <2>1, <2>2, <2>3
<1> HIDE DEF c, h
<1>4. \A i \in 1..c : slotOf(r, i) \in 0..c-1
  BY <1>2, <1>3
<1>5. \A i, j \in 1..c : slotOf(r, i) = slotOf(r, j) => i = j
  BY <1>2, <1>3
<1>6. r.tail = slotOf(r, r.size + 1) /\ r.size + 1 \in 1..r.cap
  <2>1. r.head + (r.size + 1) - 1 = r.head + r.size
    BY <1>1
  <2> QED BY <1>1, <2>1 DEF RingOK, slotOf
<1> QED BY <1>4, <1>5, <1>6 DEF c

\* The window of a ring is the sequence of what its slots hold.
LEMMA WindowProperties ==
  ASSUME NEW r, RingOK(r)
  PROVE  /\ Window(r) \in Seq(Slots)
         /\ Len(Window(r)) = r.size
         /\ r.size \in Nat
         /\ \A i \in 1..r.size : Window(r)[i] = r.keys[slotOf(r, i)]
<1>1. \A i \in 1..r.size : r.keys[slotOf(r, i)] \in Slots
  <2>1. \A i \in 1..r.size : i \in 1..r.cap
    BY DEF RingOK
  <2> QED BY <2>1, SlotProperties DEF RingOK
<1>2. Window(r) = [i \in 1..r.size |-> r.keys[slotOf(r, i)]]
  BY DEF Window, slotOf
<1>3. r.size \in Nat
  BY DEF RingOK
<1> HIDE DEF Window
<1>4. Window(r) \in [1..r.size -> Slots]
  BY <1>1, <1>2
<1> QED BY <1>2, <1>3, <1>4

\* A ring is known by its size and the entries in it.
LEMMA WindowIs ==
  ASSUME NEW r, RingOK(r), NEW w \in Seq(Slots), Len(w) = r.size,
         \A i \in 1..r.size : r.keys[slotOf(r, i)] = w[i]
  PROVE  Window(r) = w
<1>1. /\ Window(r) \in Seq(Slots) /\ Len(Window(r)) = Len(w)
      /\ \A i \in 1..Len(w) : Window(r)[i] = w[i]
  BY WindowProperties
<1> DEFINE v == Window(r)
<1> HIDE DEF v
<1>2. v = w
  BY <1>1 DEF v
<1> QED BY <1>2 DEF v

\* A new array holds the entries it was filled from, and nothing else.
LEMMA RepackProperties ==
  ASSUME NEW s \in Seq(Slots), NEW n \in Nat, n > 1, Len(s) < n
  PROVE  /\ RingOK(Repack(s, n))
         /\ Window(Repack(s, n)) = s
         /\ Repack(s, n).cap = n
         /\ Repack(s, n).size = Len(s)
         /\ Repack(s, n).tombs = 0
<1> DEFINE r == Repack(s, n)
           a == [i \in 0..n-1 |-> IF i < Len(s) THEN s[i + 1] ELSE EmptyKey]
<1>1. r = [keys |-> a, head |-> 0, tail |-> Len(s), size |-> Len(s), cap |-> n, tombs |-> 0]
  BY DEF Repack
<1>2. a \in [0..n-1 -> Slots]
  BY DEF Slots
<1>3. \A i \in 1..Len(s) : a[i - 1] = s[i] /\ i - 1 \in 0..n-1
  OBVIOUS
<1>4. Len(s) \in 0..n-1 /\ Len(s) \in Nat
  OBVIOUS
<1> HIDE DEF a
<1>5. /\ r.keys = a /\ r.head = 0 /\ r.tail = Len(s) /\ r.size = Len(s) /\ r.cap = n /\ r.tombs = 0
      /\ r \in [keys : {r.keys}, head : Nat, tail : Nat, size : Nat, cap : Nat, tombs : Nat]
  BY <1>1, <1>4
<1> HIDE DEF r
<1>6. (0 + Len(s)) % n = Len(s)
  <2> DEFINE m == Len(s)
  <2>1. m \in 0..n-1 /\ n \in Nat \ {0}
    BY <1>4
  <2> HIDE DEF m
  <2>2. (0 + m) % n = m
    BY <2>1, ModSmall
  <2> QED BY <2>2 DEF m
<1>7. RingOK(r)
  BY <1>2, <1>4, <1>5, <1>6 DEF RingOK
<1>8. ASSUME NEW i \in 1..Len(s) PROVE slotOf(r, i) = i - 1
  <2>1. i - 1 \in 0..n-1 /\ 0 + i - 1 = 0 + (i - 1)
    BY <1>4
  <2> DEFINE j == i - 1
  <2>2. slotOf(r, i) = (0 + j) % n
    BY <1>5, <2>1 DEF slotOf
  <2>4. j \in 0..n-1
    BY <2>1
  <2> HIDE DEF j
  <2>3. (0 + j) % n = j
    BY <2>4, ModSmall
  <2> QED BY <2>2, <2>3 DEF j
<1>9. \A i \in 1..r.size : r.keys[slotOf(r, i)] = s[i]
  BY <1>3, <1>5, <1>8
<1>10. Window(r) = s
  BY <1>5, <1>7, <1>9, WindowIs
<1> QED BY <1>5, <1>7, <1>10 DEF r

\* ensureFIFOCap leaves the entries alone and two slots free.
LEMMA EnsureProperties ==
  ASSUME NEW r, RingOK(r)
  PROVE  /\ RingOK(ensureFIFOCap(r))
         /\ Window(ensureFIFOCap(r)) = Window(r)
         /\ ensureFIFOCap(r).size < ensureFIFOCap(r).cap - 1
         /\ ensureFIFOCap(r).size = r.size
         /\ \/ ensureFIFOCap(r) = r
            \/ /\ r.size = r.cap - 1
               /\ ensureFIFOCap(r).cap = 2 * r.cap
               /\ ensureFIFOCap(r).tombs = 0
<1>1. r.size \in Nat /\ r.cap \in Nat /\ r.size < r.cap /\ r.cap > 1
  BY DEF RingOK
<1>2. CASE r.size < r.cap - 1
  BY <1>2 DEF ensureFIFOCap
<1>3. CASE ~(r.size < r.cap - 1)
  <2> DEFINE w == Window(r)
             n == 2 * r.cap
  <2>1. ensureFIFOCap(r) = Repack(w, n)
    BY <1>3 DEF ensureFIFOCap
  <2>2. w \in Seq(Slots) /\ Len(w) = r.size /\ n \in Nat /\ n > 1 /\ Len(w) < n
        /\ r.size < n - 1 /\ r.size = r.cap - 1
    BY <1>1, <1>3, WindowProperties
  <2> HIDE DEF w, n
  <2>3. /\ RingOK(Repack(w, n)) /\ Window(Repack(w, n)) = w
        /\ Repack(w, n).cap = n /\ Repack(w, n).size = Len(w) /\ Repack(w, n).tombs = 0
    BY <2>2, RepackProperties
  <2> QED BY <2>1, <2>2, <2>3 DEF w, n
<1> QED BY <1>2, <1>3

\* addFIFOUnlocked puts a key after the others.
LEMMA AddProperties ==
  ASSUME NEW r, RingOK(r), NEW k \in Slots
  PROVE  /\ RingOK(addFIFOUnlocked(r, k))
         /\ Window(addFIFOUnlocked(r, k)) = Append(Window(r), k)
         /\ addFIFOUnlocked(r, k).size = r.size + 1
         /\ \/ addFIFOUnlocked(r, k).cap = r.cap /\ addFIFOUnlocked(r, k).tombs = r.tombs
            \/ /\ r.size = r.cap - 1
               /\ addFIFOUnlocked(r, k).cap = 2 * r.cap
               /\ addFIFOUnlocked(r, k).tombs = 0
<1> DEFINE e == ensureFIFOCap(r)
           f == [e EXCEPT !.keys[e.tail] = k, !.tail = (e.tail + 1) % e.cap, !.size = e.size + 1]
<1>1. /\ RingOK(e) /\ Window(e) = Window(r) /\ e.size < e.cap - 1 /\ e.size = r.size
      /\ \/ e = r
         \/ r.size = r.cap - 1 /\ e.cap = 2 * r.cap /\ e.tombs = 0
  BY EnsureProperties
<1>2. /\ e.size \in Nat /\ e.cap \in Nat /\ e.tail \in Nat /\ e.head \in Nat
      /\ ~(e.size >= e.cap)
      /\ e \in [keys : {e.keys}, head : Nat, tail : Nat, size : Nat, cap : Nat, tombs : Nat]
      /\ e.head < e.cap /\ e.cap > 1
      /\ e.keys \in [0..e.cap-1 -> Slots]
      /\ e.tombs \in Nat
      /\ e.tail = (e.head + e.size) % e.cap
  BY <1>1, SMTT(20) DEF RingOK
<1>3. addFIFOUnlocked(r, k) = f
  <2>1. addFIFOUnlocked(r, k) =
          [e EXCEPT !.keys[e.tail] = k,
                    !.tail = (e.tail + 1) % e.cap,
                    !.size = IF e.size >= e.cap THEN e.size ELSE e.size + 1,
                    !.head = IF e.size >= e.cap THEN (e.head + 1) % e.cap ELSE e.head]
    BY DEF addFIFOUnlocked
  <2> HIDE DEF e
  <2> QED BY <1>2, <2>1
<1> HIDE DEF e
<1>4. (e.tail + 1) % e.cap \in Nat
  BY <1>2
<1>5. /\ f.keys = [e.keys EXCEPT ![e.tail] = k]
      /\ f.tail = (e.tail + 1) % e.cap /\ f.size = e.size + 1 /\ f.head = e.head
      /\ f.cap = e.cap /\ f.tombs = e.tombs
      /\ f \in [keys : {f.keys}, head : Nat, tail : Nat, size : Nat, cap : Nat, tombs : Nat]
  <2> DEFINE a == [e.keys EXCEPT ![e.tail] = k]
             t == (e.tail + 1) % e.cap
             z == e.size + 1
             f1 == [e EXCEPT !.keys = a]
             f2 == [f1 EXCEPT !.tail = t]
             f3 == [f2 EXCEPT !.size = z]
  <2>1. f = f3
    BY <1>2
  <2> HIDE DEF f
  <2>2. t \in Nat /\ z \in Nat
    BY <1>2, <1>4, SMTT(20)
  <2> HIDE DEF a, t, z
  <2>3. /\ f1 \in [keys : {a}, head : Nat, tail : Nat, size : Nat, cap : Nat, tombs : Nat]
        /\ f1.head = e.head /\ f1.tail = e.tail /\ f1.size = e.size /\ f1.cap = e.cap
        /\ f1.tombs = e.tombs
    BY <1>2
  <2> HIDE DEF f1
  <2>4. /\ f2 \in [keys : {a}, head : Nat, tail : Nat, size : Nat, cap : Nat, tombs : Nat]
        /\ f2.head = e.head /\ f2.tail = t /\ f2.size = e.size /\ f2.cap = e.cap
        /\ f2.tombs = e.tombs
    BY <2>2, <2>3
  <2> HIDE DEF f2
  <2>5. /\ f3 \in [keys : {a}, head : Nat, tail : Nat, size : Nat, cap : Nat, tombs : Nat]
        /\ f3.head = e.head /\ f3.tail = t /\ f3.size = z /\ f3.cap = e.cap
        /\ f3.tombs = e.tombs
    BY <2>2, <2>4
  <2> HIDE DEF f3
  <2>6. f3.keys = a
    BY <2>5
  <2> QED BY <2>1, <2>5, <2>6 DEF a, t, z
<1> HIDE DEF f
<1>6. /\ \A i \in 1..e.cap : slotOf(e, i) \in 0..e.cap-1
      /\ \A i, j \in 1..e.cap : slotOf(e, i) = slotOf(e, j) => i = j
      /\ e.tail = slotOf(e, e.size + 1)
      /\ e.size + 1 \in 1..e.cap
  BY <1>1, SlotProperties
<1>7. (e.tail + 1) % e.cap = (e.head + (e.size + 1)) % e.cap
  <2> DEFINE c == e.cap
             h == e.head
             z == e.size
             t == e.tail
  <2>1. c \in Nat \ {0} /\ c > 1 /\ h \in 0..c-1 /\ z \in 0..c-1 /\ z + 1 \in 0..c-1 /\ 1 \in 0..c-1
    BY <1>1, <1>2
  <2>2. t = (h + z) % c
    BY <1>2
  <2> HIDE DEF c, h, z, t
  <2>3. t = IF h + z < c THEN h + z ELSE h + z - c
    BY <2>1, <2>2, ModSum
  <2>4. (h + (z + 1)) % c = IF h + (z + 1) < c THEN h + (z + 1) ELSE h + (z + 1) - c
    BY <2>1, ModSum
  <2>5. t \in 0..c-1
    BY <2>1, <2>3
  <2>6. (t + 1) % c = IF t + 1 < c THEN t + 1 ELSE t + 1 - c
    BY <2>1, <2>5, ModSum
  <2>7. (t + 1) % c = (h + (z + 1)) % c
    BY <2>1, <2>3, <2>4, <2>5, <2>6
  <2> QED BY <2>7 DEF c, h, z, t
<1>8. f.keys \in [0..f.cap-1 -> Slots]
  BY <1>2, <1>5, <1>6
<1>9. RingOK(f)
  <2>1. f.tail = (f.head + f.size) % f.cap
    BY <1>5, <1>7
  <2>2. f.cap > 1 /\ f.head < f.cap /\ f.size < f.cap
    <3>1. e.size + 1 < e.cap
      BY <1>1, <1>2
    <3> QED BY <1>2, <1>5, <3>1
  <2> QED BY <1>5, <1>8, <2>1, <2>2 DEF RingOK
<1> DEFINE w == Append(Window(e), k)
<1>10. /\ Window(e) \in Seq(Slots) /\ Len(Window(e)) = e.size
       /\ \A i \in 1..e.size : Window(e)[i] = e.keys[slotOf(e, i)]
  BY <1>1, WindowProperties
<1>11. /\ w \in Seq(Slots) /\ Len(w) = f.size
       /\ \A i \in 1..e.size : w[i] = e.keys[slotOf(e, i)]
       /\ w[e.size + 1] = k
  BY <1>5, <1>10
<1> HIDE DEF w
<1>12. ASSUME NEW i \in 1..f.size PROVE f.keys[slotOf(f, i)] = w[i]
  <2>1. slotOf(f, i) = slotOf(e, i)
    BY <1>5 DEF slotOf
  <2>2. i \in 1..e.cap /\ i \in 1..e.size+1
    BY <1>1, <1>2, <1>5, SMTT(20)
  <2>3. slotOf(e, i) \in DOMAIN e.keys
    BY <1>2, <1>6, <2>2
  <2>4. CASE i = e.size + 1
    BY <1>5, <1>6, <1>11, <2>1, <2>3, <2>4
  <2>5. CASE i # e.size + 1
    <3>1. i \in 1..e.size
      BY <1>2, <2>2, <2>5
    <3>2. slotOf(e, i) # e.tail
      BY <1>6, <2>2, <2>5
    <3> QED BY <1>5, <1>11, <2>1, <2>3, <3>1, <3>2
  <2> QED BY <2>4, <2>5
<1>13. Window(f) = w
  BY <1>9, <1>11, <1>12, WindowIs
<1>14. \/ f.cap = r.cap /\ f.tombs = r.tombs
       \/ r.size = r.cap - 1 /\ f.cap = 2 * r.cap /\ f.tombs = 0
  BY <1>1, <1>5
<1>15. f.size = r.size + 1
  BY <1>1, <1>5
<1> QED BY <1>1, <1>3, <1>9, <1>13, <1>14, <1>15 DEF w

\* What compactIfNeeded leaves of tombs.
FewOrNone(r) == r.tombs = 0 \/ r.tombs < (r.cap - 1) \div 2

\* The ring with other fields and the same capacity.
Other(r, a, h, t, z, m) ==
  [keys |-> a, head |-> h, tail |-> t, size |-> z, cap |-> r.cap, tombs |-> m]

\* The ring popFIFO leaves, with the array and indices it computes.
Advanced(r, a, h, z) == [r EXCEPT !.keys = a, !.head = h, !.size = z]

\* What popFIFO leaves, field by field.
LEMMA AdvancedFields ==
  ASSUME NEW r, RingOK(r), NEW a, NEW h, NEW z
  PROVE  Advanced(r, a, h, z) = Other(r, a, h, r.tail, z, r.tombs)
<1> DEFINE f1 == [r EXCEPT !.keys = a]
           f2 == [f1 EXCEPT !.head = h]
           f3 == [f2 EXCEPT !.size = z]
<1>1. r = Other(r, r.keys, r.head, r.tail, r.size, r.tombs)
  BY DEF RingOK, Other
<1>2. f1 = Other(r, a, r.head, r.tail, r.size, r.tombs)
  BY <1>1 DEF Other
<1> HIDE DEF f1
<1>3. f2 = Other(r, a, h, r.tail, r.size, r.tombs)
  BY <1>2 DEF Other
<1> HIDE DEF f2
<1>4. f3 = Other(r, a, h, r.tail, z, r.tombs)
  BY <1>3 DEF Other
<1> QED BY <1>4 DEF Advanced, f1, f2

\* Rings with indices reset, field by field.
LEMMA RingFields ==
  ASSUME NEW r, RingOK(r)
  PROVE  /\ [r EXCEPT !.head = 0, !.tail = 0, !.tombs = 0] = Other(r, r.keys, 0, 0, r.size, 0)
         /\ [r EXCEPT !.head = 0, !.tail = 0, !.size = 0, !.tombs = 0] = Other(r, r.keys, 0, 0, 0, 0)
<1>1. r = Other(r, r.keys, r.head, r.tail, r.size, r.tombs)
  BY DEF RingOK, Other
<1>3. /\ [r EXCEPT !.head = 0, !.tail = 0, !.tombs = 0] = Other(r, r.keys, 0, 0, r.size, 0)
      /\ [r EXCEPT !.head = 0, !.tail = 0, !.size = 0, !.tombs = 0] = Other(r, r.keys, 0, 0, 0, 0)
  <2> DEFINE f1 == [r EXCEPT !.head = 0]
             f2 == [f1 EXCEPT !.tail = 0]
             f3 == [f2 EXCEPT !.tombs = 0]
             f4 == [f2 EXCEPT !.size = 0]
             f5 == [f4 EXCEPT !.tombs = 0]
  <2>1. f1 = Other(r, r.keys, 0, r.tail, r.size, r.tombs)
    BY <1>1 DEF Other
  <2> HIDE DEF f1
  <2>2. f2 = Other(r, r.keys, 0, 0, r.size, r.tombs)
    BY <2>1 DEF Other
  <2> HIDE DEF f2
  <2>3. f3 = Other(r, r.keys, 0, 0, r.size, 0)
    BY <2>2 DEF Other
  <2>4. f4 = Other(r, r.keys, 0, 0, 0, r.tombs)
    BY <2>2 DEF Other
  <2> HIDE DEF f4
  <2>5. f5 = Other(r, r.keys, 0, 0, 0, 0)
    BY <2>4 DEF Other
  <2> QED BY <2>3, <2>5 DEF f1, f2, f4
<1> QED BY <1>3

\* With its indices reset a ring is empty, whatever its array still holds.
LEMMA ClearProperties ==
  ASSUME NEW r, RingOK(r)
  PROVE  LET e == [r EXCEPT !.head = 0, !.tail = 0, !.size = 0, !.tombs = 0] IN
         RingOK(e) /\ Window(e) = <<>> /\ e.cap = r.cap /\ e.size = 0 /\ e.tombs = 0
<1> DEFINE e == [r EXCEPT !.head = 0, !.tail = 0, !.size = 0, !.tombs = 0]
<1>1. /\ r.cap \in Nat /\ r.cap > 1
      /\ r \in [keys : {r.keys}, head : Nat, tail : Nat, size : Nat, cap : Nat, tombs : Nat]
      /\ r.keys \in [0..r.cap-1 -> Slots]
  BY DEF RingOK
<1>2. e = Other(r, r.keys, 0, 0, 0, 0)
  BY RingFields
<1> HIDE DEF e
<1>3. /\ e.keys = r.keys /\ e.head = 0 /\ e.tail = 0 /\ e.size = 0 /\ e.cap = r.cap /\ e.tombs = 0
      /\ e \in [keys : {e.keys}, head : Nat, tail : Nat, size : Nat, cap : Nat, tombs : Nat]
  BY <1>1, <1>2 DEF Other
<1>4. (0 + 0) % e.cap = 0
  BY <1>1, <1>3
<1>5. RingOK(e)
  BY <1>1, <1>3, <1>4 DEF RingOK
<1>6. Window(e) = <<>>
  <2> DEFINE v == Window(e)
  <2>1. v \in Seq(Slots) /\ Len(v) = 0
    BY <1>3, <1>5, WindowProperties
  <2> HIDE DEF v
  <2>2. v = <<>>
    BY <2>1
  <2> QED BY <2>2 DEF v
<1> QED BY <1>3, <1>5, <1>6 DEF e

\* compactIfNeeded drops tombstones and nothing else.
LEMMA CompactProperties ==
  ASSUME NEW r, RingOK(r)
  PROVE  /\ RingOK(compactIfNeeded(r))
         /\ Packed(Window(compactIfNeeded(r))) = Packed(Window(r))
         /\ compactIfNeeded(r).cap = r.cap
         /\ FewOrNone(compactIfNeeded(r))
         /\ \/ compactIfNeeded(r) = r
            \/ /\ compactIfNeeded(r).tombs = 0
               /\ compactIfNeeded(r).size = Len(Packed(Window(r)))
         /\ Window(compactIfNeeded(r)) \in {Window(r), Packed(Window(r))}
<1> DEFINE w == Window(r)
           c == compactIfNeeded(r)
<1>0. /\ r.size \in Nat /\ r.cap \in Nat /\ r.size < r.cap /\ r.cap > 1 /\ r.tombs \in Nat
      /\ r \in [keys : {r.keys}, head : Nat, tail : Nat, size : Nat, cap : Nat, tombs : Nat]
      /\ r.keys \in [0..r.cap-1 -> Slots]
  BY DEF RingOK
<1>1. w \in Seq(Slots) /\ Len(w) = r.size
  BY WindowProperties
<1>2. /\ Packed(w) \in Seq(Slots) /\ Len(Packed(w)) <= Len(w)
      /\ ToSet(Packed(w)) = ToSet(w) \ {EmptyKey}
  BY <1>1, PackedProperties
<1>3. CASE r.size = 0
  <2> DEFINE e == [r EXCEPT !.head = 0, !.tail = 0, !.size = 0, !.tombs = 0]
  <2>1. c = e
    <3>1. c = [r EXCEPT !.head = 0, !.tail = 0, !.tombs = 0]
      BY <1>3 DEF compactIfNeeded
    <3>3. c = Other(r, r.keys, 0, 0, r.size, 0)
      BY <3>1, RingFields
    <3>4. e = Other(r, r.keys, 0, 0, 0, 0)
      BY RingFields
    <3> QED BY <1>3, <3>3, <3>4
  <2> HIDE DEF e
  <2>2. RingOK(e) /\ Window(e) = <<>> /\ e.cap = r.cap /\ e.size = 0 /\ e.tombs = 0
    BY ClearProperties DEF e
  <2>3. w = <<>> /\ Len(Packed(w)) = 0
    <3> HIDE DEF w
    <3> QED BY <1>1, <1>2, <1>3
  <2> QED BY <2>1, <2>2, <2>3 DEF FewOrNone
<1>4. CASE r.size # 0 /\ FewTombs(r)
  <2>1. c = r
    BY <1>4 DEF compactIfNeeded
  <2>2. FewOrNone(r)
    <3>1. r.tombs < r.size \div 2
      BY <1>4 DEF FewTombs
    <3> DEFINE t == r.tombs
               z == r.size
               n == r.cap
    <3>2. t \in Nat /\ z \in Nat /\ n \in Nat /\ z < n /\ t < z \div 2
      BY <1>0, <3>1
    <3> HIDE DEF t, z, n
    <3>3. z <= n - 1 /\ n - 1 \in Nat
      BY <3>2
    <3>4. z \div 2 <= (n - 1) \div 2
      BY <3>2, <3>3
    <3>5. t < (n - 1) \div 2
      BY <3>2, <3>3, <3>4
    <3> QED BY <3>5 DEF FewOrNone, t, z, n
  <2> QED BY <2>1, <2>2
<1>5. CASE r.size # 0 /\ ~FewTombs(r)
  <2> DEFINE p == Packed(w)
             n == r.cap
  <2>1. c = Repack(p, n)
    BY <1>5 DEF compactIfNeeded
  <2>2. p \in Seq(Slots) /\ n \in Nat /\ n > 1 /\ Len(p) < n
    BY <1>0, <1>1, <1>2
  <2>3. Packed(p) = p
    BY <1>2, PackedKeys
  <2> HIDE DEF p, n
  <2>4. /\ RingOK(Repack(p, n)) /\ Window(Repack(p, n)) = p
        /\ Repack(p, n).cap = n /\ Repack(p, n).size = Len(p) /\ Repack(p, n).tombs = 0
    BY <2>2, RepackProperties
  <2> QED BY <2>1, <2>3, <2>4 DEF FewOrNone, p, n
<1> QED BY <1>3, <1>4, <1>5

\* removeFIFOUnlocked takes the first entry of a key out, and counts it.
LEMMA RemoveProperties ==
  ASSUME NEW r, RingOK(r), NEW k
  PROVE  LET c == removeFIFOUnlocked(r, k)
             w == Window(r) IN
         /\ RingOK(c)
         /\ Packed(Window(c)) = RemoveFirst(Packed(w), k)
         /\ c.cap = r.cap
         /\ FewOrNone(c)
         /\ \/ c.tombs = 0 /\ c.size = Len(Packed(Window(c)))
            \/ c.size = r.size /\ c.tombs = IF k \in ToSet(w) THEN r.tombs + 1 ELSE r.tombs
<1> DEFINE w == Window(r)
           i == SelectInSeq(w, LAMBDA x : x = k)
           m == [r EXCEPT !.keys[slotOf(r, i)] = EmptyKey, !.tombs = r.tombs + 1]
           d == IF i = 0 THEN r ELSE m
<1>0. removeFIFOUnlocked(r, k) = compactIfNeeded(d)
  BY DEF removeFIFOUnlocked, slotOf
<1>1. /\ w \in Seq(Slots) /\ Len(w) = r.size /\ r.size \in Nat
      /\ \A j \in 1..r.size : w[j] = r.keys[slotOf(r, j)]
  BY WindowProperties
<1>2. \/ i = 0 /\ k \notin ToSet(w)
      \/ i \in 1..Len(w) /\ w[i] = k /\ \A j \in 1..i-1 : w[j] # k
  BY <1>1, SelectFirst
<1>3. CASE i = 0
  <2>1. k \notin ToSet(w) /\ d = r
    BY <1>2, <1>3
  <2>2. Packed(w) \in Seq(Slots) /\ k \notin ToSet(Packed(w))
    BY <1>1, <2>1, PackedProperties
  <2>3. RemoveFirst(Packed(w), k) = Packed(w)
    BY <2>2, RemoveFirstAbsent
  <2> HIDE DEF d, i, m
  <2> QED BY <1>0, <2>1, <2>3, CompactProperties
<1>4. CASE i # 0
  <2>1. i \in 1..Len(w) /\ w[i] = k /\ (\A j \in 1..i-1 : w[j] # k) /\ k \in ToSet(w)
    <3>1. i \in 1..Len(w) /\ w[i] = k /\ (\A j \in 1..i-1 : w[j] # k)
      BY <1>2, <1>4
    <3>2. DOMAIN w = 1..Len(w)
      BY <1>1
    <3> HIDE DEF i, w
    <3> QED BY <3>1, <3>2 DEF ToSet
  <2>2. /\ r.head \in Nat /\ r.cap \in Nat /\ r.tombs \in Nat
        /\ r \in [keys : {r.keys}, head : Nat, tail : Nat, size : Nat, cap : Nat, tombs : Nat]
        /\ r.keys \in [0..r.cap-1 -> Slots] /\ r.size < r.cap
    BY DEF RingOK
  <2>d. d = m
    BY <1>4
  <2> HIDE DEF i, d
  <2>3. /\ m.keys = [r.keys EXCEPT ![slotOf(r, i)] = EmptyKey]
        /\ m.head = r.head /\ m.tail = r.tail /\ m.size = r.size /\ m.cap = r.cap
        /\ m.tombs = r.tombs + 1
        /\ m \in [keys : {m.keys}, head : Nat, tail : Nat, size : Nat, cap : Nat, tombs : Nat]
    <3> DEFINE a == [r.keys EXCEPT ![slotOf(r, i)] = EmptyKey]
               t == r.tombs + 1
               f1 == [r EXCEPT !.keys = a]
               f2 == [f1 EXCEPT !.tombs = t]
    <3>1. m = f2
      BY <2>2
    <3>2. t \in Nat
      BY <2>2
    <3> HIDE DEF m, a, t
    <3>3. /\ f1 \in [keys : {a}, head : Nat, tail : Nat, size : Nat, cap : Nat, tombs : Nat]
          /\ f1.head = r.head /\ f1.tail = r.tail /\ f1.size = r.size /\ f1.cap = r.cap
      BY <2>2
    <3> HIDE DEF f1
    <3>4. /\ f2 \in [keys : {a}, head : Nat, tail : Nat, size : Nat, cap : Nat, tombs : Nat]
          /\ f2.head = r.head /\ f2.tail = r.tail /\ f2.size = r.size /\ f2.cap = r.cap
          /\ f2.tombs = t
      BY <3>2, <3>3
    <3> HIDE DEF f2
    <3>5. f2.keys = a
      BY <3>4
    <3> QED BY <3>1, <3>4, <3>5 DEF a, t
  <2> HIDE DEF m
  <2>4. RingOK(m)
    <3>1. m.keys \in [0..m.cap-1 -> Slots]
      BY <2>2, <2>3 DEF Slots
    <3> QED BY <2>3, <3>1 DEF RingOK
  <2> DEFINE e == Window(m)
  <2>5. /\ e \in Seq(Slots) /\ Len(e) = r.size
        /\ \A j \in 1..r.size : e[j] = m.keys[slotOf(m, j)]
    BY <2>3, <2>4, WindowProperties
  <2>6. /\ \A j \in 1..r.cap : slotOf(r, j) \in 0..r.cap-1
        /\ \A j, l \in 1..r.cap : slotOf(r, j) = slotOf(r, l) => j = l
    BY SlotProperties
  <2> HIDE DEF w, e
  <2>7. \A j \in 1..r.size : j \in 1..r.cap /\ slotOf(m, j) = slotOf(r, j)
    BY <1>1, <2>2, <2>3 DEF slotOf
  <2>8. i \in 1..r.size /\ i \in 1..r.cap
    BY <1>1, <2>1, <2>7
  <2>9. e[i] = EmptyKey
    BY <2>2, <2>3, <2>5, <2>6, <2>7, <2>8
  <2>10. ASSUME NEW j \in 1..r.size, j # i PROVE e[j] = w[j]
    <3>1. slotOf(r, j) # slotOf(r, i) /\ slotOf(r, j) \in DOMAIN r.keys
      BY <2>2, <2>6, <2>7, <2>8, <2>10
    <3> QED BY <1>1, <2>3, <2>5, <2>7, <3>1
  <2>11. Packed(e) = RemoveFirst(Packed(w), w[i])
    <3>1. /\ w \in Seq(Slots) /\ e \in Seq(Slots) /\ Len(e) = Len(w) /\ i \in 1..Len(w)
          /\ \A j \in 1..Len(w) : j # i => e[j] = w[j]
      BY <1>1, <2>5, <2>8, <2>10
    <3>2. \A j \in 1..i-1 : w[j] # w[i]
      BY <2>1
    <3> QED BY <2>9, <3>1, <3>2, PackedMark
  <2>12. /\ RingOK(compactIfNeeded(m))
         /\ Packed(Window(compactIfNeeded(m))) = Packed(e)
         /\ compactIfNeeded(m).cap = m.cap
         /\ FewOrNone(compactIfNeeded(m))
         /\ \/ compactIfNeeded(m) = m
            \/ /\ compactIfNeeded(m).tombs = 0
               /\ compactIfNeeded(m).size = Len(Packed(e))
    BY <2>4, CompactProperties DEF e
  <2> QED BY <1>0, <2>d, <2>1, <2>3, <2>11, <2>12 DEF w
<1> QED BY <1>3, <1>4

\* The entries popFIFO consumes are tombstones but for the last one, and that
\* one is a key unless there was none.
LEMMA PopCountProperties ==
  ASSUME NEW r, RingOK(r), r.size # 0
  PROVE  /\ PopCount(r) \in 1..r.size
         /\ \A j \in 1..PopCount(r)-1 : Window(r)[j] = EmptyKey
         /\ Window(r)[PopCount(r)] = EmptyKey => PopCount(r) = r.size
<1> DEFINE w == Window(r)
           n == r.size
           I == {j \in 1..Len(w) : w[j] # EmptyKey}
<1>1. w \in Seq(Slots) /\ Len(w) = n /\ n \in Nat /\ n # 0
  BY WindowProperties
<1>2. PopCount(r) = IF (IF I # {} THEN Min(I) ELSE 0) = 0 THEN n
                    ELSE IF I # {} THEN Min(I) ELSE 0
  BY DEF PopCount, SelectInSeq, IsKey
<1> HIDE DEF w, n
<1>3. CASE I = {}
  <2>1. \A j \in 1..n : w[j] = EmptyKey
    BY <1>1, <1>3
  <2> HIDE DEF I
  <2>2. PopCount(r) = n
    BY <1>2, <1>3
  <2> QED BY <1>1, <2>1, <2>2 DEF n, w
<1>4. CASE I # {}
  <2>0. I \subseteq Nat
    BY <1>1
  <2>1. PICK i \in I : \A j \in I : i <= j
    <3> HIDE DEF I
    <3> QED BY <1>4, <2>0, LeastNatural
  <2>2. Min(I) = i
    <3> HIDE DEF I
    <3> QED BY <2>0, <2>1, MinIs
  <2>3. /\ i \in 1..n /\ i # 0 /\ w[i] # EmptyKey
        /\ \A j \in 1..i-1 : w[j] = EmptyKey
    BY <1>1, <2>1
  <2>4. PopCount(r) = i
    <3> HIDE DEF I
    <3> QED BY <1>2, <1>4, <2>2, <2>3
  <2> QED BY <2>3, <2>4 DEF n, w
<1> QED BY <1>3, <1>4

\* What is left of a window when its first n entries are gone.
LEMMA PackedRest ==
  ASSUME NEW S, NEW w \in Seq(S), NEW n \in 1..Len(w), NEW a \in Seq(S), NEW b \in Seq(S),
         Around(w, n, a, b), \A j \in 1..n-1 : w[j] = EmptyKey, w[n] = EmptyKey => n = Len(w)
  PROVE  /\ Packed(w) = <<>> => w[n] = EmptyKey /\ Packed(b) = <<>>
         /\ Packed(w) # <<>> => w[n] = Head(Packed(w)) /\ Packed(b) = Tail(Packed(w))
<1> DEFINE k == w[n]
<1>0. k \in S /\ w \in Seq(S)
  OBVIOUS
<1>1. w = Join(a, k, b)
  BY AroundJoin
<1>2. Packed(a) = <<>>
  <2>1. ToSet(a) \subseteq {EmptyKey}
    BY DEF Around, ToSet
  <2>2. Packed(a) \in Seq(S) /\ ToSet(Packed(a)) = {}
    BY <2>1, PackedProperties
  <2> DEFINE p == Packed(a)
  <2> HIDE DEF p
  <2>3. p \in Seq(S) /\ ToSet(p) = {}
    BY <2>2 DEF p
  <2>4. p = <<>>
    <3>1. 1 \notin DOMAIN p
      BY <2>3 DEF ToSet
    <3> QED BY <2>3, <3>1
  <2> QED BY <2>4 DEF p
<1> HIDE DEF k
<1> DEFINE q == Packed(b)
           h == IF IsKey(k) THEN Append(<<>>, k) ELSE <<>>
<1>3. Packed(w) = h \o q
  <2>1. Packed(Append(a, k)) = h
    BY <1>0, <1>2, PackedAppend
  <2>2. Append(a, k) \in Seq(S)
    BY <1>0
  <2>3. Packed(Append(a, k) \o b) = Packed(Append(a, k)) \o Packed(b)
    BY <2>2, PackedConcat
  <2> HIDE DEF h, q
  <2> QED BY <1>1, <2>1, <2>3 DEF Join, q
<1>4. q \in Seq(S)
  BY PackedProperties
<1>5. CASE IsKey(k)
  <2> HIDE DEF q
  <2>1. /\ h \o q # <<>> /\ Head(h \o q) = k /\ Tail(h \o q) = q
    <3>1. h = <<k>>
      BY <1>5
    <3> HIDE DEF h
    <3> QED BY <1>0, <1>4, <3>1
  <2> HIDE DEF h
  <2> QED BY <1>3, <2>1 DEF k, q
<1>6. CASE ~IsKey(k)
  <2>1. k = EmptyKey /\ h = <<>>
    BY <1>6 DEF IsKey
  <2>2. b = <<>>
    <3>1. n = Len(w) /\ Len(w) \in Nat /\ Len(b) = Len(w) - n
      BY <2>1 DEF Around, k
    <3> QED BY <3>1
  <2>3. q = <<>>
    BY <2>2, PackedEmpty
  <2>4. Packed(w) = <<>>
    <3> HIDE DEF h, q
    <3> QED BY <1>3, <2>1, <2>3
  <2> QED BY <2>1, <2>3, <2>4 DEF k
<1> QED BY <1>5, <1>6

\* popFIFO takes the oldest key and returns it.
LEMMA PopProperties ==
  ASSUME NEW r, RingOK(r), r.size # 0
  PROVE  LET p == popFIFO(r)
             q == Packed(Window(r)) IN
         /\ RingOK(p)
         /\ p.cap = r.cap /\ p.tombs = r.tombs /\ p.size < r.size
         /\ q = <<>> => poppedKey(r) = EmptyKey /\ Packed(Window(p)) = <<>>
         /\ q # <<>> => poppedKey(r) = Head(q) /\ Packed(Window(p)) = Tail(q)
<1> DEFINE p == popFIFO(r)
           w == Window(r)
           n == PopCount(r)
           c == r.cap
           h == r.head
           z == r.size
           gone == {(h + i) % c : i \in 0..n-1}
           arr == [i \in 0..c-1 |-> IF i \in gone THEN EmptyKey ELSE r.keys[i]]
           nh == (h + n) % c
           nz == z - n
<1>1. /\ n \in 1..z
      /\ \A j \in 1..n-1 : w[j] = EmptyKey
      /\ w[n] = EmptyKey => n = z
  BY PopCountProperties
<1>2. w \in Seq(Slots) /\ Len(w) = z /\ z \in Nat /\ \A i \in 1..z : w[i] = r.keys[slotOf(r, i)]
  BY WindowProperties
<1>3. /\ h \in Nat /\ c \in Nat /\ h < c /\ z < c /\ c > 1 /\ r.tombs \in Nat /\ r.tail \in Nat
      /\ r \in [keys : {r.keys}, head : Nat, tail : Nat, size : Nat, cap : Nat, tombs : Nat]
      /\ r.keys \in [0..c-1 -> Slots]
      /\ r.tail = (h + z) % c
  BY DEF RingOK
<1>4. p = Other(r, arr, nh, r.tail, nz, r.tombs)
  <2>1. p = Advanced(r, arr, nh, nz)
    BY DEF popFIFO, Advanced
  <2> HIDE DEF p, n, c, h, z, gone, arr, nh, nz
  <2>2. Advanced(r, arr, nh, nz) = Other(r, arr, nh, r.tail, nz, r.tombs)
    BY AdvancedFields
  <2> QED BY <2>1, <2>2
<1>5. slotOf(r, 1) \in 0..c-1 /\ \A i \in 0..n-1 : (h + i) % c = slotOf(r, i + 1)
  <2>1. \A i \in 0..n-1 : h + (i + 1) - 1 = h + i
    BY <1>1, <1>2, <1>3
  <2>2. 1 \in 1..c
    BY <1>3
  <2> QED BY <2>1, <2>2, SlotProperties DEF slotOf
<1> HIDE DEF p, w, n, h, z, nh, nz, c
<1>a. z \in Nat /\ h \in Nat /\ c \in Nat /\ h < c /\ z < c /\ c > 1 /\ n \in Nat /\ 1 <= n /\ n <= z
  <2>1. z \in Nat /\ h \in Nat /\ c \in Nat /\ h < c /\ z < c /\ c > 1
    BY <1>2, <1>3
  <2>2. n \in 1..z
    BY <1>1
  <2> QED BY <2>1, <2>2
<1>6. c \in Nat \ {0} /\ h \in 0..c-1 /\ n \in 0..c-1 /\ nz \in Nat /\ nz < z /\ n + nz = z
  BY <1>a DEF nz
<1>7. nh \in 0..c-1 /\ (nh + nz) % c = r.tail
  <2>1. n + nz < c
    BY <1>3, <1>6
  <2>2. (h + n) % c \in 0..c-1 /\ (((h + n) % c) + nz) % c = (h + (n + nz)) % c
    BY <1>6, <2>1, ModShift
  <2> QED BY <1>3, <1>6, <2>2 DEF nh
<1>8. \A i \in 0..c-1 : r.keys[i] \in Slots /\ EmptyKey \in Slots
  BY <1>3 DEF Slots
<1>9. arr \in [0..c-1 -> Slots]
  BY <1>8
<1> HIDE DEF arr
<1>10. /\ p.keys = arr /\ p.head = nh /\ p.tail = r.tail /\ p.size = nz /\ p.cap = c
       /\ p.tombs = r.tombs
       /\ p \in [keys : {p.keys}, head : Nat, tail : Nat, size : Nat, cap : Nat, tombs : Nat]
  BY <1>3, <1>4, <1>6, <1>7 DEF Other, c
<1>11. RingOK(p)
  <2>1. p.head < p.cap /\ p.size < p.cap /\ p.cap > 1
    BY <1>a, <1>6, <1>7, <1>10
  <2> QED BY <1>7, <1>9, <1>10, <2>1 DEF RingOK
<1>12. PICK a \in Seq(Slots), b \in Seq(Slots) : Around(w, n, a, b)
  BY <1>1, <1>2, AroundExists
<1>13. ASSUME NEW i \in 1..nz PROVE p.keys[slotOf(p, i)] = b[i]
  <2>0. i \in Nat /\ i - 1 \in Nat /\ n + (i - 1) < c /\ n \in Nat /\ h \in Nat /\ i >= 1 /\ i <= nz
    BY <1>a, <1>6
  <2>1. slotOf(p, i) = slotOf(r, n + i)
    <3> DEFINE j == i - 1
    <3>1. slotOf(p, i) = (nh + j) % c
      <4>1. nh + i - 1 = nh + j /\ p.head = nh /\ p.cap = c
        BY <1>7, <1>10, <2>0
      <4> QED BY <4>1 DEF slotOf
    <3>2. slotOf(r, n + i) = (h + (n + j)) % c
      <4>1. h + (n + i) - 1 = h + (n + j)
        BY <2>0
      <4> QED BY <4>1 DEF slotOf, c, h
    <3>3. j \in Nat /\ n + j < c
      BY <2>0
    <3> HIDE DEF j
    <3>4. (((h + n) % c) + j) % c = (h + (n + j)) % c
      BY <1>6, <3>3, ModShift
    <3> QED BY <3>1, <3>2, <3>4 DEF nh
  <2>2. n + i \in 1..z /\ n + i \in 1..c
    BY <1>a, <1>6, <2>0
  <2>3. slotOf(r, n + i) \in 0..c-1 /\ \A l \in 1..n : slotOf(r, l) # slotOf(r, n + i)
    <3>1. \A l \in 1..n : l \in 1..c /\ l # n + i
      BY <1>6, <2>0
    <3> QED BY <2>2, <3>1, SlotProperties DEF c
  <2>4. slotOf(r, n + i) \notin gone
    <3>1. \A l \in 0..n-1 : l + 1 \in 1..n
      BY <2>0
    <3> QED BY <1>5, <2>3, <3>1
  <2>5. p.keys[slotOf(p, i)] = r.keys[slotOf(r, n + i)]
    BY <1>10, <2>1, <2>3, <2>4 DEF arr
  <2>6. r.keys[slotOf(r, n + i)] = w[n + i]
    BY <1>2, <2>2
  <2>7. b[i] = w[n + i]
    <3>1. Len(w) - n = nz
      BY <1>2, <1>6
    <3> QED BY <1>12, <3>1 DEF Around
  <2> QED BY <2>5, <2>6, <2>7
<1>14. Len(b) = nz
  BY <1>2, <1>6, <1>12 DEF Around
<1>15. Window(p) = b
  BY <1>10, <1>11, <1>13, <1>14, WindowIs
<1>16. poppedKey(r) = w[n]
  BY DEF poppedKey, w, n
<1>17. /\ Packed(w) = <<>> => w[n] = EmptyKey /\ Packed(b) = <<>>
       /\ Packed(w) # <<>> => w[n] = Head(Packed(w)) /\ Packed(b) = Tail(Packed(w))
  BY <1>1, <1>2, <1>12, PackedRest
<1> QED BY <1>6, <1>10, <1>11, <1>15, <1>16, <1>17 DEF p, w, c, z
-----------------------------------------------------------------------------
(* The ring is a queue *)

\* The ring holds exactly the live keys, once each, the empty one aside.
RingInv ==
  /\ RingOK(ring)
  /\ live \subseteq Keys
  /\ IsInjective(LiveQueue)
  /\ ToSet(LiveQueue) = live \ {EmptyKey}

\* A queue of keys and what it becomes under the operations on it.
Holds(r, s) ==
  /\ RingOK(r)
  /\ IsInjective(Packed(Window(r)))
  /\ ToSet(Packed(Window(r))) = s \ {EmptyKey}

\* removeFIFOUnlocked takes one key out of the queue.
LEMMA HoldsRemove ==
  ASSUME NEW r, NEW s, Holds(r, s), NEW k
  PROVE  /\ Holds(removeFIFOUnlocked(r, k), s \ {k})
         /\ Packed(Window(removeFIFOUnlocked(r, k))) = removeFIFO(Packed(Window(r)), k)
<1> DEFINE q == Packed(Window(r))
<1>1. q \in Seq(Slots) /\ IsInjective(q)
  BY WindowProperties, PackedProperties DEF Holds
<1>2. IsInjective(RemoveFirst(q, k)) /\ ToSet(RemoveFirst(q, k)) = ToSet(q) \ {k}
  BY <1>1, RemoveFirstProperties
<1>3. RingOK(removeFIFOUnlocked(r, k)) /\ Packed(Window(removeFIFOUnlocked(r, k))) = RemoveFirst(q, k)
  BY RemoveProperties DEF Holds
<1> QED BY <1>2, <1>3 DEF Holds, removeFIFO

\* A key that is not in the queue cannot be removed from it.
LEMMA RemoveAbsent ==
  ASSUME NEW r, NEW s, Holds(r, s), NEW k, k \notin s
  PROVE  removeFIFO(Packed(Window(r)), k) = Packed(Window(r))
<1>1. Packed(Window(r)) \in Seq(Slots) /\ k \notin ToSet(Packed(Window(r)))
  BY WindowProperties, PackedProperties DEF Holds
<1> QED BY <1>1, RemoveFirstAbsent DEF removeFIFO

\* addFIFOUnlocked makes a new key the youngest.
LEMMA HoldsAdd ==
  ASSUME NEW r, NEW s, NEW k \in Slots, k \notin s, Holds(r, s)
  PROVE  /\ Holds(addFIFOUnlocked(r, k), s \union {k})
         /\ Packed(Window(addFIFOUnlocked(r, k))) = addFIFO(Packed(Window(r)), k)
<1> DEFINE a == addFIFOUnlocked(r, k)
           q == Packed(Window(r))
<1>1. RingOK(a) /\ Window(a) = Append(Window(r), k) /\ Window(r) \in Seq(Slots)
  BY AddProperties, WindowProperties DEF Holds
<1>2. q \in Seq(Slots) /\ Packed(Window(a)) = IF IsKey(k) THEN Append(q, k) ELSE q
  BY <1>1, PackedAppend
<1>3. IsInjective(q) /\ ToSet(q) = s \ {EmptyKey} /\ k \notin ToSet(q)
  BY DEF Holds
<1>4. IsInjective(Append(q, k)) /\ ToSet(Append(q, k)) = ToSet(q) \union {k}
  BY <1>2, <1>3, AppendUniqueProperties
<1> HIDE DEF a, q
<1>5. Packed(Window(a)) = addFIFO(q, k)
  BY <1>2 DEF addFIFO, IsKey
<1>6. Holds(a, s \union {k})
  BY <1>1, <1>2, <1>3, <1>4 DEF Holds, IsKey
<1> QED BY <1>5, <1>6 DEF a, q

\* popFIFO takes the oldest key, or only tombstones when there is no key.
LEMMA HoldsPop ==
  ASSUME NEW r, NEW s, Holds(r, s), r.size # 0
  PROVE  LET p == popFIFO(r)
             q == Packed(Window(r))
             k == poppedKey(r) IN
         /\ Holds(p, s \ ({k} \ {EmptyKey}))
         /\ q = <<>> => k = EmptyKey /\ Packed(Window(p)) = <<>>
         /\ q # <<>> => k = Head(q) /\ Packed(Window(p)) = Tail(q) /\ k \in s \ {EmptyKey}
<1> DEFINE p == popFIFO(r)
           q == Packed(Window(r))
           k == poppedKey(r)
           t == Packed(Window(p))
<1>1. /\ RingOK(p)
      /\ q = <<>> => k = EmptyKey /\ t = <<>>
      /\ q # <<>> => k = Head(q) /\ t = Tail(q)
  BY PopProperties DEF Holds
<1>2. q \in Seq(Slots) /\ IsInjective(q) /\ ToSet(q) = s \ {EmptyKey}
  BY WindowProperties, PackedProperties DEF Holds
<1> HIDE DEF p, q, k, t
<1>3. CASE q = <<>>
  <2>1. IsInjective(t) /\ ToSet(t) = {}
    BY <1>1, <1>3 DEF IsInjective, ToSet
  <2>2. ToSet(q) = {}
    BY <1>3 DEF ToSet
  <2>3. Holds(p, s \ ({k} \ {EmptyKey}))
    BY <1>1, <1>2, <1>3, <2>1, <2>2 DEF Holds, t
  <2> QED BY <1>1, <1>3, <2>3 DEF p, q, k, t
<1>4. CASE q # <<>>
  <2>1. Head(q) \in ToSet(q) /\ IsInjective(Tail(q)) /\ ToSet(Tail(q)) = ToSet(q) \ {Head(q)}
    BY <1>2, <1>4, TailProperties
  <2>2. k # EmptyKey /\ k \in s \ {EmptyKey}
    BY <1>1, <1>2, <1>4, <2>1
  <2>3. Holds(p, s \ ({k} \ {EmptyKey}))
    BY <1>1, <1>2, <1>4, <2>1, <2>2 DEF Holds, t
  <2> QED BY <1>1, <1>4, <2>2, <2>3 DEF p, q, k, t
<1> QED BY <1>3, <1>4

\* After setUnlocked has dropped its old entry the key is not in the queue.
LEMMA ForgetProperties ==
  ASSUME RingInv, NEW k
  PROVE  /\ Holds(Forget(k), live \ {k})
         /\ Packed(Window(Forget(k))) = removeFIFO(LiveQueue, k)
<1>1. Holds(ring, live)
  BY DEF RingInv, Holds, LiveQueue
<1>2. CASE k \in live
  BY <1>1, <1>2, HoldsRemove DEF Forget, LiveQueue
<1>3. CASE k \notin live
  <2>1. live \ {k} = live
    BY <1>3
  <2> QED BY <1>1, <1>3, <2>1, RemoveAbsent DEF Forget, LiveQueue
<1> QED BY <1>2, <1>3

\* The operations of the abstract queue are those of the ring's sequence.
LEMMA QueueOperations ==
  ASSUME NEW q, NEW k
  PROVE  Queue!removeFIFO(q, k) = removeFIFO(q, k) /\ Queue!addFIFO(q, k) = addFIFO(q, k)
BY DEF Queue!removeFIFO, Queue!RemoveFirst, Queue!RemoveAt, Queue!SelectInSeq, Queue!Min,
       removeFIFO, RemoveFirst, RemoveAt, SelectInSeq, Min, Queue!addFIFO, addFIFO

\* Every call keeps the ring in order and does to its keys what it does to
\* the queue.
LEMMA RingStep ==
  ASSUME RingInv, [RingNext]_rvars
  PROVE  RingInv' /\ [Queue!Next]_(<<LiveQueue, victim>>)
<1>0. Holds(ring, live) /\ live \subseteq Keys
  BY DEF RingInv, Holds, LiveQueue
<1>i. ASSUME Holds(ring', live'), live' \subseteq Keys PROVE RingInv'
  BY <1>i DEF RingInv, Holds, LiveQueue
<1>q. ASSUME Queue!Next PROVE [Queue!Next]_(<<LiveQueue, victim>>)
  BY <1>q
<1>1. ASSUME NEW k \in Keys, SetPlain(k) PROVE RingInv' /\ Queue!Next
  <2>1. /\ Holds(Forget(k), live \ {k})
        /\ Packed(Window(Forget(k))) = removeFIFO(LiveQueue, k)
    BY ForgetProperties
  <2>2. /\ Holds(ring', (live \ {k}) \union {k})
        /\ Packed(Window(ring')) = addFIFO(removeFIFO(LiveQueue, k), k)
    <3>1. k \in Slots /\ k \notin live \ {k} /\ ring' = addFIFOUnlocked(Forget(k), k)
      BY <1>1 DEF Slots, SetPlain
    <3> QED BY <2>1, <3>1, HoldsAdd
  <2>3. live' = (live \ {k}) \union {k} /\ live' \subseteq Keys /\ victim' = EmptyKey
    BY <1>0, <1>1 DEF SetPlain
  <2>4. Queue!Refresh(k)
    BY <2>2, <2>3, QueueOperations DEF Queue!Refresh, LiveQueue
  <2> QED BY <1>1, <1>i, <2>2, <2>3, <2>4 DEF Queue!Next
<1>2. ASSUME NEW k \in Keys, SetTTL(k) PROVE RingInv' /\ Queue!Next
  <2> DEFINE f == Forget(k)
  <2>1. Holds(f, live \ {k}) /\ Packed(Window(f)) = removeFIFO(LiveQueue, k)
    BY ForgetProperties
  <2>2. ring' = removeFIFOUnlocked(f, k) /\ live' = live \ {k} /\ victim' = EmptyKey
    BY <1>2 DEF SetTTL
  <2> HIDE DEF f
  <2>3. /\ Holds(ring', (live \ {k}) \ {k})
        /\ Packed(Window(ring')) = removeFIFO(Packed(Window(f)), k)
    BY <2>1, <2>2, HoldsRemove
  <2>4. removeFIFO(Packed(Window(f)), k) = Packed(Window(f))
    BY <2>1, RemoveAbsent
  <2>5. Queue!Drop(k)
    BY <2>1, <2>2, <2>3, <2>4, QueueOperations DEF Queue!Drop, LiveQueue
  <2>6. (live \ {k}) \ {k} = live' /\ live' \subseteq Keys
    BY <1>0, <2>2
  <2> QED BY <1>2, <1>i, <2>3, <2>5, <2>6 DEF Queue!Next
<1>3. ASSUME NEW k \in Keys, DeleteKey(k) PROVE RingInv' /\ Queue!Next
  <2>1. ring' = removeFIFOUnlocked(ring, k) /\ live' = live \ {k} /\ victim' = EmptyKey
    BY <1>3 DEF DeleteKey
  <2>2. Holds(ring', live') /\ Packed(Window(ring')) = removeFIFO(LiveQueue, k)
    BY <1>0, <2>1, HoldsRemove DEF LiveQueue
  <2>3. Queue!Drop(k)
    BY <2>1, <2>2, QueueOperations DEF Queue!Drop, LiveQueue
  <2> QED BY <1>0, <1>3, <1>i, <2>1, <2>2, <2>3 DEF Queue!Next
<1>4. CASE EvictRound
  <2> DEFINE p == popFIFO(ring)
             k == poppedKey(ring)
             q == LiveQueue
             t == Packed(Window(p))
             s == live \ ({k} \ {EmptyKey})
  <2>1. /\ ring.size # 0 /\ victim' = k /\ live' = s
        /\ ring' = IF k \in live /\ k # EmptyKey THEN removeFIFOUnlocked(p, k) ELSE p
    BY <1>4 DEF EvictRound
  <2>2. /\ Holds(p, s)
        /\ q = <<>> => k = EmptyKey /\ t = <<>>
        /\ q # <<>> => k = Head(q) /\ t = Tail(q) /\ k \in live \ {EmptyKey}
    BY <1>0, <2>1, HoldsPop DEF LiveQueue
  <2> HIDE DEF p, k, q
  <2>3. Holds(ring', live') /\ Packed(Window(ring')) = t
    <3>1. CASE k \in live /\ k # EmptyKey
      <4>1. k \notin s /\ s \ {k} = s
        BY <3>1
      <4>2. /\ Holds(ring', s \ {k})
            /\ Packed(Window(ring')) = removeFIFO(t, k)
        BY <2>1, <2>2, <3>1, HoldsRemove
      <4>3. removeFIFO(t, k) = t
        BY <2>2, <4>1, RemoveAbsent
      <4> QED BY <2>1, <4>1, <4>2, <4>3
    <3>2. CASE ~(k \in live /\ k # EmptyKey)
      BY <2>1, <2>2, <3>2
    <3> QED BY <3>1, <3>2
  <2>4. Queue!PopOldest
    BY <2>1, <2>2, <2>3 DEF Queue!PopOldest, LiveQueue, q
  <2> QED BY <1>0, <1>i, <2>1, <2>3, <2>4 DEF Queue!Next
<1>5. CASE Reset
  <2>1. RingOK(ring') /\ Window(ring') = <<>>
    BY <1>0, <1>5, ClearProperties DEF Reset, Holds
  <2>2. Packed(Window(ring')) = <<>> /\ IsInjective(<<>>) /\ ToSet(<<>>) = {}
    BY <2>1, PackedEmpty DEF IsInjective, ToSet
  <2>3. live' = {} /\ victim' = EmptyKey
    BY <1>5 DEF Reset
  <2>4. Holds(ring', live')
    BY <2>1, <2>2, <2>3 DEF Holds
  <2>5. Queue!Clear
    BY <2>2, <2>3 DEF Queue!Clear, LiveQueue
  <2> QED BY <1>i, <2>3, <2>4, <2>5 DEF Queue!Next
<1>6. CASE UNCHANGED rvars
  BY <1>6 DEF rvars, RingInv, RingOK, LiveQueue, Window
<1> QED BY <1>1, <1>2, <1>3, <1>4, <1>5, <1>6, <1>q DEF RingNext

\* A new ring is the empty queue.
LEMMA RingInitial == RingInit => RingInv /\ Queue!Init
<1> SUFFICES ASSUME RingInit PROVE RingInv /\ Queue!Init
  OBVIOUS
<1>1. <<>> \in Seq(Slots) /\ InitCap \in Nat /\ InitCap > 1 /\ Len(<<>>) < InitCap
  BY InitCapAssumption
<1>2. RingOK(ring) /\ Window(ring) = <<>>
  BY <1>1, RepackProperties DEF RingInit
<1>3. LiveQueue = <<>> /\ IsInjective(<<>>) /\ ToSet(<<>>) = {}
  BY <1>2, PackedEmpty DEF LiveQueue, IsInjective, ToSet
<1> QED BY <1>2, <1>3 DEF RingInit, RingInv, Queue!Init

\* fifoTail is always the slot after the last entry and one slot is always
\* free, so addFIFOUnlocked never overwrites the oldest key, whatever Sets,
\* deletions, evictions and resets have done.
THEOREM RingSafe == RingSpec => []NothingOverwritten
<1>1. RingInv /\ [RingNext]_rvars => RingInv'
  BY RingStep
<1>2. RingInv => NothingOverwritten
  BY DEF RingInv, RingOK, NothingOverwritten
<1> QED BY RingInitial, <1>1, <1>2, PTL DEF RingSpec

\* The ring buffer with its tombstones, compactions and doublings implements
\* the plain queue: each call does to the keys what it does to the queue, and
\* the key popFIFO returns is the one SET longest ago.
THEOREM RingRefines == RingSpec => RingImplementsQueue
<1>1. RingInv /\ [RingNext]_rvars => RingInv' /\ [Queue!Next]_(<<LiveQueue, victim>>)
  BY RingStep
<1>2. RingInv /\ [RingNext]_rvars => [Queue!Next]_(Queue!qvars)
  BY <1>1 DEF Queue!qvars
<1> QED BY RingInitial, <1>1, <1>2, PTL DEF RingSpec, RingImplementsQueue, Queue!Spec
-----------------------------------------------------------------------------
(* The ring grows with the keys and not with the calls *)

\* Doubled starts with the capacity of a new ring and doubles.
LEMMA DoubledStep ==
  /\ Doubled[0] = InitCap
  /\ \A n \in Nat : Doubled[n] \in Nat /\ Doubled[n + 1] = 2 * Doubled[n]
<1> DEFINE Doubles(f) == f = [n \in Nat |-> IF n = 0 THEN InitCap ELSE 2 * f[n - 1]]
           step == [n \in Nat |-> [m \in Nat |-> 2 * m]]
<1>1. step \in [Nat -> [Nat -> Nat]] /\ InitCap \in Nat
  BY InitCapAssumption
<1>2. PICK f \in [Nat -> Nat] : Follows(f, InitCap, step)
  <2> HIDE DEF step
  <2> QED BY <1>1, Recursion
<1>3. ASSUME NEW n \in Nat PROVE f[n] = IF n = 0 THEN InitCap ELSE 2 * f[n - 1]
  <2>1. CASE n = 0
    BY <1>2, <2>1 DEF Follows
  <2>2. CASE n # 0
    <3>1. n \in Nat \ {0} /\ n - 1 \in Nat
      BY <2>2
    <3>2. f[n] = step[n][f[n - 1]] /\ f[n - 1] \in Nat
      BY <1>2, <3>1 DEF Follows
    <3> QED BY <2>2, <3>2
  <2> QED BY <2>1, <2>2
<1>4. Doubles(f)
  <2>1. f = [n \in Nat |-> f[n]]
    BY <1>2
  <2> QED BY <1>3, <2>1
<1>5. Doubled = CHOOSE g : Doubles(g)
  BY DEF Doubled
<1>6. Doubles(Doubled)
  <2> HIDE DEF Doubles
  <2> QED BY <1>4, <1>5
<1>7. Doubled[0] = InitCap /\ \A n \in Nat \ {0} : Doubled[n] = 2 * Doubled[n - 1]
  <2>1. \A n \in Nat : Doubled[n] = IF n = 0 THEN InitCap ELSE 2 * Doubled[n - 1]
    BY <1>6
  <2> QED BY <2>1
<1> HIDE DEF Doubles
<1>8. \A n \in Nat : Doubled[n] \in Nat
  <2> DEFINE C == {n \in Nat : Doubled[n] \notin Nat}
  <2> SUFFICES ASSUME C # {} PROVE FALSE
    OBVIOUS
  <2>1. PICK n \in C : \A m \in C : n <= m
    <3>1. C \subseteq Nat
      OBVIOUS
    <3> HIDE DEF C
    <3> QED BY <3>1, LeastNatural
  <2>2. n # 0
    BY <1>1, <1>7
  <2>3. n - 1 \in Nat /\ Doubled[n - 1] \in Nat
    <3>1. n - 1 \in Nat /\ n \in Nat
      BY <2>2
    <3>2. n - 1 \notin C
      BY <2>1, <3>1
    <3> QED BY <3>1, <3>2
  <2>4. Doubled[n] = 2 * Doubled[n - 1]
    BY <1>7, <2>2
  <2> QED BY <2>3, <2>4
<1>9. ASSUME NEW n \in Nat PROVE Doubled[n + 1] = 2 * Doubled[n]
  <2> DEFINE m == n + 1
  <2>1. m \in Nat \ {0} /\ m - 1 = n
    OBVIOUS
  <2> HIDE DEF m
  <2>2. Doubled[m] = 2 * Doubled[m - 1]
    BY <1>7, <2>1
  <2> QED BY <2>1, <2>2 DEF m
<1> QED BY <1>7, <1>8, <1>9

\* More doublings, more slots.
LEMMA DoubledMonotone ==
  ASSUME NEW n \in Nat, NEW m \in Nat, m <= n
  PROVE  Doubled[m] <= Doubled[n]
<1> DEFINE C == {i \in Nat : m <= i /\ ~(Doubled[m] <= Doubled[i])}
<1> SUFFICES ASSUME C # {} PROVE FALSE
  OBVIOUS
<1>1. PICK i \in C : \A j \in C : i <= j
  <2>1. C \subseteq Nat
    OBVIOUS
  <2> HIDE DEF C
  <2> QED BY <2>1, LeastNatural
<1>2. i # m
  BY DoubledStep
<1>3. i - 1 \in Nat /\ m <= i - 1 /\ i \in Nat
  BY <1>2
<1> DEFINE j == i - 1
<1>4. Doubled[m] <= Doubled[j]
  <2>1. j \notin C
    BY <1>1, <1>3
  <2> QED BY <1>3, <2>1
<1>5. j \in Nat /\ j + 1 = i
  BY <1>3
<1> HIDE DEF j
<1>6. Doubled[j] \in Nat /\ Doubled[i] = 2 * Doubled[j] /\ Doubled[m] \in Nat
  BY <1>5, DoubledStep
<1> QED BY <1>4, <1>6

\* After d doublings there is room for the keys that are left: the slots that
\* hold no key and were not counted as tombstones are at most b.
Spare(r, d, b) == (d = 0 => b = 0) /\ (d > 0 => r.cap = 2 * (b + 2 * d))

\* The entries not counted as tombstones are at most b more than the keys of s.
Room(r, s, b) == r.size - r.tombs <= Cardinality(s) + b

\* The capacity is that of d doublings, and there were 2 * d keys or more to
\* cause them.
CapInv ==
  /\ FewOrNone(ring)
  /\ \E d, b \in Nat : /\ ring.cap = Doubled[d]
                       /\ 2 * d <= Cardinality(Keys)
                       /\ Spare(ring, d, b)
                       /\ Room(ring, live, b)

\* Removing a key never leaves less room, whether the key was in the ring,
\* had been popped, or is the empty string that marks the tombstones.
LEMMA RemoveRoom ==
  ASSUME NEW r, NEW s, IsFiniteSet(s), Holds(r, s), NEW k, NEW b \in Nat, Room(r, s, b)
  PROVE  /\ Room(removeFIFOUnlocked(r, k), s \ {k}, b)
         /\ FewOrNone(removeFIFOUnlocked(r, k))
         /\ removeFIFOUnlocked(r, k).cap = r.cap
<1> DEFINE c == removeFIFOUnlocked(r, k)
           w == Window(r)
           q == Packed(w)
           n == Packed(Window(c))
<1>1. /\ RingOK(c) /\ c.cap = r.cap /\ FewOrNone(c)
      /\ \/ c.tombs = 0 /\ c.size = Len(n)
         \/ c.size = r.size /\ c.tombs = IF k \in ToSet(w) THEN r.tombs + 1 ELSE r.tombs
  BY RemoveProperties DEF Holds
<1>2. /\ w \in Seq(Slots) /\ q \in Seq(Slots) /\ Len(w) = r.size
      /\ ToSet(q) = ToSet(w) \ {EmptyKey} /\ ToSet(q) = s \ {EmptyKey} /\ IsInjective(q)
  BY WindowProperties, PackedProperties DEF Holds
<1>3. /\ n \in Seq(Slots) /\ IsInjective(n) /\ ToSet(n) = (s \ {k}) \ {EmptyKey}
  <2>1. Holds(c, s \ {k})
    BY HoldsRemove
  <2>2. n \in Seq(Slots)
    BY <1>1, WindowProperties, PackedProperties
  <2> QED BY <2>1, <2>2 DEF Holds
<1>4. /\ r.size \in Nat /\ r.tombs \in Nat /\ c.size \in Nat /\ c.tombs \in Nat
  BY <1>1 DEF Holds, RingOK
<1>5. /\ Cardinality(s) \in Nat /\ Cardinality(s \ {k}) \in Nat /\ IsFiniteSet(s \ {k})
      /\ Cardinality(s \ {k}) = IF k \in s THEN Cardinality(s) - 1 ELSE Cardinality(s)
  BY FS_RemoveElement, FS_CardinalityType
<1> HIDE DEF c, w, q, n
<1>6. CASE c.tombs = 0 /\ c.size = Len(n)
  <2>1. Cardinality(ToSet(n)) = Len(n)
    BY <1>3, InjectiveLength
  <2>2. Cardinality(ToSet(n)) <= Cardinality(s \ {k})
    BY <1>3, <1>5, FS_Subset
  <2> QED BY <1>1, <1>4, <1>5, <1>6, <2>1, <2>2 DEF Room, c
<1>7. CASE c.size = r.size /\ c.tombs = IF k \in ToSet(w) THEN r.tombs + 1 ELSE r.tombs
  <2>1. CASE k \in ToSet(w) \/ k \notin s
    BY <1>1, <1>4, <1>5, <1>7, <2>1 DEF Room, c
  <2>2. CASE k \notin ToSet(w) /\ k \in s
    <3>1. k = EmptyKey
      BY <1>2, <2>2
    <3>2. q = w
      BY <1>2, <2>2, <3>1, PackedKeys DEF q
    <3>3. Len(w) = Cardinality(s \ {k})
      BY <1>2, <3>1, <3>2, InjectiveLength
    <3> QED BY <1>1, <1>2, <1>4, <1>5, <1>7, <2>2, <3>3 DEF Room, c
  <2> QED BY <2>1, <2>2
<1> QED BY <1>1, <1>6, <1>7 DEF c

\* The arithmetic of a doubling: when the ring is full although most
\* tombstones were dropped, there are more than two keys per doubling.
LEMMA Crowded ==
  ASSUME NEW cap \in Nat, cap > 1, NEW tombs \in Nat, NEW d \in Nat, NEW b \in Nat, NEW n \in Nat,
         tombs = 0 \/ tombs < (cap - 1) \div 2,
         d = 0 => b = 0,
         d > 0 => cap = 2 * (b + 2 * d),
         cap - 1 - tombs <= n + b
  PROVE  n >= 2 * d + 1 /\ cap - 2 * (d + 1) \in Nat
<1>1. CASE d = 0
  BY <1>1
<1>2. CASE d > 0
  <2>1. cap = 2 * b + 4 * d
    BY <1>2
  <2>2. tombs = 0 \/ tombs < b + 2 * d
    <3>1. (cap - 1) \div 2 <= b + 2 * d - 1
      BY <1>2, <2>1
    <3> QED BY <2>1, <3>1
  <2>3. tombs = 0 \/ tombs <= b + 2 * d - 2
    <3>1. (cap - 1) \div 2 <= b + 2 * d - 1
      BY <1>2, <2>1
    <3> QED BY <2>1, <3>1
  <2> QED BY <1>2, <2>1, <2>3
<1> QED BY <1>1, <1>2

\* The ring doubles only when there are two keys more than at the last time.
LEMMA CapStep ==
  ASSUME IsFiniteSet(Keys), RingInv, CapInv, [RingNext]_rvars
  PROVE  CapInv'
<1>0. Holds(ring, live) /\ live \subseteq Keys /\ IsFiniteSet(live)
      /\ Cardinality(live) \in Nat /\ Cardinality(live) <= Cardinality(Keys)
      /\ Cardinality(Keys) \in Nat
  <2>1. Holds(ring, live) /\ live \subseteq Keys
    BY DEF RingInv, Holds, LiveQueue
  <2> QED BY <2>1, FS_Subset, FS_CardinalityType
<1>1. PICK d \in Nat, b \in Nat : /\ ring.cap = Doubled[d]
                                  /\ 2 * d <= Cardinality(Keys)
                                  /\ Spare(ring, d, b)
                                  /\ Room(ring, live, b)
  BY DEF CapInv
<1>2. FewOrNone(ring)
  BY DEF CapInv
<1>s. ASSUME NEW r, NEW s, r.cap = ring.cap, FewOrNone(r), Room(r, s, b), ring' = r, live' = s
      PROVE  CapInv'
  BY <1>1, <1>s DEF CapInv, Spare
<1>f. ASSUME NEW k
      PROVE  LET f == Forget(k) IN
             /\ Holds(f, live \ {k}) /\ f.cap = ring.cap /\ FewOrNone(f) /\ Room(f, live \ {k}, b)
             /\ IsFiniteSet(live \ {k})
  <2>1. Holds(Forget(k), live \ {k}) /\ IsFiniteSet(live \ {k})
    BY <1>0, ForgetProperties, FS_RemoveElement
  <2>2. CASE k \in live
    BY <1>0, <1>1, <2>1, <2>2, RemoveRoom DEF Forget
  <2>3. CASE k \notin live
    <3>1. live \ {k} = live
      BY <2>3
    <3> QED BY <1>1, <1>2, <2>1, <2>3, <3>1 DEF Forget
  <2> QED BY <2>2, <2>3
<1>3. ASSUME NEW k \in Keys, SetPlain(k) PROVE CapInv'
  <2> DEFINE f == Forget(k)
             s == live \ {k}
             a == addFIFOUnlocked(f, k)
  <2>1. /\ Holds(f, s) /\ f.cap = ring.cap /\ FewOrNone(f) /\ Room(f, s, b) /\ IsFiniteSet(s)
        /\ k \in Slots /\ k \notin s
    BY <1>f DEF Slots
  <2>2. /\ RingOK(a) /\ a.size = f.size + 1
        /\ \/ a.cap = f.cap /\ a.tombs = f.tombs
           \/ f.size = f.cap - 1 /\ a.cap = 2 * f.cap /\ a.tombs = 0
    BY <2>1, AddProperties DEF Holds
  <2>3. ring' = a /\ live' = s \union {k} /\ live' \subseteq Keys
    BY <1>0, <1>3 DEF SetPlain
  <2> HIDE DEF f, s, a
  <2>4. /\ f.size \in Nat /\ f.tombs \in Nat /\ f.cap \in Nat /\ f.cap > 1
        /\ a.size \in Nat /\ a.tombs \in Nat /\ a.cap \in Nat
    BY <2>1, <2>2 DEF Holds, RingOK
  <2>5. /\ Cardinality(s) \in Nat /\ Cardinality(s \union {k}) = Cardinality(s) + 1
        /\ IsFiniteSet(s \union {k}) /\ Cardinality(s) + 1 <= Cardinality(Keys)
    <3>1. Cardinality(s) \in Nat /\ Cardinality(s \union {k}) = Cardinality(s) + 1
          /\ IsFiniteSet(s \union {k})
      BY <2>1, FS_AddElement, FS_CardinalityType
    <3>2. Cardinality(s \union {k}) <= Cardinality(Keys)
      BY <2>3, FS_Subset
    <3> QED BY <3>1, <3>2
  <2>6. CASE a.cap = f.cap /\ a.tombs = f.tombs
    <3>1. Room(a, s \union {k}, b)
      BY <2>1, <2>2, <2>4, <2>5, <2>6 DEF Room
    <3>2. FewOrNone(a)
      BY <2>1, <2>6 DEF FewOrNone
    <3> QED BY <1>s, <2>1, <2>3, <2>6, <3>1, <3>2
  <2>7. CASE f.size = f.cap - 1 /\ a.cap = 2 * f.cap /\ a.tombs = 0
    <3> DEFINE e == d + 1
               x == f.cap - 2 * e
               n == Cardinality(s)
    <3>1. n >= 2 * d + 1 /\ x \in Nat
      <4>1. f.tombs = 0 \/ f.tombs < (f.cap - 1) \div 2
        BY <2>1 DEF FewOrNone
      <4>2. (d = 0 => b = 0) /\ (d > 0 => f.cap = 2 * (b + 2 * d))
        BY <1>1, <2>1 DEF Spare
      <4>3. f.cap - 1 - f.tombs <= n + b
        BY <2>1, <2>7 DEF Room
      <4>4. n \in Nat
        BY <2>5
      <4> HIDE DEF n
      <4> QED BY <2>4, <4>1, <4>2, <4>3, <4>4, Crowded
    <3>2. e \in Nat /\ e > 0 /\ 2 * e <= Cardinality(Keys)
      BY <1>0, <2>5, <3>1
    <3>3. a.cap = Doubled[e]
      BY <1>1, <2>1, <2>7, DoubledStep
    <3>4. a.cap = 2 * (x + 2 * e)
      <4>1. x + 2 * e = f.cap
        BY <2>4
      <4> HIDE DEF x
      <4> QED BY <2>7, <4>1
    <3>5. Room(a, s \union {k}, x)
      BY <2>2, <2>4, <2>5, <2>7, <3>1 DEF Room
    <3> HIDE DEF e, x
    <3>6. Spare(a, e, x) /\ FewOrNone(a)
      BY <2>7, <3>2, <3>4 DEF Spare, FewOrNone
    <3> QED BY <2>3, <3>1, <3>2, <3>3, <3>5, <3>6 DEF CapInv
  <2> QED BY <2>2, <2>6, <2>7
<1>4. ASSUME NEW k \in Keys, SetTTL(k) PROVE CapInv'
  <2> DEFINE f == Forget(k)
             c == removeFIFOUnlocked(f, k)
  <2>1. /\ Holds(f, live \ {k}) /\ f.cap = ring.cap /\ Room(f, live \ {k}, b)
        /\ IsFiniteSet(live \ {k})
    BY <1>f
  <2>2. ring' = c /\ live' = live \ {k}
    BY <1>4 DEF SetTTL
  <2> HIDE DEF f
  <2>3. Room(c, (live \ {k}) \ {k}, b) /\ FewOrNone(c) /\ c.cap = f.cap
    BY <2>1, RemoveRoom
  <2>4. (live \ {k}) \ {k} = live \ {k}
    OBVIOUS
  <2> QED BY <1>s, <2>1, <2>2, <2>3, <2>4
<1>5. ASSUME NEW k \in Keys, DeleteKey(k) PROVE CapInv'
  <2>1. ring' = removeFIFOUnlocked(ring, k) /\ live' = live \ {k}
    BY <1>5 DEF DeleteKey
  <2> QED BY <1>0, <1>1, <1>s, <2>1, RemoveRoom
<1>6. CASE EvictRound
  <2> DEFINE p == popFIFO(ring)
             k == poppedKey(ring)
             s == live \ ({k} \ {EmptyKey})
  <2>1. /\ ring.size # 0 /\ live' = s
        /\ ring' = IF k \in live /\ k # EmptyKey THEN removeFIFOUnlocked(p, k) ELSE p
    BY <1>6 DEF EvictRound
  <2>2. Holds(p, s)
    BY <1>0, <2>1, HoldsPop
  <2>3. p.cap = ring.cap /\ p.tombs = ring.tombs /\ p.size < ring.size
    BY <1>0, <2>1, PopProperties DEF Holds
  <2>4. /\ p.size \in Nat /\ ring.size \in Nat /\ ring.tombs \in Nat
    BY <1>0, <2>2 DEF Holds, RingOK
  <2> HIDE DEF p, k
  <2>5. IsFiniteSet(s) /\ Cardinality(s) \in Nat /\ Cardinality(s) >= Cardinality(live) - 1
    <3>1. CASE k = EmptyKey
      <4>1. s = live
        BY <3>1
      <4>2. /\ IsFiniteSet(live) /\ Cardinality(live) \in Nat
            /\ Cardinality(live) >= Cardinality(live) - 1
        BY <1>0
      <4> HIDE DEF s
      <4> QED BY <4>1, <4>2
    <3>2. CASE k # EmptyKey
      <4>1. s = live \ {k}
        BY <3>2
      <4>2. /\ IsFiniteSet(live \ {k})
            /\ Cardinality(live \ {k}) = IF k \in live THEN Cardinality(live) - 1 ELSE Cardinality(live)
        BY <1>0, FS_RemoveElement
      <4>3. Cardinality(live \ {k}) \in Nat
        BY <4>2, FS_CardinalityType
      <4> QED BY <1>0, <4>1, <4>2, <4>3
    <3> QED BY <3>1, <3>2
  <2> HIDE DEF s
  <2>6. Room(p, s, b)
    BY <1>0, <1>1, <2>3, <2>4, <2>5 DEF Room
  <2>7. CASE k \in live /\ k # EmptyKey
    <3>1. s \ {k} = s
      BY <2>7 DEF s
    <3>2. Room(ring', s, b) /\ FewOrNone(ring') /\ ring'.cap = ring.cap
      BY <2>1, <2>2, <2>3, <2>5, <2>6, <2>7, <3>1, RemoveRoom
    <3> QED BY <1>s, <2>1, <3>2
  <2>8. CASE ~(k \in live /\ k # EmptyKey)
    <3>1. ring' = p /\ FewOrNone(p)
      BY <1>2, <2>1, <2>3, <2>8 DEF FewOrNone
    <3> QED BY <1>s, <2>1, <2>3, <2>6, <3>1
  <2> QED BY <2>7, <2>8
<1>7. CASE Reset
  <2>1. ring'.cap = ring.cap /\ ring'.size = 0 /\ ring'.tombs = 0 /\ live' = {}
    BY <1>0, <1>7, ClearProperties DEF Reset, Holds
  <2>2. Cardinality(live') = 0
    BY <2>1, FS_EmptySet
  <2>3. Room(ring', live', b) /\ FewOrNone(ring')
    BY <2>1, <2>2 DEF Room, FewOrNone
  <2> QED BY <1>s, <2>1, <2>3
<1>8. CASE UNCHANGED rvars
  BY <1>8 DEF rvars, CapInv, FewOrNone, Spare, Room
<1> QED BY <1>3, <1>4, <1>5, <1>6, <1>7, <1>8 DEF RingNext

\* However many Sets, deletions and evictions there are, fifoCap doubles at
\* most once for every two keys that clients use, although ensureFIFOCap
\* copies the tombstones and forgets their number.
THEOREM RingBounded ==
  ASSUME IsFiniteSet(Keys)
  PROVE  RingSpec => []CapacityBounded
<1>1. RingInit => CapInv
  <2> SUFFICES ASSUME RingInit PROVE CapInv
    OBVIOUS
  <2>1. <<>> \in Seq(Slots) /\ InitCap \in Nat /\ InitCap > 1 /\ Len(<<>>) < InitCap /\ Len(<<>>) = 0
    BY InitCapAssumption
  <2>2. ring.cap = InitCap /\ ring.size = 0 /\ ring.tombs = 0 /\ live = {}
    BY <2>1, RepackProperties DEF RingInit
  <2>3. ring.cap = Doubled[0] /\ 2 * 0 <= Cardinality(Keys) /\ Cardinality(live) = 0
    BY <2>2, DoubledStep, FS_EmptySet, FS_CardinalityType
  <2>4. Spare(ring, 0, 0) /\ Room(ring, live, 0) /\ FewOrNone(ring)
    BY <2>2, <2>3 DEF Spare, Room, FewOrNone
  <2>5. 0 \in Nat
    OBVIOUS
  <2> QED BY <2>3, <2>4, <2>5 DEF CapInv
<1>2. RingInv /\ [RingNext]_rvars => RingInv'
  BY RingStep
<1>3. RingInv /\ CapInv /\ [RingNext]_rvars => CapInv'
  BY CapStep
<1>4. CapInv => CapacityBounded
  <2> SUFFICES ASSUME CapInv PROVE CapacityBounded
    OBVIOUS
  <2>1. PICK d \in Nat : ring.cap = Doubled[d] /\ 2 * d <= Cardinality(Keys)
    BY DEF CapInv
  <2> DEFINE m == Cardinality(Keys)
             h == m \div 2
  <2>2. m \in Nat /\ 2 * d <= m
    BY <2>1, FS_CardinalityType
  <2> HIDE DEF m
  <2>3. h \in Nat /\ d <= h
    BY <2>2
  <2> HIDE DEF h
  <2>4. Doubled[d] <= Doubled[h]
    BY <2>3, DoubledMonotone
  <2> QED BY <2>1, <2>4 DEF CapacityBounded, h, m
<1> QED BY RingInitial, <1>1, <1>2, <1>3, <1>4, PTL DEF RingSpec
=============================================================================
