------------------------------ MODULE FifoRing ------------------------------
(***************************************************************************)
(* The ring buffer of non-TTL keys of pkg/store/store.go (fifoKeys,        *)
(* fifoHead, fifoTail, fifoSize, fifoCap, tombs), driven by the calls the  *)
(* store makes under its write lock: setUnlocked, deleteKeyUnlocked, the   *)
(* FIFO branch of evictIfNeeded and the reset of RestoreSnapshot.          *)
(*                                                                         *)
(* A removed key leaves the empty string in its slot; slots are reclaimed  *)
(* by popFIFO and by compactIfNeeded, and the ring doubles when one free   *)
(* slot is left.  tombs is only an estimate: popFIFO does not decrease it  *)
(* and ensureFIFOCap copies tombstones but resets it.                      *)
(***************************************************************************)
EXTENDS Fifo

CONSTANT InitCap    \* capacity of a new ring (1024 in the code)

ASSUME InitCapAssumption == InitCap \in Nat \ {0, 1}

VARIABLES
  ring,    \* the ring buffer
  live,    \* keys of s.data whose ExpiresAt is 0
  victim   \* the key evictIfNeeded popped in the last step, else EmptyKey

rvars == <<ring, live, victim>>
-----------------------------------------------------------------------------
\* The valid entries, oldest first, tombstones included.
Window(r) == [i \in 1..r.size |-> r.keys[(r.head + i - 1) % r.cap]]

IsKey(k) == k # EmptyKey

\* The entries of w without the tombstones, copied one after the other.
Packed(w) ==
  LET copied[n \in 0..Len(w)] ==
        IF n = 0 THEN <<>>
        ELSE IF IsKey(w[n]) THEN Append(copied[n - 1], w[n]) ELSE copied[n - 1]
  IN  copied[Len(w)]

\* A new array of n slots filled from its start with the entries of s.
Repack(s, n) ==
  [keys  |-> [i \in 0..n-1 |-> IF i < Len(s) THEN s[i + 1] ELSE EmptyKey],
   head  |-> 0,
   tail  |-> Len(s),
   size  |-> Len(s),
   cap   |-> n,
   tombs |-> 0]

\* Mutant: the ring grows only when no slot is free.
ensureFIFOCapLate(r) ==
  IF r.size < r.cap THEN r ELSE Repack(Window(r), 2 * r.cap)

\* Mutant: the array is copied from its start instead of from fifoHead.
ensureFIFOCapUnrotated(r) ==
  IF r.size < r.cap - 1 THEN r
  ELSE Repack([i \in 1..r.size |-> r.keys[i - 1]], 2 * r.cap)

ensureFIFOCap(r) ==
  IF r.size < r.cap - 1 THEN r ELSE Repack(Window(r), 2 * r.cap)

addFIFOUnlocked(r, k) ==
  LET e    == ensureFIFOCap(r)
      full == e.size >= e.cap
      next(i) == (i + 1) % e.cap
  IN  [e EXCEPT !.keys[e.tail] = k,
                !.tail = next(@),
                !.size = IF full THEN @ ELSE @ + 1,
                !.head = IF full THEN next(@) ELSE @]

\* Mutant: tombstones are never worth a compaction.
FewTombsAlways(r) == r.tombs <= r.size

\* tombs < size/2, with Go's integer division, leaves the ring as it is.
FewTombs(r) == r.tombs < r.size \div 2

compactIfNeeded(r) ==
  CASE r.size = 0               -> [r EXCEPT !.head = 0, !.tail = 0, !.tombs = 0]
    [] r.size # 0 /\ FewTombs(r) -> r
    [] OTHER                    -> Repack(Packed(Window(r)), r.cap)

removeFIFOUnlocked(r, k) ==
  LET i == SelectInSeq(Window(r), LAMBDA x : x = k)
  IN  compactIfNeeded(
        IF i = 0 THEN r
        ELSE [r EXCEPT !.keys[(r.head + i - 1) % r.cap] = EmptyKey,
                       !.tombs = @ + 1])

\* How many slots popFIFO consumes: up to and including the first real key.
PopCount(r) ==
  LET i == SelectInSeq(Window(r), IsKey) IN IF i = 0 THEN r.size ELSE i

\* The ring popFIFO leaves, and the key it returns.
popFIFO(r) ==
  LET n == PopCount(r)
      popped == {(r.head + i) % r.cap : i \in 0..n-1}
  IN  [r EXCEPT !.keys = [i \in 0..r.cap-1 |->
                            IF i \in popped THEN EmptyKey ELSE r.keys[i]],
                !.head = (@ + n) % r.cap,
                !.size = @ - n]

poppedKey(r) == IF r.size = 0 THEN EmptyKey ELSE Window(r)[PopCount(r)]
-----------------------------------------------------------------------------
RingInit ==
  /\ ring = Repack(<<>>, InitCap)
  /\ live = {}
  /\ victim = EmptyKey

\* setUnlocked drops the old entry of a key that had no TTL.
Forget(k) == IF k \in live THEN removeFIFOUnlocked(ring, k) ELSE ring

\* setUnlocked with ttl = 0.
SetPlain(k) ==
  /\ ring' = addFIFOUnlocked(Forget(k), k)
  /\ live' = live \union {k}
  /\ victim' = EmptyKey

\* setUnlocked with ttl > 0: removeFIFOUnlocked is called a second time.
SetTTL(k) ==
  /\ ring' = removeFIFOUnlocked(Forget(k), k)
  /\ live' = live \ {k}
  /\ victim' = EmptyKey

\* deleteKeyUnlocked of a key without TTL (for one with TTL the ring is not touched).
DeleteKey(k) ==
  /\ k \in live
  /\ ring' = removeFIFOUnlocked(ring, k)
  /\ live' = live \ {k}
  /\ victim' = EmptyKey

\* One round of evictIfNeeded's FIFO loop: pop, then delete the key popped.
EvictRound ==
  LET key == poppedKey(ring)
      popped == popFIFO(ring)
  IN  /\ ring.size > 0
      /\ ring' = IF key \in live /\ key # EmptyKey
              THEN removeFIFOUnlocked(popped, key) ELSE popped
      /\ live' = live \ ({key} \ {EmptyKey})
      /\ victim' = key

\* RestoreSnapshot resets the indices and keeps the array.
Reset ==
  /\ ring' = [ring EXCEPT !.head = 0, !.tail = 0, !.size = 0, !.tombs = 0]
  /\ live' = {}
  /\ victim' = EmptyKey

RingNext ==
  \/ \E k \in Keys : SetPlain(k) \/ SetTTL(k) \/ DeleteKey(k)
  \/ EvictRound
  \/ Reset

RingSpec == RingInit /\ [][RingNext]_rvars
-----------------------------------------------------------------------------
\* The keys in the ring without its tombstones.
LiveQueue == Packed(Window(ring))

\* addFIFOUnlocked writes at fifoTail and has a branch that overwrites the
\* oldest entry of a full ring.  fifoTail is always the slot after the last
\* valid entry and one slot is always free, so that branch is dead and no
\* key is ever lost by it.
NothingOverwritten ==
  /\ ring.tail = (ring.head + ring.size) % ring.cap
  /\ ring.size < ring.cap

\* The capacity of a new ring after n doublings.
Doubled[n \in Nat] == IF n = 0 THEN InitCap ELSE 2 * Doubled[n - 1]

\* However many SETs there are, fifoCap doubles only as long as there are
\* new keys: after the first doubling each one takes at least two keys more
\* than the last.  It may still grow much faster than the keys, because
\* ensureFIFOCap copies the tombstones and forgets their number.
CapacityBounded == ring.cap <= Doubled[Cardinality(Keys) \div 2]

\* The ring with its tombstones implements the plain queue of FifoQueue;
\* in particular the key popped is the one SET longest ago.
Queue == INSTANCE FifoQueue WITH queue <- LiveQueue
RingImplementsQueue == Queue!Spec
=============================================================================
