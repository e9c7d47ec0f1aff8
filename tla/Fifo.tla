-------------------------------- MODULE Fifo --------------------------------
(***************************************************************************)
(* The store's FIFO of non-TTL keys, seen as a plain sequence of keys,     *)
(* oldest first (pkg/store/store.go, addFIFOUnlocked/removeFIFOUnlocked/   *)
(* popFIFO).  FifoRing shows that the ring buffer of the code behaves like *)
(* this sequence; Store is written on top of it.                           *)
(*                                                                         *)
(* The code marks a removed slot with the empty string, so the empty key   *)
(* is never seen in the FIFO: adding it or removing it changes nothing.    *)
(***************************************************************************)
EXTENDS Naturals, SequencesExt

CONSTANTS
  Keys,      \* the keys clients use
  EmptyKey   \* the empty string, tombstone of the ring and "no key" result

\* addFIFOUnlocked: the key becomes the youngest one.
addFIFO(q, k) == IF k = EmptyKey THEN q ELSE Append(q, k)

\* removeFIFOUnlocked: the first slot holding the key becomes a tombstone.
removeFIFO(q, k) == RemoveFirst(q, k)
=============================================================================
