------------------------------ MODULE FifoQueue ------------------------------
(***************************************************************************)
(* What the FIFO of non-TTL keys promises to evictIfNeeded: a queue from   *)
(* which keys may be dropped anywhere, whose popped key is always the one  *)
(* that has been in it longest.                                            *)
(***************************************************************************)
EXTENDS Fifo

VARIABLES
  queue,   \* the keys without TTL, oldest first
  victim   \* the key the last step popped, EmptyKey if it popped none

qvars == <<queue, victim>>

Init == queue = <<>> /\ victim = EmptyKey

\* A SET without TTL makes its key the youngest.
Refresh(k) ==
  /\ queue' = addFIFO(removeFIFO(queue, k), k)
  /\ victim' = EmptyKey

\* A SET with TTL, a deletion or an expiration takes its key out.
Drop(k) ==
  /\ queue' = removeFIFO(queue, k)
  /\ victim' = EmptyKey

\* One round of FIFO eviction.
PopOldest ==
  IF queue = <<>> THEN queue' = queue /\ victim' = EmptyKey
                  ELSE queue' = Tail(queue) /\ victim' = Head(queue)

\* A restored snapshot starts with an empty FIFO.
Clear ==
  /\ queue' = <<>>
  /\ victim' = EmptyKey

Next ==
  \/ \E k \in Keys : Refresh(k) \/ Drop(k)
  \/ PopOldest
  \/ Clear

Spec == Init /\ [][Next]_qvars
=============================================================================
