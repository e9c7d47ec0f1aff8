------------------------------ MODULE StoreReads ------------------------------
(***************************************************************************)
(* Store with a history of what each Get could have observed.  Get reads   *)
(* the clock, then looks the key up under the read lock, then again under  *)
(* the write lock; whatever happens in between, its answer must be what    *)
(* the key held at some moment between its call and its return.            *)
(***************************************************************************)
EXTENDS Store

CONSTANT NotFound   \* the answer of a Get that finds no live key

VARIABLE seen       \* what the key of each pending Get has held since its call

hvars == <<vars, seen>>

\* What a reader sees of key k: past its expiry time a key is not there.
Visible(d, k, t) ==
  IF d[k] # NoItem /\ (d[k].expiresAt = 0 \/ t <= d[k].expiresAt)
  THEN d[k].value
  ELSE NotFound

\* The states between two critical sections are the ones a reader can see.
Observe ==
  seen' = [c \in Clients |->
    IF get'[c] = Idle THEN {}
    ELSE IF mu' = "free" THEN seen[c] \union {Visible(data', get'[c].key, clock')}
    ELSE seen[c]]

\* Mutant: the expiry time is not looked at.
getReplyNoExpiry(c) ==
  LET item == data[get[c].key] IN
  IF get[c].phase = "rlock" \/ item = NoItem THEN NotFound ELSE item.value

\* What getWithNow returns in the phase it is in.
getReply(c) ==
  LET item == data[get[c].key] IN
  IF get[c].phase = "rlock" \/ item = NoItem THEN NotFound
  ELSE IF IsExpired(item, get[c].now) THEN NotFound
  ELSE item.value

HInit == Init /\ seen = [c \in Clients |-> {}]
HNext == Next /\ Observe
HSpec == HInit /\ [][HNext]_hvars

\* Get is linearizable: it answers with a value, or "not found", that was
\* true of its key at some moment since its call, although it decides on
\* expiry with a time it read before the lock and other goroutines set,
\* delete and expire the key between its two lookups.
GetLinearizable ==
  [][\A c \in Clients :
       get[c] # Idle /\ get'[c] = Idle /\ mu' # "restore" => getReply(c) \in seen[c]]_hvars
=============================================================================
