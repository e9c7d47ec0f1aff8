----------------------------- MODULE Replication -----------------------------
(***************************************************************************)
(* A master and one replica (pkg/server/server.go): the master's clients   *)
(* execute SETs and broadcast them, handleReplicaConnection sends a        *)
(* snapshot and then streams, startReplicaClient connects, applies what it *)
(* receives and connects again, and startLeaderHeartbeat lets the replica  *)
(* elect itself when it cannot reach the master.                           *)
(*                                                                         *)
(* SETs are numbered in the order in which a store applies them and the    *)
(* number stands for the value; 0 is an absent key.  Every connection the  *)
(* replica opens has a handler of its own at the master, and the handler   *)
(* of a broken connection lives on until it notices.  PUBLISH travels the  *)
(* same way as SET and changes no store, so it is left out.  Each store    *)
(* with a memory limit evicts on its own: evictions are not broadcast.     *)
(* Keys have no TTL, the master does not restart and no key is deleted at  *)
(* it: restarts and MIGRATE's deletions are in module Cluster.             *)
(***************************************************************************)
EXTENDS Naturals, Sequences, FiniteSets

CONSTANTS
  Keys,
  Clients,     \* goroutines of the master that execute SETs
  Limited,     \* which of "master" and "replica" have a memory limit
  ChanSize,    \* capacity of a replicaClient's channel (1024 in the code)
  MaxSets,     \* bound on the number of SETs
  MaxConns     \* bound on the number of connections the replica opens

ASSUME ReplicationAssumption ==
  Limited \subseteq {"master", "replica"} /\ ChanSize \in Nat \ {0} /\ MaxSets \in Nat /\ MaxConns \in Nat

Conns == 1..MaxConns

VARIABLES
  mem,          \* the master's store
  last,         \* number of SETs so far
  newest,       \* history: the newest SET of each key at the master
  set,          \* the SET each client is in
  conn,         \* the replica's connections and their handlers
  current,      \* how many connections the replica has opened; the last one is in use
  rep,          \* the replica's store
  evicted,      \* history: keys the replica has evicted and not applied since
  replicaMode,  \* false once the replica has elected itself
  leader        \* the replica's leaderAddr: "master" or "self"

masterVars == <<mem, last, newest, set>>
repVars == <<rep, evicted, replicaMode, leader>>
vars == <<masterVars, conn, current, repVars>>

Idle == [id |-> 0]
Nothing == [k \in Keys |-> 0]

(* phase of a handler: "none" before the connection, "repl" once REPL has  *)
(* been read, "sent" with the snapshot sent, "streaming" while registered  *)
(* in s.replicas, "closed".  behind is a history of the keys whose newest  *)
(* SET is not the last one this session has put on its way: it came        *)
(* between the snapshot and the registration, or the channel was full, or  *)
(* an older SET came after it.                                             *)
NoConn == [phase |-> "none", open |-> FALSE, ch |-> <<>>, wire |-> <<>>,
           snap |-> Nothing, behind |-> {}]
Closed == [NoConn EXCEPT !.phase = "closed"]
-----------------------------------------------------------------------------
\* What evictIfNeeded leaves of a store: of one with a limit, any part of it
\* (module Store says which keys go, and when).
Evictions(node, store) ==
  {[k \in Keys |-> IF k \in gone THEN 0 ELSE store[k]] :
     gone \in IF node \in Limited THEN SUBSET {k \in Keys : store[k] # 0} ELSE {{}}}

Init ==
  /\ mem = Nothing
  /\ last = 0
  /\ newest = Nothing
  /\ set = [c \in Clients |-> Idle]
  /\ conn = [i \in Conns |-> NoConn]
  /\ current = 0
  /\ rep = Nothing
  /\ evicted = {}
  /\ replicaMode = TRUE
  /\ leader = "self"

\* SET at the master: store.Set.
SetApply(c, k) ==
  /\ set[c] = Idle
  /\ last < MaxSets
  /\ last' = last + 1
  /\ newest' = [newest EXCEPT ![k] = last + 1]
  /\ mem' \in Evictions("master", [mem EXCEPT ![k] = last + 1])
  /\ set' = [set EXCEPT ![c] = [key |-> k, id |-> last + 1]]
  /\ UNCHANGED <<conn, current, repVars>>

\* A newer SET of the key has been applied since this one.
Late(cmd) == cmd.id < newest[cmd.key]

\* What becomes of behind with a command that is sent on, and with one that
\* is not.
Sent(s, cmd) == IF Late(cmd) THEN s.behind \union {cmd.key} ELSE s.behind \ {cmd.key}
NotSent(s, cmd) ==
  IF s.phase \in {"sent", "streaming"} /\ cmd.id > s.snap[cmd.key] /\ ~Late(cmd)
  THEN s.behind \union {cmd.key} ELSE s.behind

\* The non-blocking send to one registered replica; a full channel drops the command.
Offer(s, cmd) ==
  IF s.phase = "streaming" /\ Len(s.ch) < ChanSize
  THEN [s EXCEPT !.ch = Append(@, [key |-> cmd.key, id |-> cmd.id, late |-> Late(cmd)]),
                 !.behind = IF s.open THEN Sent(s, cmd) ELSE @]
  ELSE [s EXCEPT !.behind = IF s.open THEN NotSent(s, cmd) ELSE @]

\* executeCommand's deferred broadcastToReplicas.
broadcastToReplicas(c) ==
  /\ set[c] # Idle
  /\ conn' = [i \in Conns |-> Offer(conn[i], set[c])]
  /\ set' = [set EXCEPT ![c] = Idle]
  /\ UNCHANGED <<mem, last, newest, current, repVars>>
-----------------------------------------------------------------------------
(* The master's handler of connection i *)

\* The snapshot, sent as SET commands.
sendSnapshot(i) ==
  LET present == {k \in Keys : mem[k] > 0}
  IN  /\ conn[i].phase = "repl"
      /\ conn[i].open
      /\ \E order \in [1..Cardinality(present) -> present] :
           /\ \A k \in present : \E j \in DOMAIN order : order[j] = k
           /\ conn' = [conn EXCEPT ![i].phase = "sent", ![i].snap = mem, ![i].behind = {},
                ![i].wire = [j \in DOMAIN order |-> 
                  [key |-> order[j], id |-> mem[order[j]], late |-> FALSE]]]
      /\ UNCHANGED <<masterVars, current, repVars>>

\* The connection broke before or during the snapshot.
sendFails(i) ==
  /\ conn[i].phase = "repl"
  /\ ~conn[i].open
  /\ conn' = [conn EXCEPT ![i] = Closed]
  /\ UNCHANGED <<masterVars, current, repVars>>

\* Registration in s.replicas comes after the snapshot.
register(i) ==
  /\ conn[i].phase = "sent"
  /\ conn' = [conn EXCEPT ![i].phase = "streaming"]
  /\ UNCHANGED <<masterVars, current, repVars>>

\* Mutant: the stream overtakes what has yet to arrive of the snapshot.
streamOvertakes(i) ==
  /\ conn[i].phase = "streaming"
  /\ conn[i].open
  /\ conn[i].ch # <<>>
  /\ conn' = [conn EXCEPT ![i].ch = Tail(@), ![i].wire = <<Head(conn[i].ch)>> \o @]
  /\ UNCHANGED <<masterVars, current, repVars>>

\* Mutant: commands are forwarded two at a time.
streamPairs(i) ==
  /\ conn[i].phase = "streaming"
  /\ conn[i].open
  /\ Len(conn[i].ch) > 1
  /\ conn' = [conn EXCEPT ![i].ch = Tail(@), ![i].wire = Append(@, Head(conn[i].ch))]
  /\ UNCHANGED <<masterVars, current, repVars>>

\* The goroutine that forwards the channel to the connection.
stream(i) ==
  /\ conn[i].phase = "streaming"
  /\ conn[i].open
  /\ conn[i].ch # <<>>
  /\ conn' = [conn EXCEPT ![i].ch = Tail(@), ![i].wire = Append(@, Head(conn[i].ch))]
  /\ UNCHANGED <<masterVars, current, repVars>>

\* Mutant: the handler waits for the channel to be drained.
unregisterDrained(i) ==
  /\ conn[i].phase = "streaming"
  /\ ~conn[i].open
  /\ conn[i].ch = <<>>
  /\ conn' = [conn EXCEPT ![i] = Closed]
  /\ UNCHANGED <<masterVars, current, repVars>>

\* conn.Read returns: the handler deletes its entry and closes the channel.
unregister(i) ==
  /\ conn[i].phase = "streaming"
  /\ ~conn[i].open
  /\ conn' = [conn EXCEPT ![i] = Closed]
  /\ UNCHANGED <<masterVars, current, repVars>>

Handler(i) == sendSnapshot(i) \/ sendFails(i) \/ register(i) \/ stream(i) \/ unregister(i)
-----------------------------------------------------------------------------
(* The replica *)

Connected == current > 0 /\ conn[current].open

\* Mutant: a second connection goes on without a snapshot.
startReplicaResumes ==
  /\ ~Connected
  /\ current < MaxConns
  /\ current' = current + 1
  /\ conn' = [conn EXCEPT ![current + 1].phase = IF current = 0 THEN "repl" ELSE "sent",
                           ![current + 1].open = TRUE]
  /\ leader' = "master"
  /\ UNCHANGED <<masterVars, rep, evicted, replicaMode>>

\* startReplicaClient dials, sends REPL and takes the master for the leader.
\* Whether a dial succeeds is the network's choice, here and below.
startReplicaClient ==
  /\ ~Connected
  /\ current < MaxConns
  /\ current' = current + 1
  /\ conn' = [conn EXCEPT ![current + 1].phase = "repl", ![current + 1].open = TRUE]
  /\ leader' = "master"
  /\ UNCHANGED <<masterVars, rep, evicted, replicaMode>>

\* executeCommand in replay mode.
apply ==
  /\ Connected
  /\ conn[current].wire # <<>>
  /\ LET cmd == Head(conn[current].wire)
     IN  /\ rep' \in Evictions("replica", [rep EXCEPT ![cmd.key] = cmd.id])
         /\ evicted' = {k \in Keys : rep'[k] = 0 /\ (rep[k] # 0 \/ k = cmd.key \/ k \in evicted)}
  /\ conn' = [conn EXCEPT ![current].wire = Tail(@)]
  /\ UNCHANGED <<masterVars, current, replicaMode, leader>>

\* The heartbeat cannot dial the master: the replica elects itself.
startLeaderHeartbeat ==
  /\ replicaMode
  /\ replicaMode' = FALSE
  /\ leader' = "self"
  /\ UNCHANGED <<masterVars, conn, current, rep, evicted>>

\* SET at the replica, refused while it is one.
SetReplica(k) ==
  /\ ~replicaMode
  /\ last < MaxSets
  /\ last' = last + 1
  /\ rep' \in Evictions("replica", [rep EXCEPT ![k] = last + 1])
  /\ UNCHANGED <<mem, newest, set, conn, current, evicted, replicaMode, leader>>
-----------------------------------------------------------------------------
\* The connection breaks and what was on its way is lost.
Disconnect ==
  /\ Connected
  /\ conn' = [conn EXCEPT ![current].open = FALSE, ![current].wire = <<>>,
                          ![current].snap = Nothing, ![current].behind = {}]
  /\ UNCHANGED <<masterVars, current, repVars>>

Next ==
  \/ \E c \in Clients : broadcastToReplicas(c) \/ \E k \in Keys : SetApply(c, k)
  \/ \E i \in Conns : Handler(i)
  \/ startReplicaClient
  \/ apply
  \/ startLeaderHeartbeat
  \/ \E k \in Keys : SetReplica(k)
  \/ Disconnect

Spec == Init /\ [][Next]_vars

\* Goroutines that can run do run, and TCP delivers while the connection lasts.
Fairness == (\A i \in Conns : WF_vars(Handler(i))) /\ WF_vars(apply)

FairSpec == Spec /\ Fairness
-----------------------------------------------------------------------------
\* Nothing is on its way between the two stores.
Settled ==
  /\ Connected
  /\ conn[current].phase = "streaming"
  /\ conn[current].ch = <<>>
  /\ conn[current].wire = <<>>
  /\ \A c \in Clients : set[c] = Idle

\* A settled replica has the master's value of every key that neither of the
\* two has evicted since it was set, except keys whose newest SET fell
\* between the snapshot and the registration, was dropped by a full channel,
\* or was overtaken in this session by an older one of another client; a
\* later SET of the key or a new session makes up for those, and the
\* handlers of broken connections do no harm.
OnlyMissedDiffer ==
  Settled /\ replicaMode =>
    \A k \in Keys \ conn[current].behind :
      mem[k] # 0 => IF k \in evicted THEN rep[k] = 0 ELSE rep[k] = mem[k]

\* The replica is about to apply a SET that was broadcast after a newer one
\* of its key had been applied at the master.
AppliesLate(k) ==
  /\ Connected
  /\ conn[current].wire # <<>>
  /\ LET cmd == Head(conn[current].wire) IN cmd.key = k /\ cmd.late

\* What a replica answers for a key goes back to an older value only when it
\* applies such a late SET, never from snapshot to stream and over any number
\* of connections otherwise; it may evict the key.
NeverBackwards ==
  [][replicaMode => \A k \in Keys : rep'[k] >= rep[k] \/ AppliesLate(k) \/ k \in evicted']_vars

\* Commands queued for a replica reach it, unless the connection breaks.
StreamDrains ==
  \A i \in Conns :
    conn[i].ch # <<>> ~> ~conn[i].open \/ (conn[i].ch = <<>> /\ conn[i].wire = <<>>)

\* A broken connection's entry leaves s.replicas in the end.
StaleUnregistered ==
  \A i \in Conns : conn[i].phase # "none" /\ ~conn[i].open ~> conn[i].phase = "closed"
=============================================================================
