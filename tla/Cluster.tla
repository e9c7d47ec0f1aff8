------------------------------- MODULE Cluster -------------------------------
(***************************************************************************)
(* Nodes with slot tables (pkg/server/cluster.go), the ownership check and *)
(* SET of executeCommand, MIGRATE (pkg/server/migrate.go) between them,    *)
(* and a replica of one of them.                                           *)
(*                                                                         *)
(* SETs of clients are numbered, and the number is the value; 0 is a       *)
(* missing key.  A SET is three steps of its handler, the store, the AOF   *)
(* and the deferred broadcast; handlers of other connections may come      *)
(* between them, but not those of an event loop, which has one at a time.  *)
(* The AOF is what its replay yields, the last value logged of each key:   *)
(* initAOF replays it before Start sets the table, so that every record    *)
(* passes the ownership check.  A store with a memory limit evicts on its  *)
(* own, without a word to the AOF or the replica.  Loss and delay on the   *)
(* replication stream, and self-election, are Replication's subject: here  *)
(* the stream is reliable, and a restart of either side ends with the      *)
(* replica's next full synchronisation, before the replica could miss its  *)
(* master.  Every node a MIGRATE names is one of Nodes.                    *)
(***************************************************************************)
EXTENDS Integers, Sequences

CONSTANTS
  Nodes, Keys,
  Master, Replica,  \* Replica, one of Nodes, is a replica of Master
  Slots,            \* number of slots
  SlotOf,           \* the slot of each key
  Setups,           \* [parts: each node's -cluster-slot-ranges, loops: nodes
                    \* run with -eventloop, limited: nodes with -maxmemory,
                    \* routes: the nodes and targets of the MIGRATEs, a bound]
  MaxSets, MaxMigrates, MaxRestarts  \* bounds on the SETs of clients, on
                    \* MIGRATEs and on restarts

ASSUME ClusterAssumption ==
  /\ {Master, Replica} \subseteq Nodes /\ Master # Replica
  /\ Slots \in Nat \ {0} /\ SlotOf \in [Keys -> 0..Slots - 1]
  /\ MaxSets \in Nat /\ MaxMigrates \in Nat /\ MaxRestarts \in Nat

Migrates == 1..MaxMigrates

VARIABLES
  owner, loops, limited, routes,  \* the setup, with where each table places each key
  sets, migrates, restarts,  \* how many there were
  data, aof,     \* each node's store and what its AOF replays to
  exec,          \* SETs that handlers have stored and not answered yet
  stream,        \* SETs on their way from Master to Replica
  call,          \* the MIGRATEs, in the order in which they began
  late,          \* SETs of MIGRATEs that were given up, still on their way
  last,          \* history: the last SET of each key that a node has stored
  newest,        \* history: the newest one that a node has logged
  spoiled,       \* keys that have met one of the cases NewestKept names
  astray         \* keys that have met one of the cases ReplicaDiffers names
                 \* since the last synchronisation

setup == <<owner, loops, limited, routes>>
history == <<last, newest, spoiled, astray>>
counts == <<sets, migrates, restarts>>
vars == <<setup, counts, data, aof, exec, stream, call, late, history>>
-----------------------------------------------------------------------------
(* The slot table *)

\* A part of the flag is [start, end, addr, ok]: numbers that cannot be read
\* are 0, and ok says whether it has its separators and an address.
badPart(p) == ~p.ok \/ p.start > p.end

\* The first range that holds the slot, or the first of all.
Lookup(ranges, slot) ==
  LET hits == {i \in DOMAIN ranges : ranges[i].start <= slot /\ slot <= ranges[i].end}
  IN  IF hits # {} THEN ranges[CHOOSE i \in hits : \A j \in hits : i <= j].addr
      ELSE ranges[1].addr

NewClusterState(n) == <<[start |-> 0, end |-> Slots - 1, addr |-> n, ok |-> TRUE]>>

\* A node's table: the flag's, if it is given and the event loop, which does
\* not set it, is not used.
RangesOf(s, n) ==
  IF s.parts[n] = <<>> \/ n \in s.loops THEN NewClusterState(n) ELSE s.parts[n]

\* Clients and MIGRATE call executeCommand under the address of the node.
Owns(n, k) == owner[n][k] = n
-----------------------------------------------------------------------------
(* SET *)

\* A replica, which is not the leader, looks its table up twice with the
\* same result.  The check for a replica comes after that.
answer(n, k) == IF ~Owns(n, k) THEN "moved" ELSE IF n = Replica THEN "readonly" ELSE "ok"

\* The first byte of the reply, which is chosen by the text of the answer.
typed == [ok |-> "+", moved |-> "$", readonly |-> "-"]

\* Mutant: every node waits.
FreeNever(n) ==
  /\ \A i \in Migrates : call[i].step # "idle" => call[i].node # n
  /\ \A h \in exec : h.node # n

\* An event loop executes one command at a time, and waits for the answer of
\* its own MIGRATE.
Free(n) ==
  n \in loops =>
    /\ \A i \in Migrates : call[i].step # "idle" => call[i].node # n
    /\ \A h \in exec : h.node # n

\* The keys that go when evictIfNeeded makes room for k.
Evictions(n, k) ==
  IF n \in limited THEN SUBSET {j \in Keys : j = k \/ data[n][j] # 0} ELSE {{}}

\* store.Set, for a client (from is 0) or for a MIGRATE (from is its number).
\* A value older than the last one spoils the key, and so does an eviction.
storeSet(n, k, v, from) ==
  \E gone \in Evictions(n, k) :
    /\ data' = [data EXCEPT ![n] =
         [j \in Keys |-> IF j \in gone THEN 0 ELSE IF j = k THEN v ELSE @[j]]]
    /\ exec' = exec \union {[node |-> n, key |-> k, val |-> v, from |-> from, logged |-> FALSE]}
    /\ spoiled' = spoiled \union gone \union (IF v < last[k] THEN {k} ELSE {})
    /\ astray' = IF n = Master THEN astray \union gone ELSE astray

SET(n, k) ==
  /\ Free(n) /\ sets < MaxSets
  /\ answer(n, k) = "ok"
  /\ sets' = sets + 1
  /\ last' = [last EXCEPT ![k] = sets + 1]
  /\ storeSet(n, k, sets + 1, 0)
  /\ UNCHANGED <<setup, migrates, restarts, aof, stream, call, late, newest>>

\* aof.Write.  To log a value after a newer one spoils.
aofWrite(h) ==
  LET logged == aof[h.node][h.key]
  IN  /\ h \in exec /\ ~h.logged
      /\ aof' = [aof EXCEPT ![h.node][h.key] = h.val]
      /\ exec' = (exec \ {h}) \union {[h EXCEPT !.logged = TRUE]}
      /\ newest' = IF h.val > newest[h.key] THEN [newest EXCEPT ![h.key] = h.val] ELSE newest
      /\ spoiled' = IF logged > h.val THEN spoiled \union {h.key} ELSE spoiled
      /\ UNCHANGED <<setup, counts, data, stream, call, late, last, astray>>

\* The broadcast, to the replica of a master that is no event loop, and the
\* answer.
broadcast(h) ==
  /\ h \in exec /\ h.logged
  /\ exec' = exec \ {h}
  /\ IF h.node = Master /\ Master \notin loops
     THEN /\ stream' = Append(stream, [key |-> h.key, id |-> h.val])
          /\ astray' = IF data[Master][h.key] = h.val THEN astray \ {h.key}
                                                       ELSE astray \union {h.key}
     ELSE UNCHANGED <<stream, astray>>
  /\ call' = [i \in Migrates |-> IF i = h.from /\ call[i].step = "served"
                                 THEN [call[i] EXCEPT !.step = "answered"] ELSE call[i]]
  /\ UNCHANGED <<setup, counts, data, aof, late, last, newest, spoiled>>

\* Mutant: the replica executes what it is sent like a client's command.
applyReadonly ==
  /\ stream # <<>>
  /\ stream' = Tail(stream)
  /\ UNCHANGED <<setup, counts, data, aof, exec, call, late, history>>

\* The replica's client, a goroutine of its own, executes what it is sent as
\* a replay: a key whose slot its table gives to another node is dropped.
apply ==
  /\ stream # <<>>
  /\ LET cmd == Head(stream)
     IN  IF Owns(Replica, cmd.key)
         THEN \E gone \in Evictions(Replica, cmd.key) :
                /\ data' = [data EXCEPT ![Replica] = [j \in Keys |->
                     IF j \in gone THEN 0 ELSE IF j = cmd.key THEN cmd.id ELSE @[j]]]
                /\ astray' = astray \union gone
         ELSE UNCHANGED <<data, astray>>
  /\ stream' = Tail(stream)
  /\ UNCHANGED <<setup, counts, aof, exec, call, late, last, newest, spoiled>>
-----------------------------------------------------------------------------
(* MIGRATE, of which every connection of a node may run one *)

Idle == [step |-> "idle"]

\* store.Get; a missing key ends the command, and so does a failing dial.
migrateGet(n, k, target) ==
  /\ Free(n) /\ migrates < MaxMigrates /\ <<n, target>> \in routes
  /\ Owns(n, k) /\ data[n][k] # 0
  /\ migrates' = migrates + 1
  /\ call' = [call EXCEPT ![migrates + 1] =
       [step |-> "got", num |-> migrates + 1, node |-> n, key |-> k, target |-> target,
        val |-> data[n][k], reply |-> "ok"]]
  /\ UNCHANGED <<setup, sets, restarts, data, aof, exec, stream, late, history>>

migrateSend(i) ==
  /\ call[i].step = "got"
  /\ call' = [call EXCEPT ![i] = Idle] \/ call' = [call EXCEPT ![i].step = "sent"]
  /\ UNCHANGED <<setup, counts, data, aof, exec, stream, late, history>>

\* The target executes the SET.
serveCall(i) ==
  LET c == call[i]
  IN  /\ c.step = "sent"
      /\ Free(c.target)
      /\ IF answer(c.target, c.key) = "ok"
         THEN /\ storeSet(c.target, c.key, c.val, i)
              /\ call' = [call EXCEPT ![i].step = "served"]
         ELSE /\ call' = [call EXCEPT ![i].step = "answered", ![i].reply = answer(c.target, c.key)]
              /\ UNCHANGED <<data, exec, spoiled, astray>>
      /\ UNCHANGED <<setup, counts, aof, stream, late, last, newest>>

serveLate(m) ==
  /\ m \in late
  /\ Free(m.target)
  /\ late' = late \ {m}
  /\ IF answer(m.target, m.key) = "ok" THEN storeSet(m.target, m.key, m.val, m.num)
     ELSE UNCHANGED <<data, exec, spoiled, astray>>
  /\ UNCHANGED <<setup, counts, aof, stream, call, last, newest>>

\* The connection breaks, before or after the target has begun with the SET.
Break(i) ==
  /\ call[i].step \in {"sent", "served", "answered"}
  /\ call' = [call EXCEPT ![i] = Idle]
  /\ late' \in IF call[i].step = "sent" THEN {late, late \union {call[i]}} ELSE {late}
  /\ UNCHANGED <<setup, counts, data, aof, exec, stream, history>>

\* Mutant: whatever the answer, the key is deleted.
succeededAlways(reply) == TRUE

\* The answer is taken for a success unless it is an error.
succeeded(reply) == typed[reply] # "-"

\* store.Delete, which is neither logged nor broadcast.  The newest value
\* may be lost if the target has not stored it, is the node itself, or if a
\* SET has come since store.Get or another MIGRATE of the key is going on.
migrateDelete(i) ==
  LET c == call[i]
      crossed == \E j \in Migrates \ {i} : call[j] # Idle /\ call[j].key = c.key
  IN  /\ c.step = "answered"
      /\ call' = [call EXCEPT ![i] = Idle]
      /\ IF succeeded(c.reply)
         THEN /\ data' = [data EXCEPT ![c.node][c.key] = 0]
              /\ astray' = IF c.node \in {Master, Replica} THEN astray \union {c.key} ELSE astray
              /\ spoiled' =
                   IF c.reply = "moved" \/ c.target = c.node \/ crossed \/ data[c.node][c.key] # c.val
                   THEN spoiled \union {c.key} ELSE spoiled
         ELSE UNCHANGED <<data, astray, spoiled>>
      /\ UNCHANGED <<setup, counts, aof, exec, stream, late, last, newest>>
-----------------------------------------------------------------------------
\* A full synchronisation: the master sends a SET for each of its keys, and
\* nothing for the others.
Synchronised(stores) ==
  [stores EXCEPT ![Replica] = [k \in Keys |->
     IF stores[Master][k] # 0 /\ Owns(Replica, k) THEN stores[Master][k] ELSE @[k]]]

\* A node stops and starts again, with what its AOF holds.  Callers of it
\* see their connection break; what it had sent may still arrive.
Restart(n) ==
  LET restored == [data EXCEPT ![n] = aof[n]]
      sync == n \in {Master, Replica} /\ Master \notin loops
      breaks(c) == c.step # "idle" /\ (c.node = n \/ (c.target = n /\ c.step \in {"sent", "served"}))
      onTheWay == {c \in {call[i] : i \in Migrates} : c.step = "sent" /\ c.node = n}
  IN  /\ restarts < MaxRestarts /\ restarts' = restarts + 1
      /\ call' = [i \in Migrates |-> IF breaks(call[i]) THEN Idle ELSE call[i]]
      /\ \E arriving \in SUBSET onTheWay : late' = {m \in late \union arriving : m.target # n}
      /\ exec' = {h \in exec : h.node # n}
      /\ data' = IF sync THEN Synchronised(restored) ELSE restored
      /\ stream' = IF sync THEN <<>> ELSE stream
      /\ astray' = IF sync THEN {k \in Keys : data'[Master][k] = 0 /\ data'[Replica][k] # 0}
                   ELSE astray
      /\ UNCHANGED <<setup, sets, migrates, aof, last, newest, spoiled>>

Init ==
  /\ \E s \in Setups :
       /\ ~ \E n \in Nodes : \E i \in DOMAIN s.parts[n] : badPart(s.parts[n][i])
       /\ owner = [n \in Nodes |-> [k \in Keys |-> Lookup(RangesOf(s, n), SlotOf[k])]]
       /\ loops = s.loops /\ limited = s.limited /\ routes = s.routes
  /\ sets = 0 /\ migrates = 0 /\ restarts = 0
  /\ data = [n \in Nodes |-> [k \in Keys |-> 0]]
  /\ aof = data
  /\ exec = {}
  /\ stream = <<>>
  /\ call = [i \in Migrates |-> Idle]
  /\ late = {}
  /\ last = [k \in Keys |-> 0]
  /\ newest = last
  /\ spoiled = {}
  /\ astray = {}

\* The rest of a SET's handler.
Finish(h) == aofWrite(h) \/ broadcast(h)

Next ==
  \/ \E n \in Nodes : \/ \E k \in Keys : SET(n, k)
                      \/ \E k \in Keys, target \in Nodes : migrateGet(n, k, target)
                      \/ Restart(n)
  \/ \E i \in Migrates : migrateSend(i) \/ serveCall(i) \/ Break(i) \/ migrateDelete(i)
  \/ \E h \in exec : Finish(h)
  \/ apply
  \/ \E m \in late : serveLate(m)

Spec == Init /\ [][Next]_vars

\* Goroutines keep running.  An event loop handles every connection that is
\* ready in each of its rounds, so that a call cannot wait for ever while
\* its target is free again and again.
FairSpec ==
  /\ Spec
  /\ \A i \in Migrates : /\ WF_vars(migrateSend(i)) /\ WF_vars(migrateDelete(i))
                         /\ SF_vars(serveCall(i))
                         /\ WF_vars(\E h \in exec : h.from = i /\ Finish(h))
  /\ \A n \in Nodes : WF_vars(n \in loops /\ \E h \in exec : h.node = n /\ Finish(h))
-----------------------------------------------------------------------------
\* The newest value of a key that was logged, which it is before the client
\* is told OK, or a newer one, is on some node, whatever MIGRATEs, broken
\* connections and restarts there were, unless one of these cases has
\* occurred: a MOVED taken for success, a MIGRATE to the node itself, a SET
\* or another MIGRATE of the key during it, a MIGRATE of an older value, an
\* eviction, or two SETs that a node logged in another order than it stored
\* them.
NewestKept ==
  \A k \in Keys : newest[k] # 0 /\ k \notin spoiled => \E n \in Nodes : data[n][k] >= newest[k]

\* A replica that has applied its stream holds the master's values when no
\* SET is in progress there, except of keys whose slots its own table gives
\* away, of those MIGRATE deleted or one of the two evicted, of those whose
\* last SET to be broadcast was not the master's value any more, and of
\* those the master did not have at the last synchronisation.
ReplicaDiffers ==
  stream = <<>> /\ (\A h \in exec : h.node # Master) /\ Master \notin loops =>
    \A k \in Keys : \/ data[Replica][k] = data[Master][k]
                    \/ ~Owns(Replica, k)
                    \/ k \in astray

\* Nodes in event loops that wait for each other's answers, or their own.
Deadlocked ==
  UNION {D \in SUBSET loops : \A n \in D : \E i \in Migrates :
           call[i].step = "sent" /\ call[i].node = n /\ call[i].target \in D}

\* A MIGRATE ends, although migrateKey sets no deadline for the answer,
\* unless it waits for event loops that wait for each other.
MigrationEnds ==
  \A i \in Migrates : call[i] # Idle ~>
    call[i] = Idle \/ (call[i].step = "sent" /\ call[i].target \in Deadlocked)
=============================================================================
