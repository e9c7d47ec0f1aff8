----------------------------- MODULE ClusterProofs -----------------------------
(***************************************************************************)
(* Proofs about Cluster for any nodes, keys and setups and any number of   *)
(* SETs, MIGRATEs and restarts.                                            *)
(*                                                                         *)
(* A value that a node holds in its store and in its AOF survives the      *)
(* node's restart, and what would take it away spoils the key.  A SET that *)
(* is not logged yet has its value in the store, or a MIGRATE has taken it *)
(* to a node that has logged it; and a MIGRATE that is about to delete it  *)
(* has copied it to such a node.  What is on the stream leads the replica  *)
(* to the master's value, unless the handler that will send that value has *)
(* not come to it.                                                         *)
(***************************************************************************)
EXTENDS Cluster, SequenceProofs

Cmd == [key : Keys, id : Nat]
Handler == [node : Nodes \ {Replica}, key : Keys, val : Nat, from : Nat, logged : BOOLEAN]
Steps == {"got", "sent", "served", "answered"}
Request == [step : Steps, num : Nat, node : Nodes, key : Keys, target : Nodes, val : Nat,
            reply : {"ok", "moved", "readonly"}]

TypeOK ==
  /\ sets \in Nat /\ migrates \in Nat
  /\ data \in [Nodes -> [Keys -> Nat]]
  /\ aof \in [Nodes -> [Keys -> Nat]]
  /\ last \in [Keys -> Nat]
  /\ newest \in [Keys -> Nat]
  /\ exec \subseteq Handler
  /\ stream \in Seq(Cmd)
  /\ call \in [Migrates -> {Idle} \union Request]
  /\ late \subseteq Request

\* Every value of a key is at most the last that was stored.
Bounded ==
  /\ \A k \in Keys : last[k] <= sets
  /\ \A n \in Nodes, k \in Keys : data[n][k] <= last[k] /\ aof[n][k] <= last[k]
  /\ \A h \in exec : h.val <= last[h.key]
  /\ \A j \in 1..Len(stream) : stream[j].id <= last[stream[j].key]
  /\ \A i \in Migrates : call[i] # Idle => call[i].val <= last[call[i].key]
  /\ \A m \in late : m.val <= last[m.key]

\* A MIGRATE is over when its SET is late, and has sent it when a handler
\* executes it.
Numbers ==
  /\ \A i \in Migrates : call[i] # Idle => call[i].num = i /\ i <= migrates
  /\ \A m \in late : m.num \in Migrates /\ m.num <= migrates /\ call[m.num] = Idle
  /\ \A h \in exec : /\ h.from <= migrates
                     /\ \A i \in Migrates : h.from = i => call[i].step \notin {"got", "sent"}

\* The node will have x, or a newer value, after a restart too.
Kept(m, k, x) == data[m][k] >= x /\ aof[m][k] >= x

Masters == Nodes \ {Replica}

Held == \A k \in Keys \ spoiled : \E m \in Masters : Kept(m, k, newest[k])

\* What a handler is about to log.
Pending(h) ==
  ~h.logged /\ h.key \notin spoiled =>
    data[h.node][h.key] >= h.val \/ \E m \in Masters : Kept(m, h.key, h.val)

\* The handler of a MIGRATE's SET.
Serving(h, i) ==
  h.from = i /\ call[i].step = "served" =>
    /\ h.node = call[i].target /\ h.key = call[i].key /\ h.val = call[i].val
    /\ h.key \notin spoiled =>
         data[h.node][h.key] >= h.val /\ (h.logged => aof[h.node][h.key] >= h.val)

\* The target has what the node is about to delete.
Copied(i) ==
  call[i].step = "answered" /\ call[i].reply = "ok" /\ call[i].key \notin spoiled =>
    call[i].target \in Masters /\ Kept(call[i].target, call[i].key, call[i].val)

\* The stream leads the replica to what the master has, or a handler is
\* about to.
ToSend(k) == \E h \in exec : h.node = Master /\ h.key = k /\ h.val = data[Master][k]
InStep ==
  Master \notin loops =>
    \A k \in Keys : Owns(Replica, k) /\ k \notin astray =>
      ToSend(k) \/ Ends(stream, k, data[Replica][k], data[Master][k])

IInv ==
  /\ TypeOK
  /\ Bounded
  /\ Numbers
  /\ Held
  /\ \A h \in exec : Pending(h)
  /\ \A h \in exec, i \in Migrates : Serving(h, i)
  /\ \A i \in Migrates : Copied(i)
  /\ InStep
-----------------------------------------------------------------------------
(* Parts of steps *)

LEMMA IdleFacts == Idle.step = "idle" /\ Idle \notin Request
BY DEF Idle, Request, Steps

LEMMA CallFacts ==
  ASSUME TypeOK, NEW i \in Migrates, call[i].step # "idle"
  PROVE  /\ call[i] # Idle /\ call[i] \in Request
         /\ call[i].step \in Steps /\ call[i].num \in Nat /\ call[i].node \in Nodes
         /\ call[i].key \in Keys /\ call[i].target \in Nodes /\ call[i].val \in Nat
         /\ call[i].reply \in {"ok", "moved", "readonly"}
<1>1. call[i] # Idle /\ call[i] \in Request
  BY IdleFacts DEF TypeOK
<1> QED BY <1>1 DEF Request

LEMMA HandlerFacts ==
  ASSUME TypeOK, NEW h \in exec
  PROVE  /\ h.node \in Masters /\ h.node \in Nodes /\ h.key \in Keys /\ h.val \in Nat
         /\ h.from \in Nat /\ h.logged \in BOOLEAN
BY DEF TypeOK, Handler, Masters

LEMMA MasterFacts ==
  /\ Master \in Nodes /\ Replica \in Nodes /\ Master # Replica
  /\ Master \in Masters /\ \A m \in Masters : m \in Nodes /\ m # Replica
BY ClusterAssumption DEF Masters

\* What a node keeps it keeps on keeping while stores and AOFs only rise.
LEMMA Rises ==
  ASSUME TypeOK, TypeOK', NEW k \in Keys, NEW m \in Nodes, NEW x \in Nat,
         data'[m][k] >= data[m][k], aof'[m][k] >= aof[m][k], Kept(m, k, x)
  PROVE  Kept(m, k, x)'
<1>1. /\ data[m][k] \in Nat /\ aof[m][k] \in Nat /\ data'[m][k] \in Nat /\ aof'[m][k] \in Nat
      /\ data[m][k] >= x /\ aof[m][k] >= x
  BY DEF TypeOK, Kept
<1>2. data'[m][k] >= x /\ aof'[m][k] >= x
  BY <1>1
<1> QED BY <1>2 DEF Kept

\* A step that changes nothing but the calls, and none of them to one that is
\* being served or answered.
LEMMA CallStep ==
  ASSUME IInv,
         UNCHANGED <<owner, loops, sets, data, aof, exec, stream, last, newest, spoiled, astray>>,
         migrates' \in Nat, migrates <= migrates',
         call' \in [Migrates -> {Idle} \union Request], late' \subseteq Request,
         \A i \in Migrates : \/ call'[i] = call[i]
                             \/ call'[i] = Idle
                             \/ /\ call'[i].step \in {"got", "sent"}
                                /\ call'[i].num = i /\ i <= migrates'
                                /\ call'[i].val <= last[call'[i].key]
                                /\ \A h \in exec : h.from # i,
         \A m \in late' : /\ m.val <= last[m.key]
                          /\ m.num \in Migrates /\ m.num <= migrates' /\ call'[m.num] = Idle
  PROVE  IInv'
<1>0. migrates \in Nat /\ \A a \in Nat : a <= migrates => a <= migrates'
  BY DEF IInv, TypeOK
<1>1. TypeOK'
  BY DEF IInv, TypeOK
<1>2. Bounded'
  BY DEF IInv, Bounded
<1>3. Numbers'
  <2>1. ASSUME NEW i \in Migrates, call'[i] # Idle PROVE call'[i].num = i /\ i <= migrates'
    <3>1. i \in Nat
      BY ClusterAssumption DEF Migrates
    <3> QED BY <1>0, <2>1, <3>1 DEF IInv, Numbers
  <2>2. ASSUME NEW h \in exec
        PROVE  /\ h.from <= migrates'
               /\ \A i \in Migrates : h.from = i => call'[i].step \notin {"got", "sent"}
    <3>1. h.from \in Nat /\ h.from <= migrates
      BY HandlerFacts DEF IInv, Numbers
    <3>2. ASSUME NEW i \in Migrates, h.from = i PROVE call'[i].step \notin {"got", "sent"}
      <4>1. call'[i] = call[i] \/ call'[i] = Idle
        BY <3>2
      <4> QED BY <3>2, <4>1, IdleFacts DEF IInv, Numbers
    <3> QED BY <1>0, <3>1, <3>2
  <2> QED BY <2>1, <2>2 DEF Numbers
<1>4. Held' /\ (\A h \in exec' : Pending(h)') /\ InStep'
  <2>1. Held'
    BY DEF IInv, Held, Kept
  <2>2. \A h \in exec' : Pending(h)'
    BY DEF IInv, Pending, Kept
  <2>3. InStep'
    BY DEF IInv, InStep, ToSend, Owns
  <2> QED BY <2>1, <2>2, <2>3
<1>5. ASSUME NEW h \in exec', NEW i \in Migrates PROVE Serving(h, i)'
  BY IdleFacts DEF IInv, Serving
<1>6. ASSUME NEW i \in Migrates PROVE Copied(i)'
  BY IdleFacts DEF IInv, Copied, Kept
<1> QED BY <1>1, <1>2, <1>3, <1>4, <1>5, <1>6 DEF IInv

\* A store.Set at a master.
LEMMA StoreFacts ==
  ASSUME IInv, NEW n \in Masters, NEW k \in Keys, NEW v \in Nat, NEW f \in Nat,
         storeSet(n, k, v, f),
         UNCHANGED <<owner, loops, stream>>,
         last' \in [Keys -> Nat], v <= last'[k], \A j \in Keys : last[j] <= last'[j]
  PROVE  /\ data' \in [Nodes -> [Keys -> Nat]]
         /\ \A m \in Nodes, j \in Keys : data'[m][j] <= last'[j]
         /\ \A m \in Nodes, j \in Keys : j \notin spoiled' => data'[m][j] >= data[m][j]
         /\ spoiled \subseteq spoiled'
         /\ k \notin spoiled' => data'[n][k] = v
         /\ InStep'
<1> DEFINE h == [node |-> n, key |-> k, val |-> v, from |-> f, logged |-> FALSE]
<1>1. PICK gone \in Evictions(n, k) :
        /\ data' = [data EXCEPT ![n] =
             [j \in Keys |-> IF j \in gone THEN 0 ELSE IF j = k THEN v ELSE @[j]]]
        /\ exec' = exec \union {h}
        /\ spoiled' = spoiled \union gone \union (IF v < last[k] THEN {k} ELSE {})
        /\ astray' = IF n = Master THEN astray \union gone ELSE astray
  BY DEF storeSet
<1>2. h.node = n /\ h.key = k /\ h.val = v
  OBVIOUS
<1> HIDE DEF h
<1>3. /\ data \in [Nodes -> [Keys -> Nat]] /\ last \in [Keys -> Nat] /\ stream \in Seq(Cmd)
      /\ n \in Nodes /\ n # Replica
  BY MasterFacts DEF IInv, TypeOK
<1>4. /\ data' \in [Nodes -> [Keys -> Nat]]
      /\ \A m \in Nodes, j \in Keys : data'[m][j] =
           IF m # n THEN data[m][j] ELSE IF j \in gone THEN 0 ELSE IF j = k THEN v ELSE data[m][j]
  BY <1>1, <1>3
<1>5. \A m \in Nodes, j \in Keys : /\ data[m][j] \in Nat /\ last[j] \in Nat /\ last'[j] \in Nat
                                   /\ data[m][j] <= last[j] /\ last[j] <= last'[j]
  BY <1>3 DEF IInv, Bounded
<1>6. \A m \in Nodes, j \in Keys : data'[m][j] <= last'[j]
  <2>1. ASSUME NEW m \in Nodes, NEW j \in Keys PROVE data[m][j] <= last'[j] /\ 0 <= last'[j]
    BY <1>5
  <2> QED BY <1>4, <2>1
<1>7. ASSUME NEW m \in Nodes, NEW j \in Keys, j \notin spoiled'
      PROVE  data'[m][j] >= data[m][j]
  <2>1. j \notin gone /\ (j = k => v >= last[k])
    BY <1>1, <1>5, <1>7
  <2> QED BY <1>4, <1>5, <1>7, <2>1
<1>8. k \notin spoiled' => data'[n][k] = v
  BY <1>1, <1>3, <1>4
<1>9. InStep'
  <2> SUFFICES ASSUME Master \notin loops, NEW j \in Keys, Owns(Replica, j), j \notin astray'
               PROVE  ToSend(j)' \/ Ends(stream, j, data'[Replica][j], data'[Master][j])
    BY DEF InStep, Owns
  <2>1. data'[Replica][j] = data[Replica][j] /\ j \notin astray
    BY <1>1, <1>3, <1>4, MasterFacts
  <2>2. ToSend(j) \/ Ends(stream, j, data[Replica][j], data[Master][j])
    BY <2>1 DEF IInv, InStep
  <2>3. CASE n = Master /\ j = k
    <3>1. data'[Master][k] = v
      BY <1>1, <1>3, <1>4, <2>3
    <3>2. ToSend(j)'
      BY <1>1, <1>2, <2>3, <3>1 DEF ToSend
    <3> QED BY <3>2
  <2>4. CASE ~(n = Master /\ j = k)
    <3>1. data'[Master][j] = data[Master][j]
      BY <1>1, <1>4, <2>4, MasterFacts
    <3>2. ToSend(j) => ToSend(j)'
      BY <1>1, <3>1 DEF ToSend
    <3> QED BY <2>1, <2>2, <3>1, <3>2
  <2> QED BY <2>3, <2>4
<1> QED BY <1>1, <1>4, <1>6, <1>7, <1>8, <1>9

\* A SET's first step at a master, be it of a client or of a MIGRATE.
LEMMA StoreStep ==
  ASSUME IInv, NEW n \in Masters, NEW k \in Keys, NEW v \in Nat, NEW f \in Nat,
         storeSet(n, k, v, f),
         UNCHANGED <<owner, loops, migrates, aof, stream, newest>>,
         sets' \in Nat, \A j \in Keys : last'[j] <= sets',
         last' \in [Keys -> Nat], v <= last'[k], \A j \in Keys : last[j] <= last'[j],
         late' \subseteq late, f <= migrates,
         call' \in [Migrates -> {Idle} \union Request],
         \A i \in Migrates :
           \/ call'[i] = call[i] /\ (i = f => call[i] = Idle)
           \/ /\ i = f /\ call[i].step = "sent" /\ call'[i].step = "served"
              /\ call'[i].num = call[i].num /\ call'[i].target = n
              /\ call'[i].key = k /\ call[i].key = k /\ call'[i].val = v
  PROVE  IInv'
<1> DEFINE g == [node |-> n, key |-> k, val |-> v, from |-> f, logged |-> FALSE]
<1>1. /\ data' \in [Nodes -> [Keys -> Nat]]
      /\ \A m \in Nodes, j \in Keys : data'[m][j] <= last'[j]
      /\ \A m \in Nodes, j \in Keys : j \notin spoiled' => data'[m][j] >= data[m][j]
      /\ spoiled \subseteq spoiled'
      /\ k \notin spoiled' => data'[n][k] = v
      /\ InStep'
  BY StoreFacts
<1>2. exec' = exec \union {g}
  BY DEF storeSet
<1>3. n \in Nodes /\ n # Replica
  BY MasterFacts
<1>4. /\ g \in Handler /\ g.node = n /\ g.key = k /\ g.val = v /\ g.from = f /\ g.logged = FALSE
  BY <1>3 DEF Handler
<1> HIDE DEF g
<1>5. TypeOK'
  BY <1>1, <1>2, <1>4 DEF IInv, TypeOK
<1>0. \A m \in Nodes, j \in Keys : data[m][j] \in Nat /\ data'[m][j] \in Nat
  <2>1. data \in [Nodes -> [Keys -> Nat]] /\ data' \in [Nodes -> [Keys -> Nat]]
    BY <1>1 DEF IInv, TypeOK
  <2> QED BY <2>1
<1>6. ASSUME NEW x \in Nat, NEW j \in Keys, x <= last[j] PROVE x <= last'[j]
  <2>1. last[j] \in Nat /\ last'[j] \in Nat /\ last[j] <= last'[j]
    BY DEF IInv, TypeOK
  <2> QED BY <1>6, <2>1
<1>7. Bounded'
  <2>1. \A m \in Nodes, j \in Keys : aof[m][j] <= last'[j]
    BY <1>6 DEF IInv, TypeOK, Bounded
  <2>2. ASSUME NEW h \in exec' PROVE h.val <= last'[h.key]
    <3>1. CASE h = g
      BY <1>4, <3>1
    <3>2. CASE h \in exec
      BY <1>6, <3>2, HandlerFacts DEF IInv, Bounded
    <3> QED BY <1>2, <3>1, <3>2
  <2>3. ASSUME NEW j \in 1..Len(stream) PROVE stream[j].id <= last'[stream[j].key]
    <3>1. stream[j] \in Cmd
      BY DEF IInv, TypeOK
    <3>2. stream[j].id \in Nat /\ stream[j].key \in Keys
      BY <3>1 DEF Cmd
    <3> QED BY <1>6, <3>2 DEF IInv, Bounded
  <2>4. ASSUME NEW i \in Migrates, call'[i] # Idle PROVE call'[i].val <= last'[call'[i].key]
    <3>1. CASE call'[i] = call[i]
      <4>1. call[i].val \in Nat /\ call[i].key \in Keys
        BY <2>4, <3>1 DEF IInv, TypeOK, Request
      <4> QED BY <1>6, <2>4, <3>1, <4>1 DEF IInv, Bounded
    <3>2. CASE call'[i] # call[i]
      BY <3>2
    <3> QED BY <3>1, <3>2
  <2>5. ASSUME NEW m \in late' PROVE m.val <= last'[m.key]
    <3>1. m \in Request /\ m.val <= last[m.key]
      BY DEF IInv, TypeOK, Bounded
    <3> QED BY <1>6, <3>1 DEF Request
  <2> QED BY <1>1, <2>1, <2>2, <2>3, <2>4, <2>5 DEF Bounded
<1>8. Numbers'
  <2>1. ASSUME NEW i \in Migrates, call'[i] # Idle PROVE call'[i].num = i /\ i <= migrates
    <3>1. call[i] # Idle
      BY <2>1, IdleFacts
    <3> QED BY <3>1 DEF IInv, Numbers
  <2>2. ASSUME NEW m \in late'
        PROVE  m.num \in Migrates /\ m.num <= migrates /\ call'[m.num] = Idle
    <3>1. m.num \in Migrates /\ m.num <= migrates /\ call[m.num] = Idle
      BY DEF IInv, Numbers
    <3> QED BY <3>1, IdleFacts
  <2>3. ASSUME NEW h \in exec'
        PROVE  /\ h.from <= migrates
               /\ \A i \in Migrates : h.from = i => call'[i].step \notin {"got", "sent"}
    <3>1. CASE h = g
      BY <1>4, <3>1, IdleFacts
    <3>2. CASE h \in exec
      <4>1. /\ h.from <= migrates
            /\ \A i \in Migrates : h.from = i => call[i].step \notin {"got", "sent"}
        BY <3>2 DEF IInv, Numbers
      <4> QED BY <4>1
    <3> QED BY <1>2, <3>1, <3>2
  <2> QED BY <2>1, <2>2, <2>3 DEF Numbers
<1>9. ASSUME NEW j \in Keys, j \notin spoiled', NEW m \in Nodes, NEW x \in Nat, Kept(m, j, x)
      PROVE  Kept(m, j, x)'
  <2>1. data'[m][j] >= data[m][j]
    BY <1>1, <1>9
  <2>2. TypeOK /\ aof[m][j] \in Nat /\ aof'[m][j] = aof[m][j]
    BY DEF IInv, TypeOK
  <2> QED BY <1>5, <1>9, <2>1, <2>2, Rises
<1>10. Held'
  <2> SUFFICES ASSUME NEW j \in Keys, j \notin spoiled'
               PROVE  \E m \in Masters : Kept(m, j, newest[j])'
    BY DEF Held, Kept
  <2>1. newest[j] \in Nat /\ \E m \in Masters : Kept(m, j, newest[j])
    BY <1>1 DEF IInv, TypeOK, Held
  <2>2. PICK m \in Masters : Kept(m, j, newest[j])
    BY <2>1
  <2> QED BY <1>9, <2>1, <2>2, MasterFacts DEF Kept
<1>11. ASSUME NEW h \in exec' PROVE Pending(h)'
  <2> SUFFICES ASSUME ~h.logged, h.key \notin spoiled'
               PROVE  \/ data'[h.node][h.key] >= h.val
                      \/ \E m \in Masters : Kept(m, h.key, h.val)'
    BY DEF Pending
  <2>1. CASE h = g
    BY <1>1, <1>4, <2>1
  <2>2. CASE h \in exec
    <3>1. h.node \in Nodes /\ h.key \in Keys /\ h.val \in Nat
      BY <2>2, HandlerFacts DEF IInv
    <3>2. data[h.node][h.key] >= h.val \/ \E m \in Masters : Kept(m, h.key, h.val)
      BY <1>1, <2>2 DEF IInv, Pending
    <3>3. CASE data[h.node][h.key] >= h.val
      <4>1. data'[h.node][h.key] >= data[h.node][h.key]
        BY <1>1, <3>1
      <4>2. data[h.node][h.key] \in Nat /\ data'[h.node][h.key] \in Nat
        BY <1>0, <3>1
      <4> QED BY <3>1, <3>3, <4>1, <4>2
    <3>4. CASE \E m \in Masters : Kept(m, h.key, h.val)
      BY <1>9, <3>1, <3>4, MasterFacts
    <3> QED BY <3>2, <3>3, <3>4
  <2> QED BY <1>2, <2>1, <2>2
<1>12. ASSUME NEW h \in exec', NEW i \in Migrates PROVE Serving(h, i)'
  <2> SUFFICES ASSUME h.from = i, call'[i].step = "served"
               PROVE  /\ h.node = call'[i].target /\ h.key = call'[i].key /\ h.val = call'[i].val
                      /\ h.key \notin spoiled' =>
                           /\ data'[h.node][h.key] >= h.val
                           /\ h.logged => aof'[h.node][h.key] >= h.val
    BY DEF Serving
  <2>1. CASE h = g
    <3>1. i = f /\ call'[i] # Idle
      BY <1>4, <2>1, IdleFacts
    <3> QED BY <1>1, <1>4, <2>1, <3>1
  <2>2. CASE h \in exec
    <3>1. call'[i] = call[i]
      BY <2>2 DEF IInv, Numbers
    <3>2. /\ h.node = call[i].target /\ h.key = call[i].key /\ h.val = call[i].val
          /\ h.key \notin spoiled =>
               data[h.node][h.key] >= h.val /\ (h.logged => aof[h.node][h.key] >= h.val)
      BY <2>2, <3>1 DEF IInv, Serving
    <3>3. h.node \in Nodes /\ h.key \in Keys /\ h.val \in Nat
      BY <2>2, HandlerFacts DEF IInv
    <3>4. ASSUME h.key \notin spoiled' PROVE data'[h.node][h.key] >= h.val
      <4>1. data'[h.node][h.key] >= data[h.node][h.key]
        BY <1>1, <3>3, <3>4
      <4>2. data[h.node][h.key] \in Nat /\ data'[h.node][h.key] \in Nat
        BY <1>0, <3>3
      <4>3. data[h.node][h.key] >= h.val
        BY <1>1, <3>2, <3>4
      <4> QED BY <3>3, <4>1, <4>2, <4>3
    <3> QED BY <1>1, <3>1, <3>2, <3>4
  <2> QED BY <1>2, <2>1, <2>2
<1>13. ASSUME NEW i \in Migrates PROVE Copied(i)'
  <2> SUFFICES ASSUME call'[i].step = "answered", call'[i].reply = "ok", call'[i].key \notin spoiled'
               PROVE  call'[i].target \in Masters /\ Kept(call[i].target, call[i].key, call[i].val)'
                      /\ call'[i] = call[i]
    BY DEF Copied, Kept
  <2>1. call'[i] = call[i]
    OBVIOUS
  <2>2. /\ call[i].target \in Nodes /\ call[i].key \in Keys /\ call[i].val \in Nat
    BY <2>1, CallFacts DEF IInv
  <2>3. call[i].target \in Masters /\ Kept(call[i].target, call[i].key, call[i].val)
    BY <1>1, <2>1 DEF IInv, Copied
  <2> QED BY <1>9, <2>1, <2>2, <2>3
<1> QED BY <1>1, <1>5, <1>7, <1>8, <1>10, <1>11, <1>12, <1>13 DEF IInv

LEMMA SETStep ==
  ASSUME IInv, NEW n \in Nodes, NEW k \in Keys, SET(n, k)
  PROVE  IInv'
<1>1. /\ sets' = sets + 1 /\ last' = [last EXCEPT ![k] = sets + 1]
      /\ answer(n, k) = "ok" /\ storeSet(n, k, sets + 1, 0)
      /\ UNCHANGED <<owner, loops, migrates, aof, stream, newest, call, late>>
  BY DEF SET, setup
<1>2. n \in Masters
  BY <1>1 DEF answer, Masters
<1>3. sets \in Nat /\ migrates \in Nat /\ last \in [Keys -> Nat] /\ \A j \in Keys : last[j] <= sets
  BY DEF IInv, TypeOK, Bounded
<1> DEFINE v == sets + 1
<1>4. v \in Nat /\ \A x \in Nat : x <= sets => x <= v
  BY <1>3
<1>5. sets' = v /\ last' = [last EXCEPT ![k] = v] /\ storeSet(n, k, v, 0)
  BY <1>1
<1> HIDE DEF v
<1>6. /\ last' \in [Keys -> Nat] /\ v <= last'[k] /\ sets' \in Nat
      /\ \A j \in Keys : last[j] <= last'[j] /\ last'[j] <= sets'
  <2>1. \A j \in Keys : last'[j] = IF j = k THEN v ELSE last[j]
    BY <1>3, <1>5
  <2>2. \A j \in Keys : last[j] \in Nat /\ last[j] <= v
    BY <1>3, <1>4
  <2> QED BY <1>3, <1>4, <1>5, <2>1, <2>2
<1>7. call' \in [Migrates -> {Idle} \union Request] /\ late' \subseteq late
  BY <1>1 DEF IInv, TypeOK
<1>8. \A i \in Migrates : i # 0
  BY ClusterAssumption DEF Migrates
<1> QED BY <1>1, <1>2, <1>3, <1>4, <1>5, <1>6, <1>7, <1>8, StoreStep

LEMMA AofWriteStep ==
  ASSUME IInv, NEW h \in exec, aofWrite(h)
  PROVE  IInv'
<1> DEFINE g == [h EXCEPT !.logged = TRUE]
           n == h.node
           k == h.key
           v == h.val
<1>1. /\ ~h.logged /\ aof' = [aof EXCEPT ![n][k] = v]
      /\ exec' = (exec \ {h}) \union {g}
      /\ newest' = IF v > newest[k] THEN [newest EXCEPT ![k] = v] ELSE newest
      /\ spoiled' = IF aof[n][k] > v THEN spoiled \union {k} ELSE spoiled
      /\ UNCHANGED <<owner, loops, sets, migrates, data, stream, call, late, last, astray>>
  BY DEF aofWrite, setup, counts
<1>2. /\ h \in Handler /\ n \in Masters /\ n \in Nodes /\ k \in Keys /\ v \in Nat
      /\ h.logged \in BOOLEAN
  BY HandlerFacts DEF IInv, TypeOK
<1>3. /\ g \in Handler /\ g.node = n /\ g.key = k /\ g.val = v /\ g.from = h.from /\ g.logged = TRUE
  BY <1>2 DEF Handler
<1> HIDE DEF g, n, k, v
<1>4. /\ aof \in [Nodes -> [Keys -> Nat]] /\ newest \in [Keys -> Nat]
      /\ \A m \in Nodes, j \in Keys : data[m][j] \in Nat /\ aof[m][j] \in Nat
  BY DEF IInv, TypeOK
<1>5. /\ aof' \in [Nodes -> [Keys -> Nat]]
      /\ \A m \in Nodes, j \in Keys : aof'[m][j] = IF m = n /\ j = k THEN v ELSE aof[m][j]
  BY <1>1, <1>2, <1>4
<1>6. /\ newest' \in [Keys -> Nat]
      /\ \A j \in Keys : newest'[j] = newest[j] \/ (j = k /\ newest'[j] = v)
  BY <1>1, <1>2, <1>4
<1>7. TypeOK'
  BY <1>1, <1>3, <1>5, <1>6 DEF IInv, TypeOK
<1>8. Bounded'
  <2>1. v <= last[k]
    BY DEF IInv, Bounded, k, v
  <2>2. \A m \in Nodes, j \in Keys : aof'[m][j] <= last[j]
    BY <1>5, <2>1 DEF IInv, Bounded
  <2>3. \A f \in exec' : f.val <= last[f.key]
    BY <1>1, <1>3, <2>1 DEF IInv, Bounded
  <2> QED BY <1>1, <2>2, <2>3 DEF IInv, Bounded
<1>9. Numbers'
  <2>1. ASSUME NEW f \in exec'
        PROVE  /\ f.from <= migrates
               /\ \A i \in Migrates : f.from = i => call[i].step \notin {"got", "sent"}
    <3>1. \E e \in exec : f.from = e.from
      BY <1>1, <1>3
    <3> QED BY <3>1 DEF IInv, Numbers
  <2> QED BY <1>1, <2>1 DEF IInv, Numbers
<1>10. ASSUME NEW j \in Keys, j \notin spoiled', NEW m \in Nodes
       PROVE  /\ j \notin spoiled /\ aof'[m][j] >= aof[m][j]
              /\ \A x \in Nat : Kept(m, j, x) => Kept(m, j, x)'
  <2>1. j \notin spoiled /\ (j = k => ~(aof[n][k] > v))
    BY <1>1, <1>10
  <2>2. aof'[m][j] >= aof[m][j]
    BY <1>2, <1>4, <1>5, <2>1
  <2>3. data'[m][j] >= data[m][j] /\ TypeOK
    BY <1>1, <1>4 DEF IInv
  <2> QED BY <1>7, <2>1, <2>2, <2>3, Rises
<1>11. Held'
  <2> SUFFICES ASSUME NEW j \in Keys, j \notin spoiled'
               PROVE  \E m \in Masters : Kept(m, j, newest[j])'
    BY DEF Held
  <2>1. CASE newest'[j] = newest[j]
    <3>1. PICK m \in Masters : Kept(m, j, newest[j])
      BY <1>1 DEF IInv, Held
    <3>2. m \in Nodes /\ newest[j] \in Nat
      BY <1>4, MasterFacts
    <3>3. data'[m][j] >= newest[j] /\ aof'[m][j] >= newest[j]
      BY <1>10, <3>1, <3>2 DEF Kept
    <3> QED BY <2>1, <3>3 DEF Kept
  <2>2. CASE j = k /\ newest'[j] = v
    <3>1. data[n][k] >= v \/ \E m \in Masters : Kept(m, k, v)
      BY <1>1, <1>10, <2>2 DEF IInv, Pending, n, k, v
    <3>2. CASE data[n][k] >= v
      <4>1. data'[n][j] >= newest'[j] /\ aof'[n][j] >= newest'[j]
        BY <1>1, <1>2, <1>5, <2>2, <3>2
      <4> QED BY <1>2, <4>1 DEF Kept
    <3>3. CASE \E m \in Masters : Kept(m, k, v)
      <4>1. PICK m \in Masters : Kept(m, k, v)
        BY <3>3
      <4>2. data'[m][j] >= newest'[j] /\ aof'[m][j] >= newest'[j]
        BY <1>2, <1>10, <2>2, <4>1, MasterFacts DEF Kept
      <4> QED BY <4>2 DEF Kept
    <3> QED BY <3>1, <3>2, <3>3
  <2> QED BY <1>6, <2>1, <2>2
<1>12. ASSUME NEW f \in exec' PROVE Pending(f)'
  <2>1. CASE f = g
    BY <1>3, <2>1 DEF Pending
  <2>2. CASE f \in exec
    <3> SUFFICES ASSUME ~f.logged, f.key \notin spoiled'
                 PROVE  \/ data[f.node][f.key] >= f.val
                        \/ \E m \in Masters : Kept(m, f.key, f.val)'
      BY <1>1 DEF Pending
    <3>1. f.key \in Keys /\ f.val \in Nat
      BY <2>2, HandlerFacts DEF IInv
    <3>2. f.key \notin spoiled
      BY <1>1
    <3>3. data[f.node][f.key] >= f.val \/ \E m \in Masters : Kept(m, f.key, f.val)
      BY <2>2, <3>2 DEF IInv, Pending
    <3> QED BY <1>10, <3>1, <3>3, MasterFacts
  <2> QED BY <1>1, <2>1, <2>2
<1>13. ASSUME NEW f \in exec', NEW i \in Migrates PROVE Serving(f, i)'
  <2> SUFFICES ASSUME f.from = i, call[i].step = "served"
               PROVE  /\ f.node = call[i].target /\ f.key = call[i].key /\ f.val = call[i].val
                      /\ f.key \notin spoiled' =>
                           /\ data[f.node][f.key] >= f.val
                           /\ f.logged => aof'[f.node][f.key] >= f.val
    BY <1>1 DEF Serving
  <2>1. spoiled \subseteq spoiled'
    BY <1>1
  <2>2. CASE f = g
    <3>1. /\ h.node = call[i].target /\ h.key = call[i].key /\ h.val = call[i].val
          /\ h.key \notin spoiled => data[h.node][h.key] >= h.val
      BY <1>3, <2>2 DEF IInv, Serving
    <3>2. aof'[n][k] >= v
      BY <1>2, <1>5
    <3> QED BY <1>3, <2>1, <2>2, <3>1, <3>2 DEF n, k, v
  <2>3. CASE f \in exec
    <3>1. /\ f.node = call[i].target /\ f.key = call[i].key /\ f.val = call[i].val
          /\ f.key \notin spoiled =>
               data[f.node][f.key] >= f.val /\ (f.logged => aof[f.node][f.key] >= f.val)
      BY <2>3 DEF IInv, Serving
    <3>2. f.node \in Nodes /\ f.key \in Keys /\ f.val \in Nat
      BY <2>3, HandlerFacts DEF IInv
    <3>3. ASSUME f.key \notin spoiled', f.logged PROVE aof'[f.node][f.key] >= f.val
      <4>1. aof'[f.node][f.key] >= aof[f.node][f.key] /\ aof[f.node][f.key] >= f.val
        BY <1>10, <2>1, <3>1, <3>2, <3>3
      <4>2. aof[f.node][f.key] \in Nat /\ aof'[f.node][f.key] \in Nat
        BY <1>2, <1>4, <1>5, <3>2
      <4> QED BY <3>2, <4>1, <4>2
    <3> QED BY <2>1, <3>1, <3>3
  <2> QED BY <1>1, <2>2, <2>3
<1>14. ASSUME NEW i \in Migrates PROVE Copied(i)'
  <2> SUFFICES ASSUME call[i].step = "answered", call[i].reply = "ok", call[i].key \notin spoiled'
               PROVE  call[i].target \in Masters /\ Kept(call[i].target, call[i].key, call[i].val)'
    BY <1>1 DEF Copied, Kept
  <2>1. call[i].target \in Nodes /\ call[i].key \in Keys /\ call[i].val \in Nat
    BY CallFacts DEF IInv
  <2>2. call[i].target \in Masters /\ Kept(call[i].target, call[i].key, call[i].val)
    BY <1>10, <2>1 DEF IInv, Copied
  <2>3. \A t \in Nodes, j \in Keys, x \in Nat : j \notin spoiled' /\ Kept(t, j, x) =>
          data'[t][j] >= x /\ aof'[t][j] >= x
    BY <1>10 DEF Kept
  <2> QED BY <1>1, <2>1, <2>2, <2>3 DEF Kept
<1>15. InStep'
  <2>1. ASSUME NEW j \in Keys, ToSend(j) PROVE ToSend(j)'
    <3>1. PICK f \in exec : f.node = Master /\ f.key = j /\ f.val = data[Master][j]
      BY <2>1 DEF ToSend
    <3>2. \E e \in exec' : e.node = f.node /\ e.key = f.key /\ e.val = f.val
      BY <1>1, <1>3 DEF n, k, v
    <3> QED BY <1>1, <3>1, <3>2 DEF ToSend
  <2> QED BY <1>1, <2>1 DEF IInv, InStep, Owns
<1> QED BY <1>7, <1>8, <1>9, <1>11, <1>12, <1>13, <1>14, <1>15 DEF IInv

LEMMA BroadcastStep ==
  ASSUME IInv, NEW h \in exec, broadcast(h)
  PROVE  IInv'
<1> DEFINE cmd == [key |-> h.key, id |-> h.val]
<1>1. /\ h.logged /\ exec' = exec \ {h}
      /\ IF h.node = Master /\ Master \notin loops
         THEN /\ stream' = Append(stream, cmd)
              /\ astray' = IF data[Master][h.key] = h.val THEN astray \ {h.key}
                                                           ELSE astray \union {h.key}
         ELSE UNCHANGED <<stream, astray>>
      /\ call' = [i \in Migrates |-> IF i = h.from /\ call[i].step = "served"
                                     THEN [call[i] EXCEPT !.step = "answered"] ELSE call[i]]
      /\ UNCHANGED <<owner, loops, sets, migrates, data, aof, late, last, newest, spoiled>>
  BY DEF broadcast, setup, counts
<1>2. h.node \in Masters /\ h.key \in Keys /\ h.val \in Nat /\ h.val <= last[h.key]
  BY HandlerFacts DEF IInv, Bounded
<1>3. cmd \in Cmd /\ cmd.key = h.key /\ cmd.id = h.val
  BY <1>2 DEF Cmd
<1> HIDE DEF cmd
<1>4. stream \in Seq(Cmd)
  BY DEF IInv, TypeOK
<1>5. stream' \in Seq(Cmd)
  BY <1>1, <1>3, <1>4
<1>6. ASSUME NEW i \in Migrates
      PROVE  \/ call'[i] = call[i]
             \/ /\ i = h.from /\ call[i].step = "served" /\ call'[i].step = "answered"
                /\ call[i] \in Request /\ call'[i] \in Request
                /\ call'[i].num = call[i].num /\ call'[i].key = call[i].key
                /\ call'[i].target = call[i].target /\ call'[i].val = call[i].val
                /\ call'[i].reply = call[i].reply
  <2>1. CASE i = h.from /\ call[i].step = "served"
    <3>1. call'[i] = [call[i] EXCEPT !.step = "answered"]
      BY <1>1, <2>1
    <3>2. call[i] \in Request
      BY <2>1, CallFacts DEF IInv
    <3> QED BY <2>1, <3>1, <3>2 DEF Request, Steps
  <2>2. CASE ~(i = h.from /\ call[i].step = "served")
    BY <1>1, <2>2
  <2> QED BY <2>1, <2>2
<1>7. call' \in [Migrates -> {Idle} \union Request]
  <2>1. \A i \in Migrates : call'[i] \in {Idle} \union Request
    BY <1>6 DEF IInv, TypeOK
  <2>2. call' = [i \in Migrates |-> call'[i]]
    BY <1>1
  <2> QED BY <2>1, <2>2
<1>8. TypeOK'
  BY <1>1, <1>5, <1>7 DEF IInv, TypeOK
<1>9. Bounded'
  <2>1. ASSUME NEW j \in 1..Len(stream') PROVE stream'[j].id <= last[stream'[j].key]
    <3>1. CASE stream' = stream
      BY <3>1 DEF IInv, Bounded
    <3>2. CASE stream' = Append(stream, cmd)
      <4>1. (j \in 1..Len(stream) /\ stream'[j] = stream[j]) \/ stream'[j] = cmd
        BY <1>3, <1>4, <3>2
      <4> QED BY <1>2, <1>3, <4>1 DEF IInv, Bounded
    <3> QED BY <1>1, <3>1, <3>2
  <2>2. ASSUME NEW i \in Migrates, call'[i] # Idle PROVE call'[i].val <= last[call'[i].key]
    <3>1. call[i] # Idle
      BY <1>6, <2>2, IdleFacts
    <3> QED BY <1>6, <3>1 DEF IInv, Bounded
  <2> QED BY <1>1, <2>1, <2>2 DEF IInv, Bounded
<1>10. Numbers'
  <2>1. ASSUME NEW i \in Migrates, call'[i] # Idle PROVE call'[i].num = i /\ i <= migrates
    <3>1. call[i] # Idle
      BY <1>6, <2>1, IdleFacts
    <3> QED BY <1>6, <3>1 DEF IInv, Numbers
  <2>2. ASSUME NEW m \in late PROVE m.num \in Migrates /\ m.num <= migrates /\ call'[m.num] = Idle
    BY <1>6, IdleFacts DEF IInv, Numbers
  <2>3. ASSUME NEW f \in exec', NEW i \in Migrates, f.from = i
        PROVE  call'[i].step \notin {"got", "sent"}
    BY <1>1, <1>6, <2>3 DEF IInv, Numbers
  <2> QED BY <1>1, <2>1, <2>2, <2>3 DEF IInv, Numbers
<1>11. Held'
  BY <1>1 DEF IInv, Held, Kept
<1>12. \A f \in exec' : Pending(f)'
  BY <1>1 DEF IInv, Pending, Kept
<1>13. ASSUME NEW f \in exec', NEW i \in Migrates PROVE Serving(f, i)'
  BY <1>1, <1>6 DEF IInv, Serving
<1>14. ASSUME NEW i \in Migrates PROVE Copied(i)'
  <2>1. CASE call'[i] = call[i]
    BY <1>1, <2>1 DEF IInv, Copied, Kept
  <2>2. CASE call'[i] # call[i]
    <3>1. /\ i = h.from /\ call[i].step = "served"
          /\ call'[i].key = call[i].key /\ call'[i].target = call[i].target
          /\ call'[i].val = call[i].val
      BY <1>6, <2>2
    <3>2. /\ h.node = call[i].target /\ h.key = call[i].key /\ h.val = call[i].val
          /\ h.key \notin spoiled =>
               data[h.node][h.key] >= h.val /\ (h.logged => aof[h.node][h.key] >= h.val)
      BY <3>1 DEF IInv, Serving
    <3>3. /\ call'[i].target \in Masters
          /\ call'[i].key \notin spoiled =>
               /\ data[call'[i].target][call'[i].key] >= call'[i].val
               /\ aof[call'[i].target][call'[i].key] >= call'[i].val
      BY <1>1, <1>2, <3>1, <3>2
    <3> QED BY <1>1, <3>3 DEF Copied, Kept
  <2> QED BY <2>1, <2>2
<1>15. InStep'
  <2> SUFFICES ASSUME Master \notin loops, NEW j \in Keys, Owns(Replica, j), j \notin astray'
               PROVE  ToSend(j)' \/ Ends(stream', j, data[Replica][j], data[Master][j])
    BY <1>1 DEF InStep, Owns
  <2>1. CASE h.node = Master /\ h.key = j
    <3>1. data[Master][j] = h.val /\ stream' = Append(stream, cmd)
      BY <1>1, <2>1
    <3> QED BY <1>3, <1>4, <2>1, <3>1, EndsAppend
  <2>2. CASE ~(h.node = Master /\ h.key = j)
    <3>1. j \notin astray
      BY <1>1, <2>2
    <3>2. ToSend(j) \/ Ends(stream, j, data[Replica][j], data[Master][j])
      BY <3>1 DEF IInv, InStep
    <3>3. ToSend(j) => ToSend(j)'
      BY <1>1, <2>2 DEF ToSend
    <3>4. ASSUME Ends(stream, j, data[Replica][j], data[Master][j])
          PROVE  Ends(stream', j, data[Replica][j], data[Master][j])
      <4>1. CASE stream' = stream
        BY <3>4, <4>1
      <4>2. CASE stream' # stream
        <5>1. stream' = Append(stream, cmd) /\ cmd.key # j
          BY <1>1, <1>3, <2>2, <4>2
        <5> QED BY <1>3, <1>4, <3>4, <5>1, EndsAppend
      <4> QED BY <4>1, <4>2
    <3> QED BY <3>2, <3>3, <3>4
  <2> QED BY <2>1, <2>2
<1> QED BY <1>8, <1>9, <1>10, <1>11, <1>12, <1>13, <1>14, <1>15 DEF IInv

LEMMA ApplyStep ==
  ASSUME IInv, apply
  PROVE  IInv'
<1> DEFINE c == Head(stream)
<1>1. /\ stream # <<>> /\ stream' = Tail(stream)
      /\ UNCHANGED <<owner, loops, sets, migrates, aof, exec, call, late, last, newest, spoiled>>
  BY DEF apply, setup, counts
<1>2. /\ data \in [Nodes -> [Keys -> Nat]] /\ stream \in Seq(Cmd)
      /\ Master \in Nodes /\ Replica \in Nodes /\ Master # Replica
  BY MasterFacts DEF IInv, TypeOK
<1>3. /\ c \in Cmd /\ 1 \in 1..Len(stream) /\ c = stream[1]
      /\ Tail(stream) \in Seq(Cmd)
      /\ \A j \in 1..Len(Tail(stream)) : j + 1 \in 1..Len(stream) /\ Tail(stream)[j] = stream[j + 1]
  BY <1>1, <1>2
<1>4. \/ ~Owns(Replica, c.key) /\ UNCHANGED <<data, astray>>
      \/ Owns(Replica, c.key) /\ \E gone \in Evictions(Replica, c.key) :
           /\ data' = [data EXCEPT ![Replica] = [j \in Keys |->
                IF j \in gone THEN 0 ELSE IF j = c.key THEN c.id ELSE @[j]]]
           /\ astray' = astray \union gone
  BY DEF apply
<1>5. c.key \in Keys /\ c.id \in Nat /\ c.id <= last[c.key]
  BY <1>3 DEF Cmd, IInv, Bounded
<1> HIDE DEF c
<1>6. /\ data' \in [Nodes -> [Keys -> Nat]] /\ astray \subseteq astray'
      /\ \A m \in Masters, j \in Keys : data'[m][j] = data[m][j]
      /\ \A j \in Keys : \/ data'[Replica][j] \in {0, data[Replica][j]}
                         \/ j = c.key /\ data'[Replica][j] = c.id
      /\ \A j \in Keys : Owns(Replica, j) /\ j \notin astray' =>
           data'[Replica][j] = IF j = c.key THEN c.id ELSE data[Replica][j]
  <2>1. CASE ~Owns(Replica, c.key) /\ UNCHANGED <<data, astray>>
    BY <1>2, <2>1
  <2>2. CASE Owns(Replica, c.key) /\ \E gone \in Evictions(Replica, c.key) :
           /\ data' = [data EXCEPT ![Replica] = [j \in Keys |->
                IF j \in gone THEN 0 ELSE IF j = c.key THEN c.id ELSE @[j]]]
           /\ astray' = astray \union gone
    <3>1. PICK gone \in Evictions(Replica, c.key) :
            /\ data' = [data EXCEPT ![Replica] = [j \in Keys |->
                 IF j \in gone THEN 0 ELSE IF j = c.key THEN c.id ELSE @[j]]]
            /\ astray' = astray \union gone
      BY <2>2
    <3>2. /\ data' \in [Nodes -> [Keys -> Nat]]
          /\ \A m \in Nodes, j \in Keys : data'[m][j] =
               IF m # Replica THEN data[m][j]
               ELSE IF j \in gone THEN 0 ELSE IF j = c.key THEN c.id ELSE data[m][j]
      BY <1>2, <1>5, <3>1
    <3>3. \A m \in Masters : m \in Nodes /\ m # Replica
      BY MasterFacts
    <3> QED BY <1>2, <3>1, <3>2, <3>3
  <2> QED BY <1>4, <2>1, <2>2
<1>7. TypeOK'
  BY <1>1, <1>3, <1>6 DEF IInv, TypeOK
<1>8. Bounded'
  <2>1. \A m \in Nodes, j \in Keys : /\ data[m][j] \in Nat /\ data[m][j] <= last[j]
                                     /\ last[j] \in Nat /\ 0 <= last[j]
    BY DEF IInv, TypeOK, Bounded
  <2>2. \A j \in Keys : data'[Replica][j] <= last[j]
    BY <1>2, <1>5, <1>6, <2>1
  <2>3. \A m \in Masters, j \in Keys : data'[m][j] <= last[j]
    BY <1>6, <2>1, MasterFacts
  <2>4. \A m \in Nodes, j \in Keys : data'[m][j] <= last[j]
    BY <2>2, <2>3 DEF Masters
  <2>5. \A j \in 1..Len(stream') : stream'[j].id <= last[stream'[j].key]
    BY <1>1, <1>3 DEF IInv, Bounded
  <2> QED BY <1>1, <2>4, <2>5 DEF IInv, Bounded
<1>9. Numbers'
  BY <1>1 DEF IInv, Numbers
<1>10. \A m \in Masters, j \in Keys, x \in Nat : Kept(m, j, x)' <=> Kept(m, j, x)
  BY <1>1, <1>6 DEF Kept
<1>11. Held'
  <2>1. \A j \in Keys : newest[j] \in Nat
    BY DEF IInv, TypeOK
  <2> QED BY <1>1, <1>6, <2>1 DEF IInv, Held, Kept
<1>12. ASSUME NEW h \in exec' PROVE Pending(h)'
  <2>1. h \in exec /\ h.node \in Masters /\ h.key \in Keys /\ h.val \in Nat
    BY <1>1, HandlerFacts DEF IInv
  <2>2. data'[h.node][h.key] = data[h.node][h.key]
    BY <1>6, <2>1
  <2> QED BY <1>1, <1>10, <2>1, <2>2 DEF IInv, Pending
<1>13. ASSUME NEW h \in exec', NEW i \in Migrates PROVE Serving(h, i)'
  <2>1. h \in exec /\ h.node \in Masters /\ h.key \in Keys /\ h.val \in Nat
    BY <1>1, HandlerFacts DEF IInv
  <2>2. data'[h.node][h.key] = data[h.node][h.key]
    BY <1>6, <2>1
  <2> QED BY <1>1, <2>1, <2>2 DEF IInv, Serving
<1>14. ASSUME NEW i \in Migrates PROVE Copied(i)'
  <2> SUFFICES ASSUME call[i].step = "answered", call[i].reply = "ok", call[i].key \notin spoiled
               PROVE  call[i].target \in Masters /\ Kept(call[i].target, call[i].key, call[i].val)'
    BY <1>1 DEF Copied, Kept
  <2>1. call[i].key \in Keys /\ call[i].val \in Nat
    BY CallFacts DEF IInv
  <2>2. call[i].target \in Masters /\ Kept(call[i].target, call[i].key, call[i].val)
    BY DEF IInv, Copied
  <2> QED BY <1>1, <1>6, <2>1, <2>2 DEF Kept
<1>15. InStep'
  <2> SUFFICES ASSUME Master \notin loops, NEW j \in Keys, Owns(Replica, j), j \notin astray'
               PROVE  ToSend(j)' \/ Ends(stream', j, data'[Replica][j], data'[Master][j])
    BY <1>1 DEF InStep, Owns
  <2>1. j \notin astray
    BY <1>6
  <2>2. /\ data'[Master][j] = data[Master][j]
        /\ data'[Replica][j] = IF c.key = j THEN c.id ELSE data[Replica][j]
    BY <1>6, <2>1, MasterFacts
  <2>3. ToSend(j) \/ Ends(stream, j, data[Replica][j], data[Master][j])
    BY <2>1 DEF IInv, InStep
  <2>4. ToSend(j) => ToSend(j)'
    BY <1>1, <2>2 DEF ToSend
  <2>5. ASSUME Ends(stream, j, data[Replica][j], data[Master][j])
        PROVE  Ends(stream', j, data'[Replica][j], data'[Master][j])
    <3>1. Ends(Tail(stream), j, IF c.key = j THEN c.id ELSE data[Replica][j], data[Master][j])
      BY <1>1, <1>2, <2>5, EndsTail DEF c
    <3> QED BY <1>1, <2>2, <3>1
  <2> QED BY <2>3, <2>4, <2>5
<1> QED BY <1>7, <1>8, <1>9, <1>11, <1>12, <1>13, <1>14, <1>15 DEF IInv

LEMMA MigrateGetStep ==
  ASSUME IInv, NEW n \in Nodes, NEW k \in Keys, NEW t \in Nodes, migrateGet(n, k, t)
  PROVE  IInv'
<1> DEFINE i == migrates + 1
           c == [step |-> "got", num |-> i, node |-> n, key |-> k, target |-> t,
                 val |-> data[n][k], reply |-> "ok"]
<1>1. /\ migrates < MaxMigrates /\ migrates' = i /\ call' = [call EXCEPT ![i] = c]
      /\ UNCHANGED <<owner, loops, sets, data, aof, exec, stream, late, last, newest, spoiled, astray>>
  BY DEF migrateGet, setup, history
<1>2. /\ migrates \in Nat /\ data[n][k] \in Nat /\ data[n][k] <= last[k]
      /\ call \in [Migrates -> {Idle} \union Request] /\ MaxMigrates \in Nat
  BY ClusterAssumption DEF IInv, TypeOK, Bounded
<1>3. i \in Migrates /\ i \in Nat /\ migrates <= i /\ i <= i
  BY <1>1, <1>2 DEF Migrates
<1>4. ASSUME NEW x \in Nat, x <= migrates PROVE x # i /\ x <= i
  BY <1>2, <1>4
<1> HIDE DEF i
<1>5. c \in Request /\ c.step = "got" /\ c.num = i /\ c.val <= last[c.key]
  BY <1>2, <1>3 DEF Request, Steps
<1> HIDE DEF c
<1>6. /\ call' \in [Migrates -> {Idle} \union Request]
      /\ \A j \in Migrates : call'[j] = IF j = i THEN c ELSE call[j]
  BY <1>1, <1>2, <1>5
<1>7. \A h \in exec : h.from # i
  BY <1>4, HandlerFacts DEF IInv, Numbers
<1>8. ASSUME NEW m \in late'
      PROVE  /\ m.val <= last[m.key]
             /\ m.num \in Migrates /\ m.num <= migrates' /\ call'[m.num] = Idle
  <2>1. /\ m \in Request /\ m.val <= last[m.key]
        /\ m.num \in Migrates /\ m.num <= migrates /\ call[m.num] = Idle
    BY <1>1 DEF IInv, TypeOK, Bounded, Numbers
  <2>2. m.num \in Nat
    BY <2>1 DEF Request
  <2> QED BY <1>1, <1>4, <1>6, <2>1, <2>2
<1>9. late' \subseteq Request
  BY <1>1 DEF IInv, TypeOK
<1> QED BY <1>1, <1>3, <1>5, <1>6, <1>7, <1>8, <1>9, CallStep

LEMMA MigrateSendStep ==
  ASSUME IInv, NEW i \in Migrates, migrateSend(i)
  PROVE  IInv'
<1> DEFINE c == [call[i] EXCEPT !.step = "sent"]
<1>1. /\ call[i].step = "got"
      /\ call' = [call EXCEPT ![i] = Idle] \/ call' = [call EXCEPT ![i] = c]
      /\ UNCHANGED <<owner, loops, sets, data, aof, exec, stream, last, newest, spoiled, astray>>
      /\ UNCHANGED <<migrates, late>>
  BY DEF migrateSend, setup, counts, history
<1>2. call[i] \in Request /\ call[i] # Idle
  BY <1>1, CallFacts DEF IInv
<1>3. call[i].num = i /\ i <= migrates /\ call[i].val <= last[call[i].key]
  BY <1>2 DEF IInv, Numbers, Bounded
<1>4. c \in Request /\ c.step = "sent" /\ c.num = i /\ c.val <= last[c.key]
  BY <1>2, <1>3 DEF Request, Steps
<1> HIDE DEF c
<1>5. /\ call' \in [Migrates -> {Idle} \union Request]
      /\ \A j \in Migrates : call'[j] = call[j] \/ call'[j] = Idle \/ (j = i /\ call'[j] = c)
      /\ \A j \in Migrates : j # i => call'[j] = call[j]
  BY <1>1, <1>4 DEF IInv, TypeOK
<1>6. \A h \in exec : h.from # i
  BY <1>1 DEF IInv, Numbers
<1>7. ASSUME NEW m \in late'
      PROVE  /\ m.val <= last[m.key]
             /\ m.num \in Migrates /\ m.num <= migrates' /\ call'[m.num] = Idle
  BY <1>1, <1>2, <1>5 DEF IInv, Bounded, Numbers
<1>8. late' \subseteq Request /\ migrates' \in Nat /\ migrates <= migrates'
  BY <1>1 DEF IInv, TypeOK
<1> QED BY <1>1, <1>3, <1>4, <1>5, <1>6, <1>7, <1>8, CallStep

LEMMA BreakStep ==
  ASSUME IInv, NEW i \in Migrates, Break(i)
  PROVE  IInv'
<1>1. /\ call[i].step \in {"sent", "served", "answered"} /\ call' = [call EXCEPT ![i] = Idle]
      /\ late' \subseteq late \union {call[i]}
      /\ UNCHANGED <<owner, loops, sets, data, aof, exec, stream, last, newest, spoiled, astray>>
      /\ UNCHANGED migrates
  BY DEF Break, setup, counts, history
<1>2. call[i] \in Request /\ call[i] # Idle
  BY <1>1, CallFacts DEF IInv
<1>3. call[i].num = i /\ i <= migrates /\ call[i].val <= last[call[i].key]
  BY <1>2 DEF IInv, Numbers, Bounded
<1>4. /\ call' \in [Migrates -> {Idle} \union Request]
      /\ \A j \in Migrates : call'[j] = IF j = i THEN Idle ELSE call[j]
  BY <1>1 DEF IInv, TypeOK
<1>5. ASSUME NEW m \in late'
      PROVE  /\ m.val <= last[m.key]
             /\ m.num \in Migrates /\ m.num <= migrates' /\ call'[m.num] = Idle
  <2>1. CASE m \in late
    BY <1>1, <1>4, <2>1 DEF IInv, Bounded, Numbers
  <2>2. CASE m = call[i]
    BY <1>1, <1>3, <1>4, <2>2
  <2> QED BY <1>1, <2>1, <2>2
<1>6. late' \subseteq Request /\ migrates' \in Nat /\ migrates <= migrates'
  BY <1>1, <1>2 DEF IInv, TypeOK
<1> QED BY <1>1, <1>4, <1>5, <1>6, CallStep

LEMMA ServeCallStep ==
  ASSUME IInv, NEW i \in Migrates, serveCall(i)
  PROVE  IInv'
<1> DEFINE t == call[i].target
           k == call[i].key
           v == call[i].val
           r == answer(t, k)
           served == [call[i] EXCEPT !.step = "served"]
           refused == [call[i] EXCEPT !.step = "answered", !.reply = r]
<1>1. /\ call[i].step = "sent"
      /\ UNCHANGED <<owner, loops, sets, migrates, aof, stream, late, last, newest>>
      /\ IF r = "ok"
         THEN storeSet(t, k, v, i) /\ call' = [call EXCEPT ![i] = served]
         ELSE call' = [call EXCEPT ![i] = refused] /\ UNCHANGED <<data, exec, spoiled, astray>>
  BY DEF serveCall, setup, counts
<1>2. /\ call[i] \in Request /\ call[i] # Idle
      /\ t \in Nodes /\ k \in Keys /\ v \in Nat /\ r \in {"ok", "moved", "readonly"}
  BY <1>1, CallFacts DEF IInv, answer
<1>3. call[i].num = i /\ i <= migrates /\ v <= last[k]
  BY <1>2 DEF IInv, Numbers, Bounded
<1>4. /\ served \in Request /\ served.step = "served" /\ served.num = i
      /\ served.target = t /\ served.key = k /\ served.val = v
      /\ refused \in Request /\ refused.step = "answered" /\ refused.num = i /\ refused.reply = r
      /\ refused.key = k /\ refused.val = v
  BY <1>2, <1>3 DEF Request, Steps
<1>5. call \in [Migrates -> {Idle} \union Request] /\ i \in Nat /\ sets \in Nat /\ migrates \in Nat
  BY ClusterAssumption DEF IInv, TypeOK, Migrates
<1> HIDE DEF t, v, r, served, refused
<1>6. CASE r = "ok"
  <2>1. storeSet(t, k, v, i) /\ call' = [call EXCEPT ![i] = served]
    BY <1>1, <1>6
  <2>2. t \in Masters
    BY <1>2, <1>6 DEF answer, Masters, r
  <2>3. /\ call' \in [Migrates -> {Idle} \union Request]
        /\ \A j \in Migrates : call'[j] = IF j = i THEN served ELSE call[j]
    BY <1>4, <1>5, <2>1
  <2>4. /\ last' \in [Keys -> Nat] /\ v <= last'[k] /\ sets' \in Nat /\ late' \subseteq late
        /\ \A j \in Keys : last[j] <= last'[j] /\ last'[j] <= sets'
    BY <1>1, <1>3 DEF IInv, TypeOK, Bounded
  <2>5. \A j \in Migrates :
          \/ call'[j] = call[j] /\ (j = i => call[j] = Idle)
          \/ /\ j = i /\ call[j].step = "sent" /\ call'[j].step = "served"
             /\ call'[j].num = call[j].num /\ call'[j].target = t
             /\ call'[j].key = k /\ call[j].key = k /\ call'[j].val = v
    <3>1. call[i].key = k
      BY DEF k
    <3> QED BY <1>1, <1>3, <1>4, <2>3, <3>1
  <2> HIDE DEF k
  <2>6. UNCHANGED <<owner, loops, migrates, aof, stream, newest>>
    BY <1>1
  <2> QED BY <1>2, <1>3, <1>5, <2>1, <2>2, <2>3, <2>4, <2>5, <2>6, StoreStep
<1>7. CASE r # "ok"
  <2>1. call' = [call EXCEPT ![i] = refused] /\ UNCHANGED <<data, exec, spoiled, astray>>
    BY <1>1, <1>7
  <2>2. /\ call' \in [Migrates -> {Idle} \union Request]
        /\ \A j \in Migrates : call'[j] = IF j = i THEN refused ELSE call[j]
    BY <1>4, <1>5, <2>1
  <2>3. TypeOK'
    BY <1>1, <2>1, <2>2 DEF IInv, TypeOK
  <2>4. Bounded'
    BY <1>1, <1>3, <1>4, <2>1, <2>2 DEF IInv, Bounded
  <2>5. Numbers'
    <3>1. \A j \in Migrates : call'[j] # Idle => call'[j].num = j /\ j <= migrates
      BY <1>3, <1>4, <2>2 DEF IInv, Numbers
    <3>2. \A m \in late : m.num \in Migrates /\ m.num <= migrates /\ call'[m.num] = Idle
      BY <1>2, <2>2 DEF IInv, Numbers
    <3>3. \A h \in exec : /\ h.from <= migrates
                          /\ \A j \in Migrates : h.from = j => call'[j].step \notin {"got", "sent"}
      BY <1>4, <2>2 DEF IInv, Numbers
    <3> QED BY <1>1, <2>1, <3>1, <3>2, <3>3 DEF Numbers
  <2>6. Held' /\ InStep'
    <3>1. Held'
      BY <1>1, <2>1 DEF IInv, Held, Kept
    <3>2. InStep'
      BY <1>1, <2>1 DEF IInv, InStep, ToSend, Owns
    <3> QED BY <3>1, <3>2
  <2>7. \A h \in exec' : Pending(h)'
    BY <1>1, <2>1 DEF IInv, Pending, Kept
  <2>8. ASSUME NEW h \in exec', NEW j \in Migrates PROVE Serving(h, j)'
    BY <1>1, <1>4, <2>1, <2>2 DEF IInv, Serving
  <2>9. ASSUME NEW j \in Migrates PROVE Copied(j)'
    BY <1>1, <1>4, <1>7, <2>1, <2>2 DEF IInv, Copied, Kept
  <2> QED BY <2>3, <2>4, <2>5, <2>6, <2>7, <2>8, <2>9 DEF IInv
<1> QED BY <1>6, <1>7

LEMMA ServeLateStep ==
  ASSUME IInv, NEW m \in late, serveLate(m)
  PROVE  IInv'
<1>1. /\ late' = late \ {m}
      /\ UNCHANGED <<owner, loops, sets, migrates, aof, stream, call, last, newest>>
      /\ \/ answer(m.target, m.key) = "ok" /\ storeSet(m.target, m.key, m.val, m.num)
         \/ UNCHANGED <<data, exec, spoiled, astray>>
  BY DEF serveLate, setup, counts
<1>2. /\ m \in Request /\ m.val <= last[m.key]
      /\ m.num \in Migrates /\ m.num <= migrates /\ call[m.num] = Idle
  BY DEF IInv, TypeOK, Bounded, Numbers
<1>3. m.target \in Nodes /\ m.key \in Keys /\ m.val \in Nat /\ m.num \in Nat
  BY <1>2 DEF Request
<1>4. CASE answer(m.target, m.key) = "ok" /\ storeSet(m.target, m.key, m.val, m.num)
  <2>1. m.target \in Masters
    BY <1>3, <1>4 DEF answer, Masters
  <2>2. /\ last' \in [Keys -> Nat] /\ m.val <= last'[m.key] /\ sets' \in Nat /\ late' \subseteq late
        /\ \A j \in Keys : last[j] <= last'[j] /\ last'[j] <= sets'
    <3>1. \A j \in Keys : last[j] \in Nat /\ last[j] <= last[j] /\ last[j] <= sets
      BY DEF IInv, TypeOK, Bounded
    <3> QED BY <1>1, <1>2, <3>1 DEF IInv, TypeOK
  <2>3. /\ call' \in [Migrates -> {Idle} \union Request]
        /\ \A i \in Migrates : call'[i] = call[i] /\ (i = m.num => call[i] = Idle)
    BY <1>1, <1>2 DEF IInv, TypeOK
  <2> QED BY <1>1, <1>2, <1>3, <1>4, <2>1, <2>2, <2>3, StoreStep
<1>5. CASE UNCHANGED <<data, exec, spoiled, astray>>
  <2>1. /\ call' \in [Migrates -> {Idle} \union Request] /\ late' \subseteq Request
        /\ \A i \in Migrates : call'[i] = call[i]
        /\ migrates' \in Nat /\ migrates <= migrates'
    BY <1>1 DEF IInv, TypeOK
  <2>2. \A f \in late' : /\ f.val <= last[f.key]
                         /\ f.num \in Migrates /\ f.num <= migrates' /\ call'[f.num] = Idle
    BY <1>1 DEF IInv, Bounded, Numbers
  <2> QED BY <1>1, <1>5, <2>1, <2>2, CallStep
<1> QED BY <1>1, <1>4, <1>5

LEMMA MigrateDeleteStep ==
  ASSUME IInv, NEW i \in Migrates, migrateDelete(i)
  PROVE  IInv'
<1> DEFINE c == call[i]
           n == call[i].node
           k == call[i].key
           crossed == \E j \in Migrates \ {i} : call[j] # Idle /\ call[j].key = k
<1>1. /\ c.step = "answered" /\ call' = [call EXCEPT ![i] = Idle]
      /\ UNCHANGED <<owner, loops, sets, migrates, aof, exec, stream, late, last, newest>>
  BY DEF migrateDelete, setup, counts
<1>2. /\ c \in Request /\ n \in Nodes /\ k \in Keys /\ c.val \in Nat
      /\ c.reply \in {"ok", "moved", "readonly"}
  BY <1>1, CallFacts DEF IInv
<1>3. /\ call' \in [Migrates -> {Idle} \union Request]
      /\ \A j \in Migrates : call'[j] = IF j = i THEN Idle ELSE call[j]
  BY <1>1 DEF IInv, TypeOK
<1>4. /\ late' \subseteq Request /\ migrates' \in Nat /\ migrates <= migrates'
      /\ \A m \in late' : /\ m.val <= last[m.key]
                          /\ m.num \in Migrates /\ m.num <= migrates' /\ call'[m.num] = Idle
  BY <1>1, <1>3 DEF IInv, TypeOK, Bounded, Numbers
<1>5. CASE ~succeeded(c.reply)
  <2>1. UNCHANGED <<data, astray, spoiled>>
    BY <1>5 DEF migrateDelete
  <2> QED BY <1>1, <1>3, <1>4, <2>1, CallStep
<1>6. CASE succeeded(c.reply)
  <2>1. /\ data' = [data EXCEPT ![n][k] = 0]
        /\ astray' = IF n \in {Master, Replica} THEN astray \union {k} ELSE astray
        /\ spoiled' = IF c.reply = "moved" \/ c.target = n \/ crossed \/ data[n][k] # c.val
                      THEN spoiled \union {k} ELSE spoiled
    BY <1>6 DEF migrateDelete
  <2>2. c.reply # "readonly"
    BY <1>6 DEF succeeded, typed
  <2>3. /\ data' \in [Nodes -> [Keys -> Nat]]
        /\ \A m \in Nodes, j \in Keys : data'[m][j] = IF m = n /\ j = k THEN 0 ELSE data[m][j]
    BY <1>2, <2>1 DEF IInv, TypeOK
  <2>4. TypeOK'
    BY <1>1, <1>3, <2>3 DEF IInv, TypeOK
  <2>5. Bounded'
    <3>1. \A m \in Nodes, j \in Keys : /\ data[m][j] \in Nat /\ data[m][j] <= last[j]
                                       /\ last[j] \in Nat /\ 0 <= last[j]
      BY DEF IInv, TypeOK, Bounded
    <3>2. \A m \in Nodes, j \in Keys : data'[m][j] <= last[j]
      BY <2>3, <3>1
    <3> QED BY <1>1, <1>3, <3>2 DEF IInv, Bounded
  <2>6. Numbers'
    BY <1>1, <1>3, IdleFacts DEF IInv, Numbers
  <2>7. ASSUME NEW j \in Keys, j \notin spoiled'
        PROVE  j \notin spoiled /\ (j = k => /\ c.reply = "ok" /\ c.target # n /\ ~crossed
                                             /\ data[n][k] = c.val)
    BY <1>2, <2>1, <2>2, <2>7
  <2> HIDE DEF crossed
  <2>8. k \notin spoiled' => c.target \in Masters /\ Kept(c.target, k, c.val) /\ c.target # n
    BY <1>1, <1>2, <2>7 DEF IInv, Copied
  \* What was kept at the node is kept at the target.
  <2>9. ASSUME NEW j \in Keys, j \notin spoiled', NEW x \in Nat,
               \E m \in Masters : Kept(m, j, x)
        PROVE  \E m \in Masters : data'[m][j] >= x /\ aof[m][j] >= x
    <3>1. PICK m \in Masters : Kept(m, j, x)
      BY <2>9
    <3>2. CASE m # n \/ j # k
      BY <2>3, <3>1, <3>2, MasterFacts DEF Kept
    <3>3. CASE m = n /\ j = k
      <4>1. /\ c.target \in Masters /\ c.target # n /\ c.target \in Nodes /\ data[n][k] = c.val
            /\ data[c.target][k] >= c.val /\ aof[c.target][k] >= c.val
        BY <2>7, <2>8, <2>9, <3>3, MasterFacts DEF Kept
      <4>2. c.val >= x
        BY <3>1, <3>3, <4>1 DEF Kept
      <4>3. data[c.target][k] \in Nat /\ aof[c.target][k] \in Nat
        BY <1>2, <4>1 DEF IInv, TypeOK
      <4>4. data[c.target][k] >= x /\ aof[c.target][k] >= x
        BY <1>2, <4>1, <4>2, <4>3
      <4> QED BY <1>2, <2>3, <3>3, <4>1, <4>4
    <3> QED BY <3>2, <3>3
  <2>10. Held'
    <3> SUFFICES ASSUME NEW j \in Keys, j \notin spoiled'
                 PROVE  \E m \in Masters : data'[m][j] >= newest[j] /\ aof[m][j] >= newest[j]
      BY <1>1 DEF Held, Kept
    <3>1. newest[j] \in Nat /\ \E m \in Masters : Kept(m, j, newest[j])
      BY <2>7 DEF IInv, TypeOK, Held
    <3> QED BY <2>9, <3>1
  <2>11. ASSUME NEW h \in exec' PROVE Pending(h)'
    <3> SUFFICES ASSUME ~h.logged, h.key \notin spoiled'
                 PROVE  \/ data'[h.node][h.key] >= h.val
                        \/ \E m \in Masters : data'[m][h.key] >= h.val /\ aof[m][h.key] >= h.val
      BY <1>1 DEF Pending, Kept
    <3>1. h \in exec /\ h.node \in Nodes /\ h.key \in Keys /\ h.val \in Nat
      BY <1>1, HandlerFacts DEF IInv
    <3>2. data[h.node][h.key] >= h.val \/ \E m \in Masters : Kept(m, h.key, h.val)
      BY <2>7, <3>1 DEF IInv, Pending
    <3>3. CASE \E m \in Masters : Kept(m, h.key, h.val)
      BY <2>9, <3>1, <3>3
    <3>4. CASE data[h.node][h.key] >= h.val /\ ~(h.node = n /\ h.key = k)
      BY <2>3, <3>1, <3>4
    <3>5. CASE data[h.node][h.key] >= h.val /\ h.node = n /\ h.key = k
      <4>1. /\ c.target \in Masters /\ c.target # n /\ c.target \in Nodes /\ data[n][k] = c.val
            /\ data[c.target][k] >= c.val /\ aof[c.target][k] >= c.val
        BY <1>2, <2>7, <2>8, <3>5, MasterFacts DEF Kept
      <4>2. data[c.target][k] \in Nat /\ aof[c.target][k] \in Nat
        BY <1>2, <4>1 DEF IInv, TypeOK
      <4>3. data[c.target][k] >= h.val /\ aof[c.target][k] >= h.val
        BY <1>2, <3>1, <3>5, <4>1, <4>2
      <4> QED BY <1>2, <2>3, <3>5, <4>1, <4>3
    <3> QED BY <3>2, <3>3, <3>4, <3>5
  <2>12. ASSUME NEW j \in Migrates, j # i, call[j] # Idle, call[j].key \in Keys,
                call[j].key \notin spoiled'
         PROVE  call[j].key # k /\ call[j].key \notin spoiled
    BY <2>7, <2>12 DEF crossed
  <2>13. ASSUME NEW h \in exec', NEW j \in Migrates PROVE Serving(h, j)'
    <3> SUFFICES ASSUME h.from = j, call'[j].step = "served"
                 PROVE  /\ h.node = call'[j].target /\ h.key = call'[j].key /\ h.val = call'[j].val
                        /\ h.key \notin spoiled' =>
                             /\ data'[h.node][h.key] >= h.val
                             /\ h.logged => aof[h.node][h.key] >= h.val
      BY <1>1 DEF Serving
    <3>1. j # i /\ call'[j] = call[j] /\ call[j] # Idle
      BY <1>3, IdleFacts
    <3>2. h \in exec /\ h.node \in Nodes /\ h.key \in Keys
      BY <1>1, HandlerFacts DEF IInv
    <3>3. /\ h.node = call[j].target /\ h.key = call[j].key /\ h.val = call[j].val
          /\ h.key \notin spoiled =>
               data[h.node][h.key] >= h.val /\ (h.logged => aof[h.node][h.key] >= h.val)
      BY <3>1, <3>2 DEF IInv, Serving
    <3> QED BY <2>3, <2>12, <3>1, <3>2, <3>3
  <2>14. ASSUME NEW j \in Migrates PROVE Copied(j)'
    <3> SUFFICES ASSUME call'[j].step = "answered", call'[j].reply = "ok", call'[j].key \notin spoiled'
                 PROVE  /\ call'[j].target \in Masters
                        /\ data'[call'[j].target][call'[j].key] >= call'[j].val
                        /\ aof[call'[j].target][call'[j].key] >= call'[j].val
      BY <1>1 DEF Copied, Kept
    <3>1. j # i /\ call'[j] = call[j] /\ call[j] # Idle
      BY <1>3, IdleFacts
    <3>2. call[j].key \in Keys /\ call[j].target \in Nodes
      BY <3>1, CallFacts, IdleFacts DEF IInv
    <3>3. call[j].key # k /\ call[j].key \notin spoiled
      BY <2>12, <3>1, <3>2
    <3> QED BY <2>3, <3>1, <3>2, <3>3 DEF IInv, Copied, Kept
  <2>15. InStep'
    <3> SUFFICES ASSUME Master \notin loops, NEW j \in Keys, Owns(Replica, j), j \notin astray'
                 PROVE  ToSend(j)' \/ Ends(stream, j, data'[Replica][j], data'[Master][j])
      BY <1>1 DEF InStep, Owns
    <3>1. j \notin astray /\ (n \in {Master, Replica} => j # k)
      BY <2>1
    <3>2. data'[Replica][j] = data[Replica][j] /\ data'[Master][j] = data[Master][j]
      BY <2>3, <3>1, MasterFacts
    <3>3. ToSend(j) \/ Ends(stream, j, data[Replica][j], data[Master][j])
      BY <3>1 DEF IInv, InStep
    <3> QED BY <1>1, <3>2, <3>3 DEF ToSend
  <2> QED BY <2>4, <2>5, <2>6, <2>10, <2>11, <2>13, <2>14, <2>15 DEF IInv
<1> QED BY <1>5, <1>6

\* What a restart, with the synchronisation it may cause, does to the stores.
LEMMA RestartFacts ==
  ASSUME IInv, NEW n \in Nodes, Restart(n)
  PROVE  /\ data' \in [Nodes -> [Keys -> Nat]]
         /\ \A m \in Masters, k \in Keys :
              data'[m][k] = IF m = n THEN aof[n][k] ELSE data[m][k]
         /\ \A m \in Nodes, k \in Keys : data'[m][k] <= last[k]
         /\ IF n \in {Master, Replica} /\ Master \notin loops
            THEN \A k \in Keys : Owns(Replica, k) /\ k \notin astray' =>
                   data'[Replica][k] = data'[Master][k]
            ELSE n # Replica => \A k \in Keys : data'[Replica][k] = data[Replica][k]
<1> DEFINE r == [data EXCEPT ![n] = aof[n]]
           s == [k \in Keys |-> IF r[Master][k] # 0 /\ Owns(Replica, k) THEN r[Master][k]
                                ELSE r[Replica][k]]
           sync == n \in {Master, Replica} /\ Master \notin loops
<1>1. /\ data \in [Nodes -> [Keys -> Nat]] /\ aof \in [Nodes -> [Keys -> Nat]]
      /\ Master \in Nodes /\ Replica \in Nodes /\ Master # Replica
      /\ \A m \in Nodes, k \in Keys : data[m][k] <= last[k] /\ aof[m][k] <= last[k]
  BY MasterFacts DEF IInv, TypeOK, Bounded
<1>2. /\ r \in [Nodes -> [Keys -> Nat]]
      /\ \A m \in Nodes, k \in Keys : r[m][k] = IF m = n THEN aof[n][k] ELSE data[m][k]
  BY <1>1
<1>3. /\ data' = IF sync THEN Synchronised(r) ELSE r
      /\ sync => astray' = {k \in Keys : data'[Master][k] = 0 /\ data'[Replica][k] # 0}
  BY DEF Restart
<1> HIDE DEF r, sync
<1>4. \A m \in Nodes, k \in Keys : r[m][k] <= last[k]
  BY <1>1, <1>2
<1>5. Synchronised(r) = [r EXCEPT ![Replica] = s]
  BY <1>1, <1>2 DEF Synchronised
<1>6. /\ s \in [Keys -> Nat]
      /\ \A k \in Keys : s[k] = IF r[Master][k] # 0 /\ Owns(Replica, k) THEN r[Master][k]
                                ELSE r[Replica][k]
  BY <1>1, <1>2
<1> HIDE DEF s
<1>7. \A m \in Masters : m \in Nodes /\ m # Replica
  BY MasterFacts
<1>8. CASE sync
  <2>1. /\ data' \in [Nodes -> [Keys -> Nat]]
        /\ \A m \in Nodes, k \in Keys : data'[m][k] = IF m = Replica THEN s[k] ELSE r[m][k]
    BY <1>1, <1>2, <1>3, <1>5, <1>6, <1>8
  <2>2. \A m \in Masters, k \in Keys : data'[m][k] = IF m = n THEN aof[n][k] ELSE data[m][k]
    BY <1>2, <1>7, <2>1
  <2>3. \A m \in Nodes, k \in Keys : data'[m][k] <= last[k]
    BY <1>1, <1>4, <1>6, <2>1
  <2>4. ASSUME NEW k \in Keys, Owns(Replica, k), k \notin astray'
        PROVE  data'[Replica][k] = data'[Master][k]
    <3>1. data'[Replica][k] = s[k] /\ data'[Master][k] = r[Master][k]
      BY <1>1, <2>1
    <3>2. data'[Master][k] # 0 \/ data'[Replica][k] = 0
      BY <1>3, <1>8, <2>4
    <3> QED BY <1>6, <2>4, <3>1, <3>2
  <2> QED BY <1>8, <2>1, <2>2, <2>3, <2>4 DEF sync
<1>9. CASE ~sync
  BY <1>1, <1>2, <1>3, <1>4, <1>7, <1>9 DEF sync
<1> QED BY <1>8, <1>9

LEMMA RestartStep ==
  ASSUME IInv, NEW n \in Nodes, Restart(n)
  PROVE  IInv'
<1> DEFINE breaks(c) ==
             c.step # "idle" /\ (c.node = n \/ (c.target = n /\ c.step \in {"sent", "served"}))
           onTheWay == {c \in {call[i] : i \in Migrates} : c.step = "sent" /\ c.node = n}
           sync == n \in {Master, Replica} /\ Master \notin loops
<1>1. /\ call' = [i \in Migrates |-> IF breaks(call[i]) THEN Idle ELSE call[i]]
      /\ \E arriving \in SUBSET onTheWay : late' = {m \in late \union arriving : m.target # n}
      /\ exec' = {h \in exec : h.node # n}
      /\ stream' = IF sync THEN <<>> ELSE stream
      /\ ~sync => astray' = astray
      /\ UNCHANGED <<owner, loops, sets, migrates, aof, last, newest, spoiled>>
  BY DEF Restart, setup
<1>2. /\ data' \in [Nodes -> [Keys -> Nat]]
      /\ \A m \in Masters, k \in Keys :
           data'[m][k] = IF m = n THEN aof[n][k] ELSE data[m][k]
      /\ \A m \in Nodes, k \in Keys : data'[m][k] <= last[k]
      /\ IF sync
         THEN \A k \in Keys : Owns(Replica, k) /\ k \notin astray' =>
                data'[Replica][k] = data'[Master][k]
         ELSE n # Replica => \A k \in Keys : data'[Replica][k] = data[Replica][k]
  BY RestartFacts
<1>3. ASSUME NEW m \in late'
      PROVE  /\ m \in Request /\ m.val <= last[m.key]
             /\ m.num \in Migrates /\ m.num <= migrates /\ call'[m.num] = Idle
  <2>1. CASE m \in late
    <3>1. /\ m \in Request /\ m.val <= last[m.key]
          /\ m.num \in Migrates /\ m.num <= migrates /\ call[m.num] = Idle
      BY <2>1 DEF IInv, TypeOK, Bounded, Numbers
    <3> QED BY <1>1, <3>1
  <2>2. CASE m \in onTheWay
    <3>1. PICK i \in Migrates : m = call[i] /\ m.step = "sent" /\ m.node = n
      BY <2>2
    <3>2. m \in Request /\ m # Idle
      BY <3>1, CallFacts DEF IInv
    <3>3. m.num = i /\ i <= migrates /\ m.val <= last[m.key]
      BY <3>1, <3>2 DEF IInv, Numbers, Bounded
    <3>4. call'[i] = Idle
      BY <1>1, <3>1
    <3> QED BY <3>2, <3>3, <3>4
  <2> QED BY <1>1, <2>1, <2>2
<1>4. ASSUME NEW i \in Migrates
      PROVE  \/ call'[i] = Idle
             \/ /\ call'[i] = call[i]
                /\ call[i].step \in {"sent", "served"} => call[i].target # n
  BY <1>1
<1>5. call' \in [Migrates -> {Idle} \union Request]
  BY <1>1 DEF IInv, TypeOK
<1> HIDE DEF onTheWay, breaks
<1>6. <<>> \in Seq(Cmd) /\ Len(<<>>) = 0
  OBVIOUS
<1>7. TypeOK'
  <2>1. stream' \in Seq(Cmd)
    BY <1>1, <1>6 DEF IInv, TypeOK
  <2>2. late' \subseteq Request /\ exec' \subseteq exec
    BY <1>1, <1>3
  <2> QED BY <1>1, <1>2, <1>5, <2>1, <2>2 DEF IInv, TypeOK
<1>8. Bounded'
  <2>1. \A j \in 1..Len(stream') : stream'[j].id <= last[stream'[j].key]
    BY <1>1, <1>6 DEF IInv, Bounded
  <2>2. \A i \in Migrates : call'[i] # Idle => call'[i].val <= last[call'[i].key]
    BY <1>4 DEF IInv, Bounded
  <2>3. \A m \in late' : m.val <= last[m.key]
    BY <1>3
  <2>4. \A h \in exec' : h.val <= last[h.key]
    BY <1>1 DEF IInv, Bounded
  <2> QED BY <1>1, <1>2, <2>1, <2>2, <2>3, <2>4 DEF IInv, Bounded
<1>9. Numbers'
  <2>1. \A i \in Migrates : call'[i] # Idle => call'[i].num = i /\ i <= migrates
    BY <1>4 DEF IInv, Numbers
  <2>2. \A m \in late' : m.num \in Migrates /\ m.num <= migrates /\ call'[m.num] = Idle
    BY <1>3
  <2>3. ASSUME NEW h \in exec'
        PROVE  /\ h.from <= migrates
               /\ \A i \in Migrates : h.from = i => call'[i].step \notin {"got", "sent"}
    BY <1>1, <1>4, IdleFacts DEF IInv, Numbers
  <2> QED BY <1>1, <2>1, <2>2, <2>3 DEF Numbers
<1>10. \A m \in Masters, j \in Keys, x \in Nat :
         Kept(m, j, x) => data'[m][j] >= x /\ aof[m][j] >= x
  BY <1>2 DEF Kept
<1>11. Held'
  <2> SUFFICES ASSUME NEW j \in Keys, j \notin spoiled
               PROVE  \E m \in Masters : data'[m][j] >= newest[j] /\ aof[m][j] >= newest[j]
    BY <1>1 DEF Held, Kept
  <2>1. newest[j] \in Nat /\ \E m \in Masters : Kept(m, j, newest[j])
    BY DEF IInv, TypeOK, Held
  <2> QED BY <1>10, <2>1
<1>12. ASSUME NEW h \in exec'
       PROVE  /\ h \in exec /\ h.node \in Masters /\ h.key \in Keys /\ h.val \in Nat
              /\ data'[h.node][h.key] = data[h.node][h.key]
  <2>1. h \in exec /\ h.node # n
    BY <1>1
  <2> QED BY <1>2, <2>1, HandlerFacts DEF IInv
<1>13. ASSUME NEW h \in exec' PROVE Pending(h)'
  <2> SUFFICES ASSUME ~h.logged, h.key \notin spoiled
               PROVE  \/ data'[h.node][h.key] >= h.val
                      \/ \E m \in Masters : data'[m][h.key] >= h.val /\ aof[m][h.key] >= h.val
    BY <1>1 DEF Pending, Kept
  <2>1. data[h.node][h.key] >= h.val \/ \E m \in Masters : Kept(m, h.key, h.val)
    BY <1>12 DEF IInv, Pending
  <2> QED BY <1>10, <1>12, <2>1
<1>14. ASSUME NEW h \in exec', NEW i \in Migrates PROVE Serving(h, i)'
  BY <1>1, <1>4, <1>12, IdleFacts DEF IInv, Serving
<1>15. ASSUME NEW i \in Migrates PROVE Copied(i)'
  <2> SUFFICES ASSUME call'[i].step = "answered", call'[i].reply = "ok", call'[i].key \notin spoiled
               PROVE  /\ call'[i].target \in Masters
                      /\ data'[call'[i].target][call'[i].key] >= call'[i].val
                      /\ aof[call'[i].target][call'[i].key] >= call'[i].val
    BY <1>1 DEF Copied, Kept
  <2>1. call'[i] = call[i]
    BY <1>4, IdleFacts
  <2>2. call[i].key \in Keys /\ call[i].val \in Nat
    BY <2>1, CallFacts DEF IInv
  <2>3. call[i].target \in Masters /\ Kept(call[i].target, call[i].key, call[i].val)
    BY <2>1 DEF IInv, Copied
  <2> QED BY <1>10, <2>1, <2>2, <2>3
<1>16. InStep'
  <2> SUFFICES ASSUME Master \notin loops, NEW j \in Keys, Owns(Replica, j), j \notin astray'
               PROVE  ToSend(j)' \/ Ends(stream', j, data'[Replica][j], data'[Master][j])
    BY <1>1 DEF InStep, Owns
  <2>1. CASE sync
    <3>1. stream' = <<>> /\ data'[Replica][j] = data'[Master][j]
      BY <1>1, <1>2, <2>1
    <3> QED BY <1>6, <3>1 DEF Ends
  <2>2. CASE ~sync
    <3>1. n # Master /\ n # Replica /\ stream' = stream /\ j \notin astray
      BY <1>1, <2>2
    <3>2. data'[Replica][j] = data[Replica][j] /\ data'[Master][j] = data[Master][j]
      BY <1>2, <2>2, <3>1, MasterFacts
    <3>3. ToSend(j) \/ Ends(stream, j, data[Replica][j], data[Master][j])
      BY <3>1 DEF IInv, InStep
    <3>4. ToSend(j) => ToSend(j)'
      BY <1>1, <3>1, <3>2 DEF ToSend
    <3> QED BY <3>1, <3>2, <3>3, <3>4
  <2> QED BY <2>1, <2>2
<1> QED BY <1>7, <1>8, <1>9, <1>11, <1>13, <1>14, <1>15, <1>16 DEF IInv
-----------------------------------------------------------------------------
(* The theorems *)

LEMMA InitIInv ==
  ASSUME Init
  PROVE  IInv
<1>1. /\ sets = 0 /\ migrates = 0 /\ stream = <<>> /\ late = {} /\ exec = {}
      /\ last = [k \in Keys |-> 0] /\ newest = last
      /\ data = [n \in Nodes |-> [k \in Keys |-> 0]] /\ aof = data
      /\ call = [i \in Migrates |-> Idle]
  BY DEF Init
<1>2. /\ data \in [Nodes -> [Keys -> Nat]] /\ aof \in [Nodes -> [Keys -> Nat]]
      /\ \A n \in Nodes, k \in Keys : data[n][k] = 0 /\ aof[n][k] = 0
  BY <1>1
<1>3. stream \in Seq(Cmd) /\ Len(stream) = 0
  BY <1>1
<1>4. /\ last \in [Keys -> Nat] /\ newest \in [Keys -> Nat]
      /\ \A k \in Keys : last[k] = 0 /\ newest[k] = 0
  BY <1>1
<1>5. call \in [Migrates -> {Idle} \union Request] /\ \A i \in Migrates : call[i] = Idle
  BY <1>1
<1>6. TypeOK
  BY <1>1, <1>2, <1>3, <1>4, <1>5 DEF TypeOK
<1>7. Bounded /\ Numbers
  BY <1>1, <1>2, <1>3, <1>4, <1>5 DEF Bounded, Numbers
<1>8. Held
  BY <1>2, <1>4, MasterFacts DEF Held, Kept
<1>9. InStep
  BY <1>2, <1>3, MasterFacts DEF InStep, Ends
<1>10. \A i \in Migrates : Copied(i)
  BY <1>5, IdleFacts DEF Copied
<1> QED BY <1>1, <1>6, <1>7, <1>8, <1>9, <1>10 DEF IInv

LEMMA Inductive ==
  ASSUME IInv, [Next]_vars
  PROVE  IInv'
<1>1. ASSUME NEW n \in Nodes, NEW k \in Keys, SET(n, k) PROVE IInv'
  BY <1>1, SETStep
<1>2. ASSUME NEW n \in Nodes, NEW k \in Keys, NEW t \in Nodes, migrateGet(n, k, t) PROVE IInv'
  BY <1>2, MigrateGetStep
<1>3. ASSUME NEW n \in Nodes, Restart(n) PROVE IInv'
  BY <1>3, RestartStep
<1>4. ASSUME NEW i \in Migrates, migrateSend(i) \/ serveCall(i) \/ Break(i) \/ migrateDelete(i)
      PROVE  IInv'
  BY <1>4, MigrateSendStep, ServeCallStep, BreakStep, MigrateDeleteStep
<1>5. ASSUME NEW h \in exec, Finish(h) PROVE IInv'
  BY <1>5, AofWriteStep, BroadcastStep DEF Finish
<1>6. CASE apply
  BY <1>6, ApplyStep
<1>7. ASSUME NEW m \in late, serveLate(m) PROVE IInv'
  BY <1>7, ServeLateStep
<1>8. CASE UNCHANGED vars
  <2>1. /\ UNCHANGED <<owner, loops, sets, data, aof, exec, stream, last, newest, spoiled, astray>>
        /\ call' = call /\ late' = late /\ migrates' = migrates
    BY <1>8 DEF vars, setup, counts, history
  <2>2. /\ call' \in [Migrates -> {Idle} \union Request] /\ late' \subseteq Request
        /\ migrates' \in Nat /\ migrates <= migrates'
        /\ \A i \in Migrates : call'[i] = call[i]
        /\ \A m \in late' : /\ m.val <= last[m.key]
                            /\ m.num \in Migrates /\ m.num <= migrates' /\ call'[m.num] = Idle
    BY <2>1 DEF IInv, TypeOK, Bounded, Numbers
  <2> QED BY <2>1, <2>2, CallStep
<1> QED BY <1>1, <1>2, <1>3, <1>4, <1>5, <1>6, <1>7, <1>8 DEF Next

\* Every state satisfies the inductive invariant.
THEOREM Invariance == Spec => []IInv
<1>1. Init => IInv
  BY InitIInv
<1>2. IInv /\ [Next]_vars => IInv'
  BY Inductive
<1> QED BY <1>1, <1>2, PTL DEF Spec

\* Whatever the order in which handlers store and log their SETs, no MIGRATE,
\* broken connection, late SET or restart loses the newest logged value of a
\* key, but for the cases that spoil it.
THEOREM NewestIsKept == Spec => []NewestKept
<1>1. ASSUME IInv PROVE NewestKept
  <2> SUFFICES ASSUME NEW k \in Keys, newest[k] # 0, k \notin spoiled
               PROVE  \E n \in Nodes : data[n][k] >= newest[k]
    BY DEF NewestKept
  <2>1. PICK m \in Masters : Kept(m, k, newest[k])
    BY <1>1 DEF IInv, Held
  <2> QED BY <2>1, MasterFacts DEF Kept
<1> QED BY <1>1, Invariance, PTL

\* A replica that has applied its stream has what its master has, once the
\* master's handlers have sent their SETs, but for the keys its own table
\* gives away and those that went astray.
THEOREM ReplicaFollows == Spec => []ReplicaDiffers
<1>1. ASSUME IInv PROVE ReplicaDiffers
  <2> SUFFICES ASSUME stream = <<>>, \A h \in exec : h.node # Master, Master \notin loops,
                      NEW k \in Keys, Owns(Replica, k), k \notin astray
               PROVE  data[Replica][k] = data[Master][k]
    BY DEF ReplicaDiffers
  <2>1. Ends(<<>>, k, data[Replica][k], data[Master][k])
    BY <1>1 DEF IInv, InStep, ToSend
  <2> QED BY <2>1 DEF Ends
<1> QED BY <1>1, Invariance, PTL
================================================================================
