--------------------------- MODULE ReplicationProofs ---------------------------
(***************************************************************************)
(* Proofs about Replication for any keys and clients, any channel size,    *)
(* any number of SETs and connections, and with or without memory limits.  *)
(*                                                                         *)
(* What the current session still has to apply, the wire and behind it the *)
(* channel, is for each key a sequence of values that rise, but for those  *)
(* broadcast late, and that ends with the master's value, unless the       *)
(* newest SET of the key is yet to be broadcast or the session is behind   *)
(* for the key.                                                            *)
(***************************************************************************)
EXTENDS Replication, SequenceProofs, FiniteSetTheorems

Cmd == [key : Keys, id : Nat \ {0}]
QCmd == [key : Keys, id : Nat \ {0}, late : BOOLEAN]
Phases == {"none", "repl", "sent", "streaming", "closed"}
Session == [phase : Phases, open : BOOLEAN, ch : Seq(QCmd), wire : Seq(QCmd),
            snap : [Keys -> Nat], behind : SUBSET Keys]

TypeOK ==
  /\ mem \in [Keys -> Nat]
  /\ newest \in [Keys -> Nat]
  /\ last \in Nat
  /\ set \in [Clients -> Cmd \union {Idle}]
  /\ conn \in [Conns -> Session]
  /\ current \in 0..MaxConns
  /\ rep \in [Keys -> Nat]
  /\ evicted \in SUBSET Keys
  /\ replicaMode \in BOOLEAN

\* A command that is not late is at least as new as those of its key before it.
Rising(q) ==
  \A j, l \in 1..Len(q) : j < l /\ q[j].key = q[l].key /\ ~q[l].late => q[j].id <= q[l].id

\* No value in q is newer than in hi, and none that is not late is older than
\* in the store lo.
Within(q, lo, hi) ==
  \A j \in 1..Len(q) :
    /\ q[j].id <= hi[q[j].key]
    /\ ~q[j].late => lo[q[j].key] <= q[j].id

\* The session has its snapshot.
Live(i) == conn[i].open /\ conn[i].phase \in {"sent", "streaming"}

\* What the replica has yet to apply.
Ahead(i) == conn[i].wire \o conn[i].ch

\* The newest SET of k, which the snapshot does not contain, is yet to be
\* broadcast.
Pending(i, k) ==
  \E c \in Clients :
    set[c] # Idle /\ set[c].key = k /\ set[c].id = newest[k] /\ set[c].id > conn[i].snap[k]

\* The replica's value of k; one it has evicted counts as the master's.
Value(k) == IF k \in evicted THEN mem[k] ELSE rep[k]

InStep(i) ==
  /\ \A k \in Keys : conn[i].snap[k] <= newest[k]
  /\ replicaMode =>
       /\ Rising(Ahead(i))
       /\ Within(Ahead(i), rep, newest)
       /\ \A k \in Keys \ conn[i].behind :
            mem[k] # 0 => Pending(i, k) \/ Ends(Ahead(i), k, Value(k), mem[k])

\* The keys the master has.
Present == {k \in Keys : mem[k] > 0}

\* The master has the newest value of each key or has evicted it; the replica
\* is never ahead.
Stores ==
  /\ IsFiniteSet(Present)
  /\ \A k \in Keys : mem[k] \in {0, newest[k]} /\ newest[k] <= last
  /\ \A c \in Clients : set[c] # Idle => set[c].id <= newest[set[c].key]
  /\ replicaMode => \A k \in Keys : rep[k] <= newest[k] /\ (k \in evicted => rep[k] = 0)

\* Only the last connection can be open, its handler is closed only after
\* the connection, and nothing is on its way before the snapshot.
Sessions ==
  \A i \in Conns :
    /\ conn[i].open => i = current
    /\ conn[i].phase = "closed" => ~conn[i].open
    /\ conn[i].phase \in {"none", "repl"} => conn[i].ch = <<>> /\ conn[i].wire = <<>>
    /\ i > current => conn[i].phase = "none"

IInv ==
  /\ TypeOK
  /\ Stores
  /\ Sessions
  /\ \A i \in Conns : Live(i) => InStep(i)
-----------------------------------------------------------------------------
(* Sequences of commands *)

\* A command may follow all others if it is its key's newest, or late.
LEMMA RisingAppend ==
  ASSUME NEW lo \in [Keys -> Nat], NEW hi \in [Keys -> Nat], NEW q \in Seq(QCmd), NEW cmd \in QCmd,
         Rising(q), Within(q, lo, hi), cmd.id <= hi[cmd.key],
         ~cmd.late => lo[cmd.key] <= cmd.id /\ cmd.id = hi[cmd.key]
  PROVE  Rising(Append(q, cmd)) /\ Within(Append(q, cmd), lo, hi)
<1> DEFINE p == Append(q, cmd)
<1>1. /\ Len(p) = Len(q) + 1 /\ Len(q) \in Nat
      /\ \A j \in 1..Len(q) : p[j] = q[j] /\ q[j] \in QCmd
      /\ p[Len(q) + 1] = cmd
  OBVIOUS
<1> HIDE DEF p
<1>2. ASSUME NEW j \in 1..Len(p), NEW l \in 1..Len(p), j < l, p[j].key = p[l].key, ~p[l].late
      PROVE  p[j].id <= p[l].id
  <2>1. j \in 1..Len(q)
    BY <1>1, <1>2
  <2>2. CASE l = Len(q) + 1
    <3>1. q[j].key = cmd.key /\ q[j].id <= hi[q[j].key]
      BY <1>1, <1>2, <2>1, <2>2 DEF Within
    <3>2. cmd.id = hi[cmd.key]
      BY <1>1, <1>2, <2>2
    <3> QED BY <1>1, <2>1, <2>2, <3>1, <3>2
  <2>3. CASE l \in 1..Len(q)
    BY <1>1, <1>2, <2>1, <2>3 DEF Rising
  <2> QED BY <1>1, <2>2, <2>3
<1>3. ASSUME NEW j \in 1..Len(p)
      PROVE  p[j].id <= hi[p[j].key] /\ (~p[j].late => lo[p[j].key] <= p[j].id)
  <2>1. CASE j = Len(q) + 1
    BY <1>1, <2>1
  <2>2. CASE j \in 1..Len(q)
    BY <1>1, <2>2 DEF Within
  <2> QED BY <1>1, <2>1, <2>2
<1>4. Rising(p) /\ Within(p, lo, hi)
  BY <1>2, <1>3 DEF Rising, Within
<1> QED BY <1>4 DEF p

\* When the first command has been applied, the rest is late or not older
\* than it; the store may evict the key, or others.
LEMMA RisingTail ==
  ASSUME NEW lo \in [Keys -> Nat], NEW hi \in [Keys -> Nat], NEW q \in Seq(QCmd), q # <<>>,
         Rising(q), Within(q, lo, hi), NEW m \in [Keys -> Nat],
         \A k \in Keys : m[k] \in {0, IF k = Head(q).key THEN Head(q).id ELSE lo[k]}
  PROVE  /\ Head(q) \in QCmd
         /\ Head(q).id <= hi[Head(q).key]
         /\ ~Head(q).late => lo[Head(q).key] <= Head(q).id
         /\ Rising(Tail(q))
         /\ Within(Tail(q), m, hi)
<1> DEFINE p == Tail(q)
           h == Head(q)
<1>1. /\ Len(q) \in Nat /\ Len(q) > 0 /\ Len(p) = Len(q) - 1
      /\ \A j \in 1..Len(p) : p[j] = q[j + 1] /\ j + 1 \in 1..Len(q)
      /\ h = q[1] /\ h \in QCmd
      /\ \A j \in 1..Len(q) : q[j] \in QCmd
  OBVIOUS
<1>2. \A k \in Keys : m[k] \in {0, IF k = h.key THEN h.id ELSE lo[k]}
  OBVIOUS
<1> HIDE DEF p, h
<1>3. h.id <= hi[h.key] /\ (~h.late => lo[h.key] <= h.id)
  BY <1>1 DEF Within
<1>4. ASSUME NEW j \in 1..Len(p), NEW l \in 1..Len(p), j < l, p[j].key = p[l].key, ~p[l].late
      PROVE  p[j].id <= p[l].id
  <2>1. /\ j + 1 \in 1..Len(q) /\ l + 1 \in 1..Len(q) /\ j + 1 < l + 1
        /\ p[j] = q[j + 1] /\ p[l] = q[l + 1]
    BY <1>1, <1>4
  <2>2. q[j + 1].key = q[l + 1].key /\ ~q[l + 1].late
    BY <1>4, <2>1
  <2> QED BY <2>1, <2>2 DEF Rising
<1>5. ASSUME NEW j \in 1..Len(p)
      PROVE  p[j].id <= hi[p[j].key] /\ (~p[j].late => m[p[j].key] <= p[j].id)
  <2>1. /\ j + 1 \in 1..Len(q) /\ 1 \in 1..Len(q) /\ 1 < j + 1
        /\ p[j] = q[j + 1] /\ q[j + 1] \in QCmd
    BY <1>1, SMTT(20)
  <2>2. p[j].id <= hi[p[j].key] /\ (~p[j].late => lo[p[j].key] <= p[j].id)
    BY <2>1 DEF Within
  <2>3. h.key = p[j].key /\ ~p[j].late => h.id <= p[j].id
    BY <1>1, <2>1 DEF Rising
  <2>4. p[j].key \in Keys /\ p[j].id \in Nat /\ 0 <= p[j].id
    <3>1. p[j] \in QCmd
      BY ONLY <2>1
    <3> QED BY ONLY <3>1 DEF QCmd
  <2> QED BY <1>2, <2>2, <2>3, <2>4
<1>6. Rising(p) /\ Within(p, m, hi)
  BY <1>4, <1>5 DEF Rising, Within
<1> QED BY <1>1, <1>3, <1>6 DEF p, h

\* What ends with v also does so from a store that has v.
LEMMA EndsEither ==
  ASSUME NEW q, NEW k, NEW b, NEW v, NEW d \in {b, v}, Ends(q, k, b, v)
  PROVE  Ends(q, k, d, v)
BY DEF Ends
-----------------------------------------------------------------------------
(* Frames *)

\* A step of one connection.
LEMMA OneConn ==
  ASSUME TypeOK, NEW i \in Conns, NEW r \in Session, conn' = [conn EXCEPT ![i] = r]
  PROVE  /\ conn' \in [Conns -> Session]
         /\ conn'[i] = r
         /\ \A j \in Conns : j # i => conn'[j] = conn[j]
BY DEF TypeOK

LEMMA NoConnType ==
  /\ NoConn \in Session
  /\ Closed \in Session
  /\ ~Closed.open /\ Closed.phase = "closed"
<1>1. Nothing \in [Keys -> Nat] /\ <<>> \in Seq(QCmd)
  BY DEF Nothing
<1>2. NoConn \in Session
  BY <1>1 DEF NoConn, Session, Phases
<1>3. NoConn.open = FALSE
  BY DEF NoConn
<1>4. Closed \in Session /\ ~Closed.open /\ Closed.phase = "closed"
  BY <1>2, <1>3 DEF Closed, Session, Phases
<1> QED BY <1>2, <1>4

\* A session with the same commands ahead of it stays in step while the
\* stores do not change.
LEMMA InStepSame ==
  ASSUME NEW i \in Conns, InStep(i), Ahead(i)' = Ahead(i),
         conn'[i].snap = conn[i].snap, conn'[i].behind = conn[i].behind,
         UNCHANGED <<mem, newest, set, rep, evicted>>, replicaMode' => replicaMode
  PROVE  InStep(i)'
<1>1. \A k \in Keys : Pending(i, k) => Pending(i, k)'
  BY DEF Pending
<1>2. \A k \in Keys : Value(k)' = Value(k)
  BY DEF Value
<1> QED BY <1>1, <1>2 DEF InStep

\* A step of one handler that changes no store.
LEMMA SessionStep ==
  ASSUME IInv, NEW i \in Conns, NEW r \in Session, conn' = [conn EXCEPT ![i] = r],
         UNCHANGED <<mem, newest, last, set, current, rep, evicted, replicaMode>>,
         r.open => conn[i].open, r.phase = "closed" => ~r.open,
         r.phase \notin {"none", "repl"}, conn[i].phase # "none",
         Live(i)' => InStep(i)'
  PROVE  IInv'
<1>1. /\ conn' \in [Conns -> Session]
      /\ conn'[i] = r
      /\ \A j \in Conns : j # i => conn'[j] = conn[j]
  BY OneConn DEF IInv
<1>2. TypeOK'
  BY <1>1 DEF IInv, TypeOK
<1>3. Stores'
  BY DEF IInv, Stores, Present
<1>4. Sessions'
  BY <1>1 DEF IInv, Sessions
<1>5. ASSUME NEW j \in Conns, Live(j)'
      PROVE  InStep(j)'
  <2>1. CASE j = i
    BY <1>5, <2>1
  <2>2. CASE j # i
    <3>1. conn'[j] = conn[j]
      BY <1>1, <2>2
    <3>2. Live(j)
      BY <1>5, <3>1 DEF Live
    <3>3. InStep(j) /\ Ahead(j)' = Ahead(j)
      BY <3>1, <3>2 DEF IInv, Ahead
    <3> QED BY <3>1, <3>3, InStepSame
  <2> QED BY <2>1, <2>2
<1> QED BY <1>2, <1>3, <1>4, <1>5 DEF IInv

\* A step that leaves the connections and the stores alone.
LEMMA QuietStep ==
  ASSUME IInv, UNCHANGED <<mem, newest, last, set, conn, current, rep, evicted>>,
         replicaMode' \in BOOLEAN, replicaMode' => replicaMode
  PROVE  IInv'
<1>1. TypeOK'
  BY DEF IInv, TypeOK
<1>2. Stores' /\ Sessions'
  BY DEF IInv, Stores, Present, Sessions
<1>3. ASSUME NEW j \in Conns, Live(j)'
      PROVE  InStep(j)'
  BY <1>3, InStepSame DEF IInv, Live, Ahead
<1> QED BY <1>1, <1>2, <1>3 DEF IInv
-----------------------------------------------------------------------------
(* One lemma per operation *)

LEMMA InitIInv ==
  ASSUME Init
  PROVE  IInv
<1>1. /\ mem \in [Keys -> Nat] /\ newest \in [Keys -> Nat] /\ rep \in [Keys -> Nat]
      /\ \A k \in Keys : mem[k] = 0 /\ newest[k] = 0 /\ rep[k] = 0
  BY DEF Init, Nothing
<1>2. conn \in [Conns -> Session] /\ \A i \in Conns : conn[i] = NoConn
  BY NoConnType DEF Init
<1>3. current = 0 /\ last = 0 /\ evicted = {} /\ replicaMode \in BOOLEAN /\ set = [c \in Clients |-> Idle]
  BY DEF Init
<1>4. TypeOK
  BY <1>1, <1>2, <1>3, ReplicationAssumption DEF TypeOK
<1>5. Stores
  <2>1. Present = {}
    BY <1>1 DEF Present
  <2> QED BY <1>1, <1>3, <2>1, FS_EmptySet DEF Stores
<1>6. NoConn.open = FALSE /\ NoConn.phase = "none" /\ NoConn.ch = <<>> /\ NoConn.wire = <<>>
  BY DEF NoConn
<1>7. Sessions
  BY <1>2, <1>6 DEF Sessions
<1>8. \A i \in Conns : ~Live(i)
  BY <1>2, <1>6 DEF Live
<1> QED BY <1>4, <1>5, <1>7, <1>8 DEF IInv

LEMMA SetApplyStep ==
  ASSUME IInv, NEW c \in Clients, NEW k \in Keys, SetApply(c, k)
  PROVE  IInv'
<1> DEFINE cmd == [key |-> k, id |-> last + 1]
           s == [mem EXCEPT ![k] = last + 1]
<1>1. /\ mem' \in Evictions("master", s) /\ last' = last + 1
      /\ newest' = [newest EXCEPT ![k] = last + 1]
      /\ set' = [set EXCEPT ![c] = cmd]
      /\ set[c] = Idle
      /\ UNCHANGED <<conn, current, rep, evicted, replicaMode>>
  BY DEF SetApply, repVars
<1>2. last \in Nat /\ cmd \in Cmd /\ cmd.key = k /\ cmd.id = last + 1
  BY DEF IInv, TypeOK, Cmd
<1>3. s \in [Keys -> Nat] /\ \A j \in Keys : s[j] = IF j = k THEN last + 1 ELSE mem[j]
  BY <1>2 DEF IInv, TypeOK
<1> HIDE DEF cmd, s
<1>4. PICK gone : mem' = [j \in Keys |-> IF j \in gone THEN 0 ELSE s[j]]
  BY <1>1 DEF Evictions
<1>5. mem' \in [Keys -> Nat] /\ \A j \in Keys : mem'[j] \in {0, IF j = k THEN last + 1 ELSE mem[j]}
  BY <1>3, <1>4
<1>6. newest' \in [Keys -> Nat] /\ \A j \in Keys : newest'[j] = IF j = k THEN last + 1 ELSE newest[j]
  BY <1>1, <1>2 DEF IInv, TypeOK
<1>7. \A j \in Keys : /\ mem[j] \in {0, newest[j]} /\ newest[j] \in Nat /\ newest[j] <= last
                      /\ newest[j] <= newest'[j]
  BY <1>2, <1>6 DEF IInv, TypeOK, Stores
<1>8. TypeOK'
  BY <1>1, <1>2, <1>5, <1>6 DEF IInv, TypeOK
<1>9. /\ set'[c] = cmd
      /\ \A d \in Clients : d # c => set'[d] = set[d]
  BY <1>1 DEF IInv, TypeOK
<1>10. Stores'
  <2>1. \A j \in Keys : mem'[j] \in {0, newest'[j]} /\ newest'[j] <= last'
    BY <1>1, <1>2, <1>5, <1>6, <1>7
  <2>2. ASSUME NEW d \in Clients, set'[d] # Idle
        PROVE  set'[d].id <= newest'[set'[d].key]
    <3>1. CASE d = c
      BY <1>2, <1>6, <1>9, <3>1
    <3>2. CASE d # c
      <4>1. set[d] \in Cmd /\ set[d].id <= newest[set[d].key] /\ set'[d] = set[d]
        BY <1>9, <2>2, <3>2 DEF IInv, TypeOK, Stores
      <4>2. set[d].key \in Keys /\ set[d].id \in Nat
        BY <4>1 DEF Cmd
      <4>3. newest[set[d].key] \in Nat /\ newest'[set[d].key] \in Nat
            /\ newest[set[d].key] <= newest'[set[d].key]
        BY <1>6, <1>7, <4>2
      <4> QED BY <4>1, <4>2, <4>3
    <3> QED BY <3>1, <3>2
  <2>3. replicaMode' => \A j \in Keys : rep'[j] <= newest'[j] /\ (j \in evicted' => rep'[j] = 0)
    BY <1>1, <1>6, <1>7 DEF IInv, TypeOK, Stores
  <2>4. IsFiniteSet(Present \union {k}) /\ Present' \subseteq Present \union {k}
    BY <1>5, FS_AddElement DEF Present, IInv, Stores
  <2>5. IsFiniteSet(Present')
    BY <2>4, FS_Subset
  <2> QED BY <2>1, <2>2, <2>3, <2>5 DEF Stores
<1>11. Sessions'
  BY <1>1 DEF IInv, Sessions
<1>12. ASSUME NEW i \in Conns, Live(i)'
       PROVE  InStep(i)'
  <2>1. InStep(i) /\ conn[i] \in Session /\ Ahead(i)' = Ahead(i) /\ Ahead(i) \in Seq(QCmd)
    BY <1>1, <1>12 DEF IInv, TypeOK, Live, Ahead, Session
  <2>2. \A j \in Keys : conn[i].snap[j] <= newest[j] /\ conn[i].snap[j] \in Nat
    BY <2>1 DEF InStep, Session
  <2>3. \A j \in Keys : conn'[i].snap[j] <= newest'[j]
    BY <1>1, <1>6, <1>7, <2>2
  <2>4. Pending(i, k)'
    BY <1>1, <1>2, <1>6, <1>7, <1>9, <2>2, ReplicationAssumption DEF Pending, Idle
  <2>5. ASSUME NEW j \in Keys, j # k, Pending(i, j)
        PROVE  Pending(i, j)'
    <3>1. PICK d \in Clients : /\ set[d] # Idle /\ set[d].key = j /\ set[d].id = newest[j]
                               /\ set[d].id > conn[i].snap[j]
      BY <2>5 DEF Pending
    <3>2. set'[d] = set[d] /\ newest'[j] = newest[j]
      BY <1>1, <1>6, <1>9, <2>5, <3>1
    <3> QED BY <1>1, <3>1, <3>2 DEF Pending
  <2>6. ASSUME replicaMode'
        PROVE  /\ Rising(Ahead(i)')
               /\ Within(Ahead(i)', rep', newest')
               /\ \A j \in Keys \ conn'[i].behind :
                    mem'[j] # 0 => Pending(i, j)' \/ Ends(Ahead(i)', j, Value(j)', mem'[j])
    <3>1. Rising(Ahead(i)) /\ Within(Ahead(i), rep, newest)
      BY <1>1, <2>1, <2>6 DEF InStep
    <3>2. ASSUME NEW a \in 1..Len(Ahead(i))
          PROVE  Ahead(i)[a].id <= newest'[Ahead(i)[a].key]
      <4>1. Ahead(i)[a] \in QCmd
        BY <2>1
      <4>2. Ahead(i)[a].key \in Keys /\ Ahead(i)[a].id \in Nat
        BY <4>1 DEF QCmd
      <4>3. Ahead(i)[a].id <= newest[Ahead(i)[a].key]
        BY <3>1 DEF Within
      <4>4. newest[Ahead(i)[a].key] \in Nat /\ newest'[Ahead(i)[a].key] \in Nat
            /\ newest[Ahead(i)[a].key] <= newest'[Ahead(i)[a].key]
        BY <1>6, <1>7, <4>2
      <4> QED BY <4>2, <4>3, <4>4
    <3>3. ASSUME NEW j \in Keys \ conn[i].behind, j # k, mem'[j] # 0, ~Pending(i, j)'
          PROVE  Ends(Ahead(i), j, Value(j)', mem'[j])
      <4>1. mem'[j] = mem[j]
        BY <1>5, <3>3
      <4>2. Ends(Ahead(i), j, Value(j), mem[j])
        BY <1>1, <2>1, <2>5, <2>6, <3>3, <4>1 DEF InStep
      <4>3. Value(j)' = Value(j)
        BY <1>1, <4>1 DEF Value
      <4> QED BY <4>1, <4>2, <4>3
    <3>4. Within(Ahead(i)', rep', newest')
      BY <1>1, <2>1, <3>1, <3>2 DEF Within
    <3> QED BY <1>1, <2>1, <2>4, <3>1, <3>3, <3>4
  <2> QED BY <2>3, <2>6 DEF InStep, Rising, Within, Ends
<1> QED BY <1>8, <1>10, <1>11, <1>12 DEF IInv

\* What the send to one replica does to its session.
LEMMA OfferFacts ==
  ASSUME NEW s \in Session, NEW cmd \in Cmd
  PROVE  /\ Offer(s, cmd) \in Session
         /\ Offer(s, cmd).phase = s.phase
         /\ Offer(s, cmd).open <=> s.open
         /\ Offer(s, cmd).wire = s.wire
         /\ Offer(s, cmd).snap = s.snap
         /\ \/ /\ s.phase = "streaming"
               /\ Offer(s, cmd).ch = Append(s.ch, [key |-> cmd.key, id |-> cmd.id, late |-> Late(cmd)])
               /\ Offer(s, cmd).behind = IF s.open THEN Sent(s, cmd) ELSE s.behind
            \/ /\ Offer(s, cmd).ch = s.ch
               /\ Offer(s, cmd).behind = IF s.open THEN NotSent(s, cmd) ELSE s.behind
<1>1. CASE s.phase = "streaming" /\ Len(s.ch) < ChanSize
  <2> DEFINE m == IF s.open THEN Sent(s, cmd) ELSE s.behind
             a == Append(s.ch, [key |-> cmd.key, id |-> cmd.id, late |-> Late(cmd)])
  <2>1. Offer(s, cmd) = [s EXCEPT !.ch = a, !.behind = m]
    BY <1>1 DEF Offer, Session
  <2>2. [key |-> cmd.key, id |-> cmd.id, late |-> Late(cmd)] \in QCmd
    BY DEF Cmd, QCmd, Late
  <2>3. a \in Seq(QCmd)
    BY <2>2 DEF Session
  <2>4. m \in SUBSET Keys
    BY DEF Session, Cmd, Sent
  <2> HIDE DEF m, a
  <2>5. /\ Offer(s, cmd) \in Session
        /\ Offer(s, cmd).phase = s.phase
        /\ Offer(s, cmd).open <=> s.open
        /\ Offer(s, cmd).wire = s.wire
        /\ Offer(s, cmd).snap = s.snap
        /\ Offer(s, cmd).ch = a
        /\ Offer(s, cmd).behind = m
    BY <2>1, <2>3, <2>4 DEF Session
  <2> QED BY <1>1, <2>5 DEF m, a
<1>2. CASE ~(s.phase = "streaming" /\ Len(s.ch) < ChanSize)
  <2> DEFINE m == IF s.open THEN NotSent(s, cmd) ELSE s.behind
  <2>1. Offer(s, cmd) = [s EXCEPT !.behind = m]
    BY <1>2 DEF Offer, Session
  <2>2. m \in SUBSET Keys
    BY DEF Session, Cmd, NotSent
  <2> HIDE DEF m
  <2>3. /\ Offer(s, cmd) \in Session
        /\ Offer(s, cmd).phase = s.phase
        /\ Offer(s, cmd).open <=> s.open
        /\ Offer(s, cmd).wire = s.wire
        /\ Offer(s, cmd).snap = s.snap
        /\ Offer(s, cmd).ch = s.ch
        /\ Offer(s, cmd).behind = m
    BY <2>1, <2>2 DEF Session
  <2> QED BY <2>3 DEF m
<1> QED BY <1>1, <1>2

LEMMA BroadcastStep ==
  ASSUME IInv, NEW c \in Clients, broadcastToReplicas(c)
  PROVE  IInv'
<1> DEFINE p == set[c]
           e == [key |-> p.key, id |-> p.id, late |-> Late(p)]
<1>1. /\ p # Idle
      /\ conn' = [i \in Conns |-> Offer(conn[i], p)]
      /\ set' = [set EXCEPT ![c] = Idle]
      /\ UNCHANGED <<mem, newest, last, current, rep, evicted, replicaMode>>
  BY DEF broadcastToReplicas, repVars
<1>2. p \in Cmd /\ p.key \in Keys /\ p.id \in Nat /\ p.id > 0 /\ p.id <= newest[p.key]
  BY <1>1 DEF IInv, TypeOK, Stores, Cmd
<1>3. e \in QCmd /\ e.key = p.key /\ e.id = p.id /\ (e.late <=> p.id < newest[p.key])
  <2>1. Late(p) \in BOOLEAN
    BY DEF Late
  <2> HIDE DEF p
  <2> QED BY <1>2, <2>1 DEF Cmd, QCmd, Late
<1>4. /\ set'[c] = Idle
      /\ \A d \in Clients : d # c => set'[d] = set[d]
  BY <1>1 DEF IInv, TypeOK
<1>5. \A i \in Conns : conn[i] \in Session /\ conn'[i] = Offer(conn[i], p)
  BY <1>1 DEF IInv, TypeOK
<1>6. ASSUME NEW i \in Conns
      PROVE  /\ conn'[i] \in Session
             /\ conn'[i].phase = conn[i].phase
             /\ conn'[i].open <=> conn[i].open
             /\ conn'[i].wire = conn[i].wire
             /\ conn'[i].snap = conn[i].snap
             /\ \/ /\ conn[i].phase = "streaming"
                   /\ conn'[i].ch = Append(conn[i].ch, e)
                   /\ conn'[i].behind = IF conn[i].open THEN Sent(conn[i], p) ELSE conn[i].behind
                \/ /\ conn'[i].ch = conn[i].ch
                   /\ conn'[i].behind = IF conn[i].open THEN NotSent(conn[i], p) ELSE conn[i].behind
  <2>1. conn[i] \in Session /\ conn'[i] = Offer(conn[i], p)
    BY <1>5
  <2> DEFINE o == Offer(conn[i], p)
  <2>2. p \in Cmd
    BY <1>2
  <2>3. /\ o \in Session
        /\ o.phase = conn[i].phase
        /\ o.open <=> conn[i].open
        /\ o.wire = conn[i].wire
        /\ o.snap = conn[i].snap
        /\ \/ /\ conn[i].phase = "streaming"
              /\ o.ch = Append(conn[i].ch, e)
              /\ o.behind = IF conn[i].open THEN Sent(conn[i], p) ELSE conn[i].behind
           \/ /\ o.ch = conn[i].ch
              /\ o.behind = IF conn[i].open THEN NotSent(conn[i], p) ELSE conn[i].behind
    BY ONLY <2>1, <2>2, OfferFacts
  <2> HIDE DEF o, e, p
  <2>4. conn'[i] = o
    BY <2>1 DEF o
  <2> QED BY <2>3, <2>4, Zenon
<1> HIDE DEF p, e
<1>7. TypeOK'
  BY <1>1, <1>6 DEF IInv, TypeOK
<1>8. Stores'
  <2>1. \A d \in Clients : set'[d] # Idle => set'[d].id <= newest'[set'[d].key]
    BY <1>1, <1>4 DEF IInv, Stores
  <2> QED BY <1>1, <2>1 DEF IInv, Stores, Present
<1>9. Sessions'
  <2>1. ASSUME NEW i \in Conns
        PROVE  /\ conn'[i].phase = conn[i].phase /\ conn'[i].wire = conn[i].wire
               /\ conn'[i].open <=> conn[i].open
               /\ conn[i].phase # "streaming" => conn'[i].ch = conn[i].ch
    BY <1>6
  <2> QED BY <1>1, <2>1 DEF IInv, Sessions
<1>10. ASSUME NEW i \in Conns, Live(i)'
       PROVE  InStep(i)'
  <2> DEFINE s == conn[i]
             q == Ahead(i)
  <2>1. s \in Session
    BY <1>5
  <2>2. Live(i) /\ s.open /\ conn'[i].snap = s.snap /\ conn'[i].wire = s.wire
    BY <1>6, <1>10 DEF Live
  <2>3. InStep(i)
    BY <2>2 DEF IInv
  <2>4. \A k \in Keys : conn'[i].snap[k] <= newest'[k]
    BY <1>1, <2>2, <2>3 DEF InStep
  <2>5. s.wire \in Seq(QCmd) /\ s.ch \in Seq(QCmd) /\ q \in Seq(QCmd)
        /\ s.snap \in [Keys -> Nat] /\ newest \in [Keys -> Nat] /\ rep \in [Keys -> Nat]
        /\ mem \in [Keys -> Nat]
    BY <2>1 DEF Session, Ahead, IInv, TypeOK
  <2>6. ASSUME NEW k \in Keys, Pending(i, k),
               k # p.key \/ p.id # newest[k] \/ ~(p.id > s.snap[k])
        PROVE  Pending(i, k)'
    <3>1. PICK d \in Clients : /\ set[d] # Idle /\ set[d].key = k /\ set[d].id = newest[k]
                               /\ set[d].id > conn[i].snap[k]
      BY <2>6 DEF Pending
    <3>2. d # c
      BY <2>6, <3>1 DEF p
    <3> QED BY <1>1, <1>4, <2>2, <3>1, <3>2 DEF Pending
  <2>7. \A k \in Keys : Value(k)' = Value(k) /\ mem'[k] = mem[k]
    BY <1>1 DEF Value
  <2>8. ASSUME replicaMode
        PROVE  /\ Rising(Ahead(i)') /\ Within(Ahead(i)', rep, newest)
               /\ \A k \in Keys \ conn'[i].behind :
                    mem[k] # 0 => Pending(i, k)' \/ Ends(Ahead(i)', k, Value(k), mem[k])
    <3>1. Rising(q) /\ Within(q, rep, newest)
      BY <2>3, <2>8 DEF InStep
    <3>2. \A k \in Keys \ s.behind : mem[k] # 0 => Pending(i, k) \/ Ends(q, k, Value(k), mem[k])
      BY <2>3, <2>8 DEF InStep
    <3>3. CASE conn'[i].ch = Append(s.ch, e) /\ conn'[i].behind = Sent(s, p)
      <4>1. Ahead(i)' = Append(q, e)
        <5>1. ASSUME NEW d \in Seq(QCmd), NEW b \in Seq(QCmd), NEW x \in QCmd
              PROVE  d \o Append(b, x) = Append(d \o b, x)
          BY AppendToSecond
        <5>2. s.wire \o Append(s.ch, e) = Append(s.wire \o s.ch, e)
          BY <1>3, <2>5, <5>1, Zenon
        <5> QED BY <2>2, <3>3, <5>2 DEF Ahead
      <4>2. rep[p.key] <= newest[p.key]
        BY <1>2, <2>8 DEF IInv, Stores
      <4>3. newest[p.key] \in Nat /\ rep[p.key] \in Nat
        BY <1>2, <2>5
      <4>4. e.id <= newest[e.key] /\ (~e.late => rep[e.key] <= e.id /\ e.id = newest[e.key])
        BY <1>2, <1>3, <4>2, <4>3
      <4>5. Rising(Append(q, e)) /\ Within(Append(q, e), rep, newest)
        BY <1>3, <2>5, <3>1, <4>4, RisingAppend
      <4>6. ASSUME NEW k \in Keys \ conn'[i].behind, mem[k] # 0, ~Pending(i, k)'
            PROVE  Ends(Append(q, e), k, Value(k), mem[k])
        <5>1. k = e.key => mem[k] = e.id
          <6>1. k = p.key => ~Late(p)
            BY <3>3, <4>6 DEF Sent
          <6>2. mem[k] = newest[k]
            BY <4>6 DEF IInv, Stores
          <6> QED BY <1>2, <1>3, <4>3, <6>1, <6>2 DEF Late
        <5>2. k # e.key => Ends(q, k, Value(k), mem[k])
          <6>1. k # p.key => k \notin s.behind
            BY <3>3, <4>6 DEF Sent
          <6> QED BY <1>3, <2>6, <3>2, <4>6, <6>1
        <5> QED BY <1>3, <2>5, <5>1, <5>2, EndsAppend
      <4> QED BY <4>1, <4>5, <4>6
    <3>4. CASE conn'[i].ch = s.ch /\ conn'[i].behind = NotSent(s, p)
      <4>1. Ahead(i)' = q
        BY <2>2, <3>4 DEF Ahead
      <4>2. ASSUME NEW k \in Keys \ conn'[i].behind, mem[k] # 0, ~Pending(i, k)'
            PROVE  Ends(q, k, Value(k), mem[k])
        <5>1. k \notin s.behind
          BY <3>4, <4>2 DEF NotSent
        <5>2. k # p.key \/ p.id # newest[k] \/ ~(p.id > s.snap[k])
          <6>1. k = p.key => ~(p.id > s.snap[p.key]) \/ Late(p)
            BY <2>2, <3>4, <4>2 DEF NotSent, Live
          <6> QED BY <1>2, <2>5, <6>1 DEF Late
        <5>3. ~Pending(i, k)
          BY <2>6, <4>2, <5>2
        <5> QED BY <3>2, <4>2, <5>1, <5>3
      <4> QED BY <3>1, <4>1, <4>2
    <3> QED BY <1>6, <2>2, <3>3, <3>4
  <2> QED BY <1>1, <2>4, <2>7, <2>8 DEF InStep, Rising, Within, Ends
<1> QED BY <1>7, <1>8, <1>9, <1>10 DEF IInv
-----------------------------------------------------------------------------
(* The master's handlers *)

LEMMA SendSnapshotStep ==
  ASSUME IInv, NEW i \in Conns, sendSnapshot(i)
  PROVE  IInv'
<1> DEFINE n == Cardinality(Present)
<1>1. PICK order \in [1..n -> Present] :
        /\ \A k \in Present : \E j \in DOMAIN order : order[j] = k
        /\ conn' = [conn EXCEPT ![i].phase = "sent", ![i].snap = mem, ![i].behind = {},
             ![i].wire = [j \in DOMAIN order |->
               [key |-> order[j], id |-> mem[order[j]], late |-> FALSE]]]
  BY DEF sendSnapshot, Present
<1> DEFINE w == [j \in 1..n |-> [key |-> order[j], id |-> mem[order[j]], late |-> FALSE]]
           r == [conn[i] EXCEPT !.phase = "sent", !.snap = mem, !.behind = {}, !.wire = w]
<1>2. /\ conn[i].phase = "repl" /\ conn[i].open
      /\ UNCHANGED <<mem, newest, last, set, current, rep, evicted, replicaMode>>
  BY DEF sendSnapshot, masterVars, repVars
<1>3. conn[i] \in Session /\ mem \in [Keys -> Nat] /\ newest \in [Keys -> Nat]
      /\ rep \in [Keys -> Nat] /\ n \in Nat
  BY FS_CardinalityType DEF IInv, TypeOK, Stores
<1>4. conn[i].ch = <<>>
  BY <1>2 DEF IInv, Sessions
<1>5. DOMAIN order = 1..n
  OBVIOUS
<1>6. conn' = [conn EXCEPT ![i] = r]
  BY <1>1, <1>5
<1>7. \A j \in 1..n : order[j] \in Keys /\ mem[order[j]] > 0 /\ mem[order[j]] \in Nat
  BY <1>3 DEF Present
<1> HIDE DEF n
<1>8. /\ w \in [1..n -> QCmd]
      /\ \A j \in 1..n : w[j].key = order[j] /\ w[j].id = mem[order[j]] /\ ~w[j].late
  BY <1>7 DEF QCmd
<1> HIDE DEF w
<1>9. w \in Seq(QCmd) /\ Len(w) = n
  BY <1>3, <1>8
<1>10. /\ r \in Session /\ r.phase = "sent" /\ (r.open <=> conn[i].open)
       /\ r.ch = <<>> /\ r.wire = w /\ r.snap = mem /\ r.behind = {}
  BY <1>3, <1>4, <1>9 DEF Session, Phases
<1> HIDE DEF r
<1>11. conn'[i] = r
  BY <1>6, <1>10, OneConn DEF IInv
<1>12. Ahead(i)' = w
  <2>1. w \o <<>> = w
    BY <1>9
  <2>2. Ahead(i)' = r.wire \o r.ch
    BY <1>11 DEF Ahead
  <2> QED BY <1>10, <2>1, <2>2
<1>13. Rising(w)
  BY <1>7, <1>8, <1>9 DEF Rising
<1>14. \A k \in Keys : mem[k] \in {0, newest[k]} /\ newest[k] \in Nat
  BY <1>3 DEF IInv, Stores
<1>15. ASSUME replicaMode
       PROVE  Within(w, rep, newest)
  <2>1. \A k \in Keys : rep[k] <= newest[k]
    BY <1>15 DEF IInv, Stores
  <2>2. ASSUME NEW j \in 1..n
        PROVE  w[j].id <= newest[w[j].key] /\ rep[w[j].key] <= w[j].id
    <3>1. w[j].key = order[j] /\ w[j].id = mem[order[j]] /\ order[j] \in Keys
          /\ mem[order[j]] \in Nat /\ mem[order[j]] > 0
      BY <1>7, <1>8
    <3>2. mem[order[j]] = newest[order[j]] /\ rep[order[j]] <= newest[order[j]]
      BY <1>14, <2>1, <3>1
    <3> QED BY <3>1, <3>2
  <2> QED BY <1>9, <2>2 DEF Within
<1>16. ASSUME NEW k \in Keys, mem[k] # 0
       PROVE  Ends(w, k, Value(k), mem[k])
  <2>1. \A j \in 1..n : w[j].key = k => w[j].id = mem[k]
    BY <1>8
  <2>2. k \in Present
    BY <1>3, <1>16 DEF Present
  <2>3. \E j \in 1..n : w[j].key = k
    BY <1>1, <1>5, <1>8, <2>2
  <2> QED BY <1>9, <2>1, <2>3 DEF Ends
<1>17. InStep(i)'
  <2>1. \A k \in Keys : conn'[i].snap[k] <= newest'[k]
    <3>1. conn'[i].snap = mem /\ newest' = newest
      BY <1>2, <1>10, <1>11
    <3>2. \A k \in Keys : mem[k] <= newest[k]
      BY ONLY <1>14
    <3> QED BY ONLY <3>1, <3>2
  <2>2. \A k \in Keys : Value(k)' = Value(k) /\ mem'[k] = mem[k]
    BY <1>2 DEF Value
  <2> QED BY <1>2, <1>12, <1>13, <1>15, <1>16, <2>1, <2>2 DEF InStep, Rising, Within, Ends
<1> QED BY <1>2, <1>6, <1>10, <1>17, SessionStep

LEMMA RegisterStep ==
  ASSUME IInv, NEW i \in Conns, register(i)
  PROVE  IInv'
<1> DEFINE r == [conn[i] EXCEPT !.phase = "streaming"]
<1>1. /\ conn[i].phase = "sent" /\ conn' = [conn EXCEPT ![i] = r] /\ conn[i] \in Session
      /\ UNCHANGED <<mem, newest, last, set, current, rep, evicted, replicaMode>>
  BY DEF register, masterVars, repVars, IInv, TypeOK
<1>2. /\ r \in Session /\ r.phase = "streaming" /\ (r.open <=> conn[i].open)
      /\ r.ch = conn[i].ch /\ r.wire = conn[i].wire /\ r.snap = conn[i].snap
      /\ r.behind = conn[i].behind
  BY <1>1 DEF Session, Phases
<1> HIDE DEF r
<1>3. conn'[i] = r
  BY <1>1, <1>2, OneConn DEF IInv
<1>4. ASSUME Live(i)' PROVE InStep(i)'
  <2>1. InStep(i)
    BY <1>1, <1>2, <1>3, <1>4 DEF IInv, Live
  <2>2. Ahead(i)' = Ahead(i)
    BY <1>2, <1>3 DEF Ahead
  <2> QED BY <1>1, <1>2, <1>3, <2>1, <2>2, InStepSame
<1> QED BY <1>1, <1>2, <1>4, SessionStep

LEMMA StreamStep ==
  ASSUME IInv, NEW i \in Conns, stream(i)
  PROVE  IInv'
<1> DEFINE c == conn[i].ch
           w == conn[i].wire
           r == [conn[i] EXCEPT !.ch = Tail(c), !.wire = Append(w, Head(c))]
<1>1. /\ conn[i].phase = "streaming" /\ conn[i].open /\ c # <<>> /\ conn[i] \in Session
      /\ conn' = [conn EXCEPT ![i] = r]
      /\ UNCHANGED <<mem, newest, last, set, current, rep, evicted, replicaMode>>
  BY DEF stream, masterVars, repVars, IInv, TypeOK
<1>2. c \in Seq(QCmd) /\ w \in Seq(QCmd) /\ Tail(c) \in Seq(QCmd) /\ Append(w, Head(c)) \in Seq(QCmd)
  BY <1>1 DEF Session
<1>3. /\ r \in Session /\ r.phase = "streaming" /\ (r.open <=> conn[i].open)
      /\ r.ch = Tail(c) /\ r.wire = Append(w, Head(c)) /\ r.snap = conn[i].snap
      /\ r.behind = conn[i].behind
  BY <1>1, <1>2 DEF Session, Phases
<1> HIDE DEF r
<1>4. conn'[i] = r
  BY <1>1, <1>3, OneConn DEF IInv
<1>5. InStep(i)'
  <2>1. InStep(i)
    BY <1>1 DEF IInv, Live
  <2>2. Append(w, Head(c)) \o Tail(c) = w \o c
    BY <1>1, <1>2, MoveHead
  <2>3. Ahead(i)' = Ahead(i)
    BY <1>3, <1>4, <2>2 DEF Ahead
  <2> QED BY <1>1, <1>3, <1>4, <2>1, <2>3, InStepSame
<1> QED BY <1>1, <1>3, <1>5, SessionStep

\* sendFails and unregister.
LEMMA CloseStep ==
  ASSUME IInv, NEW i \in Conns, sendFails(i) \/ unregister(i)
  PROVE  IInv'
<1>1. /\ conn[i].phase # "none" /\ conn' = [conn EXCEPT ![i] = Closed]
      /\ UNCHANGED <<mem, newest, last, set, current, rep, evicted, replicaMode>>
  BY DEF sendFails, unregister, masterVars, repVars
<1>2. ~Live(i)'
  BY <1>1, NoConnType, OneConn DEF IInv, Live
<1> QED BY <1>1, <1>2, NoConnType, SessionStep
-----------------------------------------------------------------------------
(* The replica and the network *)

LEMMA ConnectStep ==
  ASSUME IInv, startReplicaClient
  PROVE  IInv'
<1> DEFINE i == current + 1
           r == [conn[i] EXCEPT !.phase = "repl", !.open = TRUE]
<1>1. /\ ~Connected /\ current < MaxConns /\ current' = current + 1
      /\ UNCHANGED <<mem, newest, last, set, rep, evicted, replicaMode>>
  BY DEF startReplicaClient, masterVars
<1>2. current \in Nat /\ i \in Conns /\ conn[i] \in Session /\ i > current
  BY <1>1, ReplicationAssumption DEF IInv, TypeOK, Conns
<1>3. conn' = [conn EXCEPT ![i] = r]
  BY <1>2 DEF startReplicaClient, IInv, TypeOK
<1>4. conn[i].phase = "none" /\ conn[i].ch = <<>> /\ conn[i].wire = <<>>
  BY <1>2 DEF IInv, Sessions
<1>5. r \in Session /\ r.phase = "repl" /\ r.ch = <<>> /\ r.wire = <<>>
  BY <1>2, <1>4 DEF Session, Phases
<1> HIDE DEF r
<1>6. /\ conn' \in [Conns -> Session]
      /\ conn'[i] = r
      /\ \A j \in Conns : j # i => conn'[j] = conn[j]
  BY <1>2, <1>3, <1>5, OneConn DEF IInv
<1>7. \A j \in Conns : ~conn[j].open
  BY <1>1, ReplicationAssumption DEF IInv, Sessions, Connected, Conns
<1>8. TypeOK'
  BY <1>1, <1>2, <1>6, ReplicationAssumption DEF IInv, TypeOK, Conns
<1>9. Stores'
  BY <1>1 DEF IInv, Stores, Present
<1>10. Sessions'
  <2>1. ASSUME NEW j \in Conns
        PROVE  /\ conn'[j].open => j = current'
               /\ conn'[j].phase = "closed" => ~conn'[j].open
               /\ conn'[j].phase \in {"none", "repl"} => conn'[j].ch = <<>> /\ conn'[j].wire = <<>>
               /\ j > current' => conn'[j].phase = "none"
    <3>1. CASE j = i
      BY <1>1, <1>2, <1>5, <1>6, <3>1
    <3>2. CASE j # i
      <4>1. conn'[j] = conn[j] /\ ~conn[j].open
        BY <1>6, <1>7, <3>2
      <4>2. j > current' => j > current
        BY <1>1, <1>2, ReplicationAssumption DEF Conns
      <4> QED BY <4>1, <4>2 DEF IInv, Sessions
    <3> QED BY <3>1, <3>2
  <2> QED BY <2>1 DEF Sessions
<1>11. \A j \in Conns : ~Live(j)'
  BY <1>5, <1>6, <1>7 DEF Live
<1> QED BY <1>8, <1>9, <1>10, <1>11 DEF IInv

\* What apply does: the head of the wire is the next value of its key.
LEMMA ApplyFacts ==
  ASSUME IInv, apply
  PROVE  /\ current \in Conns
         /\ Live(current) /\ InStep(current)
         /\ Ahead(current) \in Seq(QCmd) /\ Ahead(current) # <<>>
         /\ Head(conn[current].wire) = Head(Ahead(current))
         /\ Head(Ahead(current)) \in QCmd
         /\ Tail(conn[current].wire) \o conn[current].ch = Tail(Ahead(current))
<1> DEFINE w == conn[current].wire
           c == conn[current].ch
<1>1. Connected /\ w # <<>>
  BY DEF apply
<1>2. current \in Conns
  BY <1>1, ReplicationAssumption DEF Connected, IInv, TypeOK, Conns
<1>3. conn[current] \in Session /\ w \in Seq(QCmd) /\ c \in Seq(QCmd)
  BY <1>2 DEF IInv, TypeOK, Session
<1>4. conn[current].open /\ conn[current].phase \notin {"none", "repl"}
  BY <1>1, <1>2 DEF Connected, IInv, Sessions
<1>5. conn[current].phase # "closed"
  BY <1>2, <1>4 DEF IInv, Sessions
<1>6. Live(current)
  BY <1>3, <1>4, <1>5 DEF Live, Session, Phases
<1>7. InStep(current)
  BY <1>2, <1>6 DEF IInv
<1>8. /\ w \o c \in Seq(QCmd) /\ w \o c # <<>> /\ Head(w) = Head(w \o c) /\ Head(w) \in QCmd
      /\ Tail(w) \o c = Tail(w \o c)
  <2>1. ASSUME NEW a \in Seq(QCmd), NEW b \in Seq(QCmd), a # <<>>
        PROVE  /\ a \o b \in Seq(QCmd) /\ a \o b # <<>> /\ Head(a) = Head(a \o b) /\ Head(a) \in QCmd
               /\ Tail(a) \o b = Tail(a \o b)
    BY <2>1, DropHeadOfFirst
  <2> HIDE DEF w, c
  <2> QED BY <1>1, <1>3, <2>1, Zenon
<1> QED BY <1>2, <1>6, <1>7, <1>8 DEF Ahead

LEMMA ApplyStep ==
  ASSUME IInv, apply
  PROVE  IInv' /\ (replicaMode => \A k \in Keys : rep'[k] >= rep[k] \/ AppliesLate(k) \/ k \in evicted')
<1> DEFINE i == current
           q == Ahead(i)
           h == Head(q)
           r == [conn[i] EXCEPT !.wire = Tail(conn[i].wire)]
           s == [rep EXCEPT ![h.key] = h.id]
<1>1. /\ i \in Conns /\ InStep(i)
      /\ q \in Seq(QCmd) /\ q # <<>> /\ Head(conn[i].wire) = h /\ h \in QCmd
      /\ Tail(conn[i].wire) \o conn[i].ch = Tail(q)
  BY ApplyFacts
<1>2. /\ conn[i].wire # <<>> /\ conn[i].open /\ Connected
      /\ rep' \in Evictions("replica", s)
      /\ evicted' = {k \in Keys : rep'[k] = 0 /\ (rep[k] # 0 \/ k = h.key \/ k \in evicted)}
      /\ conn' = [conn EXCEPT ![i] = r]
      /\ UNCHANGED <<mem, newest, last, set, current, replicaMode>>
  BY <1>1 DEF apply, Connected, masterVars
<1>3. conn[i] \in Session /\ mem \in [Keys -> Nat] /\ rep \in [Keys -> Nat]
      /\ newest \in [Keys -> Nat] /\ conn \in [Conns -> Session]
  BY <1>1 DEF IInv, TypeOK
<1>4. Tail(conn[i].wire) \in Seq(QCmd)
  BY <1>2, <1>3 DEF Session
<1>5. /\ r \in Session /\ r.phase = conn[i].phase /\ (r.open <=> conn[i].open)
      /\ r.ch = conn[i].ch /\ r.wire = Tail(conn[i].wire) /\ r.snap = conn[i].snap
      /\ r.behind = conn[i].behind
  BY <1>3, <1>4 DEF Session
<1> HIDE DEF r
<1>6. /\ conn' \in [Conns -> Session]
      /\ conn'[i] = r
      /\ \A j \in Conns : j # i => conn'[j] = conn[j]
  BY <1>1, <1>2, <1>5, OneConn DEF IInv
<1>7. conn[i].phase \notin {"none", "repl"} /\ \A j \in Conns : j # i => ~conn[j].open
  BY <1>1, <1>2 DEF IInv, Sessions
<1>8. h.key \in Keys /\ h.id \in Nat /\ h.id > 0
  BY <1>1 DEF QCmd
<1>9. Ahead(i)' = Tail(q)
  BY <1>1, <1>2, <1>5, <1>6 DEF Ahead
<1> HIDE DEF q, h
<1>10. s \in [Keys -> Nat] /\ \A k \in Keys : s[k] = IF k = h.key THEN h.id ELSE rep[k]
  BY <1>3, <1>8
<1> HIDE DEF s
<1>11. PICK gone : rep' = [k \in Keys |-> IF k \in gone THEN 0 ELSE s[k]]
  BY <1>2 DEF Evictions
<1>12. rep' \in [Keys -> Nat] /\ \A k \in Keys : rep'[k] \in {0, IF k = h.key THEN h.id ELSE rep[k]}
  BY <1>10, <1>11
<1>13. TypeOK'
  BY <1>2, <1>6, <1>12 DEF IInv, TypeOK
<1>14. ASSUME replicaMode
       PROVE  /\ \A k \in Keys : rep'[k] >= rep[k] \/ AppliesLate(k) \/ k \in evicted'
              /\ \A k \in Keys : rep'[k] <= newest[k] /\ (k \in evicted' => rep'[k] = 0)
              /\ Rising(Tail(q)) /\ Within(Tail(q), rep', newest)
              /\ \A k \in Keys \ conn[i].behind :
                   mem[k] # 0 => Pending(i, k) \/ Ends(Tail(q), k, Value(k)', mem[k])
  <2>1. Rising(q) /\ Within(q, rep, newest)
    BY <1>1, <1>14 DEF InStep, q
  <2>2. /\ h.id <= newest[h.key] /\ (~h.late => rep[h.key] <= h.id)
        /\ Rising(Tail(q)) /\ Within(Tail(q), rep', newest)
    BY <1>1, <1>3, <1>12, <2>1, RisingTail DEF h
  <2>3. \A k \in Keys : /\ rep[k] <= newest[k] /\ rep[k] \in Nat /\ newest[k] \in Nat
                        /\ k \in evicted => rep[k] = 0
    BY <1>3, <1>14 DEF IInv, Stores
  <2>4. ASSUME NEW k \in Keys
        PROVE  /\ rep'[k] >= rep[k] \/ AppliesLate(k) \/ k \in evicted'
               /\ rep'[k] <= newest[k] /\ (k \in evicted' => rep'[k] = 0)
    <3>1. rep'[k] \in {0, IF k = h.key THEN h.id ELSE rep[k]} /\ rep'[k] \in Nat
      BY <1>12
    <3>2. rep'[k] <= newest[k] /\ (k \in evicted' => rep'[k] = 0)
      BY <1>2, <1>8, <2>2, <2>3, <3>1
    <3>3. CASE rep'[k] = 0
      <4>1. rep[k] = 0 \/ k \in evicted'
        BY <1>2, <3>3
      <4> QED BY <2>3, <3>2, <3>3, <4>1
    <3>4. CASE rep'[k] # 0 /\ k # h.key
      BY <2>3, <3>1, <3>2, <3>4
    <3>5. CASE rep'[k] # 0 /\ k = h.key /\ h.late
      BY <1>1, <1>2, <3>2, <3>5 DEF AppliesLate
    <3>6. CASE rep'[k] # 0 /\ k = h.key /\ ~h.late
      BY <1>8, <2>2, <2>3, <3>1, <3>2, <3>6
    <3> QED BY <3>3, <3>4, <3>5, <3>6
  <2>5. ASSUME NEW k \in Keys \ conn[i].behind, mem[k] # 0, ~Pending(i, k)
        PROVE  Ends(Tail(q), k, Value(k)', mem[k])
    <3> DEFINE x == IF h.key = k THEN h.id ELSE Value(k)
    <3>1. Ends(q, k, Value(k), mem[k])
      BY <1>1, <1>14, <2>5 DEF InStep, q
    <3>2. Ends(Tail(q), k, x, mem[k])
      BY <1>1, <3>1, EndsTail DEF h
    <3>3. Value(k)' \in {x, mem[k]}
      <4>1. Value(k)' = IF k \in evicted' THEN mem[k] ELSE rep'[k]
        BY <1>2 DEF Value
      <4>2. rep'[k] \in {0, IF k = h.key THEN h.id ELSE rep[k]}
        BY <1>12
      <4>3. k \notin evicted' => rep'[k] # 0 \/ (rep[k] = 0 /\ k # h.key /\ k \notin evicted)
        BY <1>2
      <4>4. k \in evicted => rep[k] = 0
        BY <2>3
      <4> QED BY <4>1, <4>2, <4>3, <4>4 DEF Value
    <3> HIDE DEF x
    <3> QED BY <3>2, <3>3, EndsEither
  <2> QED BY <2>2, <2>4, <2>5
<1>15. Stores'
  BY <1>2, <1>14 DEF IInv, Stores, Present
<1>16. Sessions'
  <2>1. ASSUME NEW j \in Conns
        PROVE  /\ conn'[j].open <=> conn[j].open
               /\ conn'[j].phase = conn[j].phase
               /\ j = i \/ conn'[j] = conn[j]
    BY <1>5, <1>6
  <2> QED BY <1>2, <1>7, <2>1 DEF IInv, Sessions
<1>17. ASSUME NEW j \in Conns, Live(j)'
       PROVE  InStep(j)'
  <2>1. j = i
    BY <1>6, <1>7, <1>17 DEF Live
  <2>2. conn'[i].snap = conn[i].snap /\ conn'[i].behind = conn[i].behind
    BY <1>5, <1>6
  <2>3. \A k \in Keys : conn'[i].snap[k] <= newest'[k]
    BY <1>1, <1>2, <2>2 DEF InStep
  <2>4. \A k \in Keys : Pending(i, k) => Pending(i, k)'
    BY <1>2, <2>2 DEF Pending
  <2>5. ASSUME replicaMode'
        PROVE  /\ Rising(Ahead(i)') /\ Within(Ahead(i)', rep', newest')
               /\ \A k \in Keys \ conn'[i].behind :
                    mem'[k] # 0 => Pending(i, k)' \/ Ends(Ahead(i)', k, Value(k)', mem'[k])
    BY <1>2, <1>9, <1>14, <2>2, <2>4, <2>5
  <2>6. InStep(i)'
    BY <1>2, <2>3, <2>5 DEF InStep, Rising, Within, Ends
  <2> QED BY <1>2, <2>1, <2>6
<1> QED BY <1>13, <1>14, <1>15, <1>16, <1>17 DEF IInv

LEMMA SetReplicaStep ==
  ASSUME IInv, NEW k \in Keys, SetReplica(k)
  PROVE  IInv'
<1> DEFINE s == [rep EXCEPT ![k] = last + 1]
<1>1. /\ ~replicaMode /\ last' = last + 1 /\ rep' \in Evictions("replica", s)
      /\ UNCHANGED <<mem, newest, set, conn, current, evicted, replicaMode>>
  BY DEF SetReplica
<1>2. last \in Nat /\ mem \in [Keys -> Nat] /\ newest \in [Keys -> Nat] /\ s \in [Keys -> Nat]
  BY DEF IInv, TypeOK
<1> HIDE DEF s
<1>3. PICK gone : rep' = [j \in Keys |-> IF j \in gone THEN 0 ELSE s[j]]
  BY <1>1 DEF Evictions
<1>4. rep' \in [Keys -> Nat]
  BY <1>2, <1>3
<1>5. TypeOK'
  BY <1>1, <1>2, <1>4 DEF IInv, TypeOK
<1>6. Stores'
  BY <1>1, <1>2 DEF IInv, TypeOK, Stores, Present
<1>7. Sessions'
  BY <1>1 DEF IInv, Sessions
<1>8. \A i \in Conns : Live(i)' => InStep(i)'
  BY <1>1 DEF IInv, Live, InStep
<1> QED BY <1>5, <1>6, <1>7, <1>8 DEF IInv

LEMMA DisconnectStep ==
  ASSUME IInv, Disconnect
  PROVE  IInv'
<1> DEFINE i == current
           r == [conn[i] EXCEPT !.open = FALSE, !.wire = <<>>, !.snap = Nothing, !.behind = {}]
<1>1. /\ i > 0 /\ conn[i].open
      /\ conn' = [conn EXCEPT ![i] = r]
      /\ UNCHANGED <<mem, newest, last, set, current, rep, evicted, replicaMode>>
  BY DEF Disconnect, Connected, masterVars, repVars
<1>2. i \in Conns /\ conn[i] \in Session
  BY <1>1, ReplicationAssumption DEF IInv, TypeOK, Conns
<1>3. Nothing \in [Keys -> Nat] /\ <<>> \in Seq(QCmd) /\ {} \in SUBSET Keys
  BY DEF Nothing
<1>4. /\ r \in Session /\ ~r.open /\ r.phase = conn[i].phase /\ r.ch = conn[i].ch /\ r.wire = <<>>
  BY <1>2, <1>3 DEF Session
<1> HIDE DEF r
<1>5. /\ conn' \in [Conns -> Session]
      /\ conn'[i] = r
      /\ \A j \in Conns : j # i => conn'[j] = conn[j]
  BY <1>1, <1>2, <1>4, OneConn DEF IInv
<1>6. \A j \in Conns : ~conn'[j].open
  BY <1>4, <1>5 DEF IInv, Sessions
<1>7. TypeOK'
  BY <1>1, <1>5 DEF IInv, TypeOK
<1>8. Stores'
  BY <1>1 DEF IInv, Stores, Present
<1>9. Sessions'
  <2>1. ASSUME NEW j \in Conns
        PROVE  /\ conn'[j].phase = conn[j].phase
               /\ conn'[j].ch = conn[j].ch
               /\ conn'[j].wire = <<>> \/ conn'[j].wire = conn[j].wire
    BY <1>4, <1>5
  <2> QED BY <1>1, <1>6, <2>1 DEF IInv, Sessions
<1>10. \A j \in Conns : ~Live(j)'
  BY <1>6 DEF Live
<1> QED BY <1>7, <1>8, <1>9, <1>10 DEF IInv
-----------------------------------------------------------------------------
(* The theorems *)

LEMMA Inductive ==
  ASSUME IInv, [Next]_vars
  PROVE  IInv'
<1>1. ASSUME NEW c \in Clients, broadcastToReplicas(c) PROVE IInv'
  BY <1>1, BroadcastStep
<1>2. ASSUME NEW c \in Clients, NEW k \in Keys, SetApply(c, k) PROVE IInv'
  BY <1>2, SetApplyStep
<1>3. ASSUME NEW i \in Conns, Handler(i) PROVE IInv'
  <2>1. CASE sendSnapshot(i)
    BY <2>1, SendSnapshotStep
  <2>2. CASE register(i)
    BY <2>2, RegisterStep
  <2>3. CASE stream(i)
    BY <2>3, StreamStep
  <2>4. CASE sendFails(i) \/ unregister(i)
    BY <2>4, CloseStep
  <2> QED BY <1>3, <2>1, <2>2, <2>3, <2>4 DEF Handler
<1>4. CASE startReplicaClient
  BY <1>4, ConnectStep
<1>5. CASE apply
  BY <1>5, ApplyStep
<1>6. CASE startLeaderHeartbeat
  BY <1>6, QuietStep DEF startLeaderHeartbeat, masterVars
<1>7. ASSUME NEW k \in Keys, SetReplica(k) PROVE IInv'
  BY <1>7, SetReplicaStep
<1>8. CASE Disconnect
  BY <1>8, DisconnectStep
<1>9. CASE UNCHANGED vars
  <2>1. UNCHANGED <<mem, newest, last, set, conn, current, rep, evicted, replicaMode>>
    BY <1>9 DEF vars, masterVars, repVars
  <2> QED BY <2>1, QuietStep DEF IInv, TypeOK
<1> QED BY <1>1, <1>2, <1>3, <1>4, <1>5, <1>6, <1>7, <1>8, <1>9 DEF Next

\* Every state satisfies the inductive invariant: what a session has yet to
\* apply ends with what the master has, for every key the session is not
\* behind for.
THEOREM Invariance == Spec => []IInv
<1>1. Init => IInv
  BY InitIInv
<1>2. IInv /\ [Next]_vars => IInv'
  BY Inductive
<1> QED BY <1>1, <1>2, PTL DEF Spec

\* A settled replica has the master's value of each key that neither has
\* evicted and that its session is not behind for, whatever the size of the
\* channel, however many clients set keys at once and however many
\* connections came before.
THEOREM ReplicaConverges == Spec => []OnlyMissedDiffer
<1>1. ASSUME IInv PROVE OnlyMissedDiffer
  <2> SUFFICES ASSUME Settled, replicaMode, NEW k \in Keys \ conn[current].behind, mem[k] # 0
               PROVE  IF k \in evicted THEN rep[k] = 0 ELSE rep[k] = mem[k]
    BY DEF OnlyMissedDiffer
  <2>1. current \in Conns
    BY <1>1, ReplicationAssumption DEF Settled, Connected, IInv, TypeOK, Conns
  <2>2. InStep(current)
    BY <1>1, <2>1 DEF Settled, Connected, IInv, Live
  <2>3. Ahead(current) = <<>>
    BY DEF Settled, Ahead
  <2>4. ~Pending(current, k)
    BY DEF Settled, Pending
  <2>5. Ends(<<>>, k, Value(k), mem[k])
    BY <2>2, <2>3, <2>4 DEF InStep
  <2>6. Value(k) = mem[k]
    BY <2>5 DEF Ends
  <2>7. k \in evicted => rep[k] = 0
    BY <1>1 DEF IInv, Stores
  <2> QED BY <2>6, <2>7 DEF Value
<1> QED BY <1>1, Invariance, PTL

\* No step of anyone takes a key of the replica back to an older value, but
\* for a SET that was broadcast late and for the replica's own evictions.
THEOREM RepRises == Spec => NeverBackwards
<1>1. ASSUME IInv, [Next]_vars
      PROVE  [replicaMode => \A k \in Keys :
                rep'[k] >= rep[k] \/ AppliesLate(k) \/ k \in evicted']_vars
  <2> SUFFICES ASSUME replicaMode, NEW k \in Keys
               PROVE  rep'[k] >= rep[k] \/ AppliesLate(k) \/ k \in evicted'
    OBVIOUS
  <2>1. rep \in [Keys -> Nat]
    BY <1>1 DEF IInv, TypeOK
  <2>2. CASE apply
    BY <1>1, <2>2, ApplyStep
  <2>3. CASE ~apply
    <3>1. rep' = rep
      BY <1>1, <2>3 DEF Next, vars, repVars, broadcastToReplicas, SetApply, Handler, sendSnapshot,
         sendFails, register, stream, unregister, startReplicaClient, startLeaderHeartbeat,
         SetReplica, Disconnect
    <3> QED BY <2>1, <3>1
  <2> QED BY <2>2, <2>3
<1> QED BY <1>1, Invariance, PTL DEF Spec, NeverBackwards
================================================================================
